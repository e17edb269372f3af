---------------------------- MODULE ClibsProofs ----------------------------
(***************************************************************************)
(* Proofs about both sorts, for arrays of every length, about the tree,    *)
(* for any number of nodes, and about the shortest paths, for every graph  *)
(* that ShortestPath admits.                                               *)
(***************************************************************************)
EXTENDS QuickSort, HeapSort, Tree, ShortestPath, Iteration, FiniteSetTheorems, SequenceTheorems, TLAPS

(* What swap does.                                                         *)

LEMMA SwapKeeps ==
  ASSUME arr \in [0..len-1 -> Int], KeepsElements, NEW x \in 0..len-1, NEW y \in 0..len-1, swap(x, y)
  PROVE  /\ KeepsElements' /\ arr' \in [0..len-1 -> Int] /\ len' = len
         /\ \A z \in 0..len-1 :
              arr'[z] = IF z = x THEN arr[y] ELSE IF z = y THEN arr[x] ELSE arr[z]
<1>1. /\ arr \in [0..len-1 -> Int] /\ from \in [0..len-1 -> 0..len-1]
      /\ len' = len /\ input' = input
  BY DEF KeepsElements, swap
<1>2. /\ arr' \in [0..len-1 -> Int]
      /\ \A z \in 0..len-1 : arr'[z] = IF z = x THEN arr[y] ELSE IF z = y THEN arr[x] ELSE arr[z]
  BY <1>1 DEF swap, Exchanged
<1>3. /\ from' \in [0..len-1 -> 0..len-1]
      /\ \A z \in 0..len-1 : from'[z] = IF z = x THEN from[y] ELSE IF z = y THEN from[x] ELSE from[z]
  BY <1>1 DEF swap
<1>4. \A z \in 0..len-1 : arr'[z] = input'[from'[z]]
  BY <1>1, <1>2, <1>3 DEF KeepsElements
<1>5. \A w, z \in 0..len-1 : from'[w] = from'[z] => w = z
  <2>1. \A w, z \in 0..len-1 : from[w] = from[z] => w = z BY DEF KeepsElements
  <2>2. QED BY <1>3, <2>1
<1>6. KeepsElements' BY <1>1, <1>2, <1>3, <1>4, <1>5 DEF KeepsElements
<1>7. QED BY <1>1, <1>2, <1>6

-----------------------------------------------------------------------------
(***************************************************************************)
(* quick_sort.  The argument is ApartIsOrdered: what no call has still to  *)
(* sort is in its order.  Split is what a running call has reached, and    *)
(* why the place that it leaves out when nothing is swapped (qsort.c 22)   *)
(* holds the pivot.                                                        *)
(***************************************************************************)

Ranges == [start : 0..len, end : -1..len-1]

Split ==
  at # "enter" =>
    /\ \A x \in 0..len-1 : start <= x /\ x < left => arr[x] < mid
    /\ \A x \in 0..len-1 : right < x /\ x < end => arr[x] >= mid
    /\ at = "left" => right = end - 1 \/ arr[right] >= mid
    /\ at = "right" => \/ arr[left] >= mid
                       \/ left = right /\ right = end - 1
    /\ at = "split" => left = right /\ (right = end - 1 \/ arr[left] >= mid)

QuickInv == QuickTypeOK /\ KeepsElements /\ CallsApart /\ ApartIsOrdered /\ Split

-----------------------------------------------------------------------------
LEMMA TopCall ==
  ASSUME QuickTypeOK, calls # <<>>
  PROVE  /\ calls \in Seq(Ranges) /\ 1 \in 1..Len(calls) /\ len \in Nat
         /\ calls[1].start = start /\ start \in 0..len
         /\ calls[1].end = end /\ end \in -1..len-1
<1>1. calls \in Seq(Ranges) /\ len \in Nat BY DEF QuickTypeOK, Ranges
<1>2. 1 \in 1..Len(calls) BY <1>1
<1>3. calls[1] \in Ranges BY <1>1, <1>2
<1>4. QED BY <1>1, <1>2, <1>3 DEF Ranges, start, end

\* What a running call may take for granted.
LEMMA Running ==
  ASSUME QuickInv, at # "enter"
  PROVE  /\ calls # <<>> /\ calls \in Seq(Ranges) /\ len \in Nat /\ arr \in [0..len-1 -> Int]
         /\ start \in 0..len-1 /\ end \in 0..len-1 /\ left \in 0..len-1 /\ right \in 0..len-1
         /\ start <= left /\ left <= right /\ right < end /\ mid \in Int
         /\ InCall(1, left) /\ InCall(1, right) /\ InCall(1, end)
<1>1. QuickTypeOK BY DEF QuickInv
<1>2. calls # <<>> /\ arr \in [0..len-1 -> Int] BY <1>1 DEF QuickTypeOK
<1>3. /\ calls \in Seq(Ranges) /\ 1 \in 1..Len(calls) /\ len \in Nat
      /\ calls[1].start = start /\ start \in 0..len
      /\ calls[1].end = end /\ end \in -1..len-1
  BY <1>1, <1>2, TopCall
<1>4. 0 <= start /\ start < end /\ end < len /\ start <= left /\ left <= right /\ right < end
  BY <1>1 DEF QuickTypeOK
<1>5. left \in Int /\ right \in Int BY <1>1 DEF QuickTypeOK
<1>6. QED BY <1>2, <1>3, <1>4, <1>5 DEF InCall, mid

\* A swap within the running call's range.
LEMMA SwapApart ==
  ASSUME QuickInv, calls # <<>>, NEW x \in 0..len-1, NEW y \in 0..len-1,
         InCall(1, x), InCall(1, y), swap(x, y),
         NEW u \in 0..len-1, NEW v \in 0..len-1, u < v,
         ~ \E k \in 1..Len(calls) : InCall(k, u) /\ InCall(k, v)
  PROVE  arr'[u] <= arr'[v]
<1>0. QuickTypeOK /\ CallsApart /\ ApartIsOrdered BY DEF QuickInv
<1>1. /\ arr \in [0..len-1 -> Int] /\ len \in Nat /\ 1 \in 1..Len(calls)
      /\ calls[1].start \in Int /\ calls[1].end \in Int
      /\ CallsApart /\ ApartIsOrdered
  <2>1. arr \in [0..len-1 -> Int] BY <1>0 DEF QuickTypeOK
  <2>2. QED BY <1>0, <2>1, TopCall
<1>2. \A z \in 0..len-1 : arr'[z] = IF z = x THEN arr[y] ELSE IF z = y THEN arr[x] ELSE arr[z]
  BY <1>1, SwapKeeps DEF QuickInv
<1>3. ~(InCall(1, u) /\ InCall(1, v)) BY <1>1
<1>4. CASE u \in {x, y}
  <2>1. v \notin {x, y} /\ ~InCall(1, v) BY <1>3, <1>4
  <2>2. x < v /\ y < v BY <1>1, <1>4, <2>1 DEF InCall
  <2>3. \A z \in {x, y} : ~ \E k \in 1..Len(calls) : InCall(k, z) /\ InCall(k, v)
    BY <1>1, <2>1 DEF CallsApart
  <2>4. arr[x] <= arr[v] /\ arr[y] <= arr[v] BY <1>1, <2>2, <2>3 DEF ApartIsOrdered
  <2>5. QED BY <1>2, <1>4, <2>1, <2>4
<1>5. CASE v \in {x, y}
  <2>1. u \notin {x, y} /\ ~InCall(1, u) BY <1>3, <1>5
  <2>2. u < x /\ u < y BY <1>1, <1>5, <2>1 DEF InCall
  <2>3. \A z \in {x, y} : ~ \E k \in 1..Len(calls) : InCall(k, u) /\ InCall(k, z)
    BY <1>1, <2>1 DEF CallsApart
  <2>4. arr[u] <= arr[x] /\ arr[u] <= arr[y] BY <1>1, <2>2, <2>3 DEF ApartIsOrdered
  <2>5. QED BY <1>2, <1>5, <2>1, <2>4
<1>6. CASE u \notin {x, y} /\ v \notin {x, y} BY <1>1, <1>2, <1>6 DEF ApartIsOrdered
<1>7. QED BY <1>4, <1>5, <1>6

-----------------------------------------------------------------------------
(* The steps                                                               *)

LEMMA QuickInitInv == QuickInit => QuickInv
<1> SUFFICES ASSUME NEW n \in Lengths, NEW a \in [0..n-1 -> Values], QuickStart(n, a)
             PROVE  QuickInv
  BY DEF QuickInit
<1>1. n \in Nat /\ len = n /\ arr = a /\ input = a /\ a \in [0..n-1 -> Int]
  BY ArraysAssumption DEF QuickStart, Called
<1>2. calls = <<[start |-> 0, end |-> n - 1]>> /\ at = "enter" BY DEF QuickStart
<1>3. calls \in Seq(Ranges) /\ Len(calls) = 1 BY <1>1, <1>2 DEF Ranges
<1>4. QuickTypeOK BY <1>1, <1>2, <1>3 DEF QuickTypeOK, Ranges, QuickStart
<1>5. KeepsElements BY <1>1 DEF KeepsElements, QuickStart, Called
<1>6. CallsApart BY <1>3 DEF CallsApart
<1>7. ApartIsOrdered
  <2>1. 1 \in 1..Len(calls) /\ \A x \in 0..len-1 : InCall(1, x) BY <1>1, <1>2, <1>3 DEF InCall
  <2>2. QED BY <2>1 DEF ApartIsOrdered
<1>8. QED BY <1>2, <1>4, <1>5, <1>6, <1>7 DEF QuickInv, Split

LEMMA ReturnsInv == QuickInv /\ returns => QuickInv'
<1> SUFFICES ASSUME QuickInv, returns PROVE QuickInv' OBVIOUS
<1>1. /\ calls \in Seq(Ranges) /\ calls # <<>> /\ calls' = Tail(calls)
      /\ UNCHANGED arrayVars /\ at' = "enter" /\ calls[1].start >= calls[1].end
      /\ arr' = arr /\ len' = len /\ len \in Nat
  BY DEF QuickInv, QuickTypeOK, Ranges, returns, start, end, arrayVars
<1>2. /\ calls' \in Seq(Ranges) /\ Len(calls') = Len(calls) - 1
      /\ \A k \in 1..Len(calls') : k + 1 \in 1..Len(calls) /\ calls'[k] = calls[k + 1]
  BY <1>1
<1>3. QuickTypeOK' BY <1>1, <1>2 DEF QuickInv, QuickTypeOK, Ranges, returns
<1>4. KeepsElements' BY <1>1 DEF QuickInv, KeepsElements, arrayVars
<1>5. CallsApart' BY <1>1, <1>2 DEF QuickInv, CallsApart, InCall
<1>6. ApartIsOrdered'
  <2> SUFFICES ASSUME NEW u \in 0..len-1, NEW v \in 0..len-1, u < v,
                      ~ (arr[u] <= arr[v])
               PROVE  \E k \in 1..Len(calls') :
                        /\ calls'[k].start <= u /\ u <= calls'[k].end
                        /\ calls'[k].start <= v /\ v <= calls'[k].end
    <3>1. arr' = arr /\ len' = len BY <1>1
    <3>2. QED BY <3>1, Zenon DEF ApartIsOrdered, InCall
  <2>1. PICK k \in 1..Len(calls) : InCall(k, u) /\ InCall(k, v)
    BY DEF QuickInv, ApartIsOrdered
  <2>2. calls[1].start \in Int /\ calls[1].end \in Int BY <1>1, TopCall DEF QuickInv
  <2>3. k # 1 BY <1>1, <2>1, <2>2 DEF InCall
  <2>4. k - 1 \in 1..Len(calls') /\ calls'[k - 1] = calls[k] BY <1>1, <1>2, <2>3
  <2>5. QED BY <2>1, <2>4 DEF InCall
<1>7. QED BY <1>1, <1>3, <1>4, <1>5, <1>6 DEF QuickInv, Split

\* The steps that only look.
LEMMA ScanInv ==
  ASSUME QuickInv, enters \/ left_goes_on \/ left_stops \/ right_goes_on
  PROVE  QuickInv'
<1>1. /\ UNCHANGED <<arr, len, input, from, calls>> /\ calls # <<>>
      /\ calls \in Seq(Ranges) /\ len \in Nat /\ arr \in [0..len-1 -> Int]
  BY DEF QuickInv, QuickTypeOK, enters, left_goes_on, left_stops, right_goes_on, arrayVars, Ranges
<1>2. start' = start /\ end' = end /\ mid' = mid BY <1>1 DEF start, end, mid
<1>3. start \in 0..len /\ end \in -1..len-1 BY <1>1, TopCall DEF QuickInv
<1>4. ASSUME enters PROVE QuickTypeOK' /\ Split'
  <2>1. QuickTypeOK' BY <1>4, <1>1, <1>2, <1>3 DEF QuickInv, QuickTypeOK, enters, Ranges
  <2>2. Split' BY <1>4, <1>1, <1>2, <1>3 DEF Split, enters
  <2>3. QED BY <2>1, <2>2
<1>5. ASSUME left_goes_on \/ left_stops \/ right_goes_on PROVE QuickTypeOK' /\ Split'
  <2>1. /\ at # "enter" /\ Split
        /\ start \in 0..len-1 /\ end \in 0..len-1 /\ left \in 0..len-1 /\ right \in 0..len-1
        /\ start <= left /\ left <= right /\ right < end /\ mid \in Int
    BY <1>5, Running DEF QuickInv, left_goes_on, left_stops, right_goes_on
  <2>2. \A x \in 0..len-1 : arr[x] \in Int BY <1>1
  <2>3. QuickTypeOK'
    <3>1. /\ left' \in 0..len-1 /\ right' \in 0..len-1 /\ left <= left' /\ left' <= right'
          /\ right' <= right /\ at' \in {"left", "right"}
      <4>1. CASE left_goes_on BY <4>1, <2>1, <1>1 DEF left_goes_on
      <4>2. CASE left_stops BY <4>2, <2>1 DEF left_stops
      <4>3. CASE right_goes_on BY <4>3, <2>1, <1>1 DEF right_goes_on
      <4>4. QED BY <1>5, <4>1, <4>2, <4>3
    <3>2. QED BY <3>1, <2>1, <1>1, <1>2 DEF QuickTypeOK, Ranges
  <2>4. Split'
    <3>1. CASE left_goes_on BY <3>1, <2>1, <2>2, <1>1, <1>2 DEF Split, left_goes_on
    <3>2. CASE left_stops BY <3>2, <2>1, <2>2, <1>1, <1>2 DEF Split, left_stops
    <3>3. CASE right_goes_on BY <3>3, <2>1, <2>2, <1>1, <1>2 DEF Split, right_goes_on
    <3>4. QED BY <1>5, <3>1, <3>2, <3>3
  <2>5. QED BY <2>3, <2>4
<1>6. KeepsElements' /\ CallsApart' /\ ApartIsOrdered'
  BY <1>1 DEF QuickInv, KeepsElements, CallsApart, ApartIsOrdered, InCall
<1>7. QED BY <1>4, <1>5, <1>6 DEF QuickInv

LEMMA RightStopsInv == QuickInv /\ right_stops => QuickInv'
<1> SUFFICES ASSUME QuickInv, right_stops PROVE QuickInv' OBVIOUS
<1>1. /\ calls \in Seq(Ranges) /\ calls # <<>> /\ len \in Nat /\ arr \in [0..len-1 -> Int]
      /\ calls' = calls /\ left' = left /\ right' = right
      /\ left \in 0..len-1 /\ right \in 0..len-1 /\ end \in 0..len-1 /\ start \in 0..len-1
      /\ start <= left /\ left <= right /\ right < end /\ at = "right"
      /\ swap(left, right) /\ InCall(1, left) /\ InCall(1, right)
  BY Running DEF right_stops
<1>2. /\ KeepsElements' /\ arr' \in [0..len-1 -> Int] /\ len' = len
      /\ \A z \in 0..len-1 :
           arr'[z] = IF z = left THEN arr[right] ELSE IF z = right THEN arr[left] ELSE arr[z]
  BY <1>1, SwapKeeps DEF QuickInv
<1>3. start' = start /\ end' = end /\ mid' = mid
  <2>1. end # left /\ end # right BY <1>1
  <2>2. arr'[end] = arr[end] BY <1>1, <1>2, <2>1
  <2>3. start' = start /\ end' = end BY <1>1 DEF start, end
  <2>4. QED BY <2>2, <2>3 DEF mid
<1>4. QuickTypeOK'
  <2>1. len' \in Nat /\ arr' \in [0..len'-1 -> Int] BY <1>1, <1>2
  <2>2. calls' \in Seq([start : 0..len', end : -1..len'-1]) BY <1>1, <1>2 DEF Ranges
  <2>3. left' \in 0..len' /\ right' \in 0..len' /\ at' \in {"enter", "left", "right", "split"}
    BY <1>1, <1>2 DEF right_stops
  <2>4. /\ calls' # <<>> /\ 0 <= start' /\ start' < end' /\ end' < len'
        /\ start' <= left' /\ left' <= right' /\ right' < end'
    BY <1>1, <1>2, <1>3
  <2>5. QED BY <2>1, <2>2, <2>3, <2>4 DEF QuickTypeOK
<1>5. CallsApart' BY <1>1, <1>2 DEF QuickInv, CallsApart, InCall
<1>6. ApartIsOrdered'
  <2> SUFFICES ASSUME NEW u \in 0..len-1, NEW v \in 0..len-1, u < v,
                      ~ \E k \in 1..Len(calls) : InCall(k, u) /\ InCall(k, v)
               PROVE  arr'[u] <= arr'[v]
    BY <1>1, <1>2 DEF ApartIsOrdered, InCall
  <2>1. QED BY <1>1, SwapApart
<1>7. Split'
  <2>1. mid \in Int /\ \A x \in 0..len-1 : arr[x] \in Int BY <1>1 DEF mid
  <2>2. QED BY <1>1, <1>2, <1>3, <2>1 DEF QuickInv, Split, right_stops
<1>8. QED BY <1>2, <1>4, <1>5, <1>6, <1>7 DEF QuickInv

\* What splits leaves when the running call's range has been parted at l, and
\* what all the calls that are to come work on.
LEMMA Parted ==
  ASSUME QuickTypeOK, CallsApart, calls # <<>>,
         NEW l \in 0..len-1, start <= l, l <= end, calls' = Recurses(l), len' = len
  PROVE  /\ calls' \in Seq(Ranges) /\ CallsApart'
         /\ \A u, v \in 0..len-1 : \A k \in 2..Len(calls) :
              InCall(k, u) /\ InCall(k, v) => \E k2 \in 1..Len(calls') : InCall(k2, u)' /\ InCall(k2, v)'
         /\ \A u, v \in 0..len-1 :
              \/ start <= u /\ u < l /\ start <= v /\ v < l
              \/ l < u /\ u <= end /\ l < v /\ v <= end
              => \E k2 \in 1..Len(calls') : InCall(k2, u)' /\ InCall(k2, v)'
<1> DEFINE below == [start |-> start, end |-> l - 1]
           above == [start |-> l + 1, end |-> end]
           rest  == Tail(calls)
<1>1. /\ calls \in Seq(Ranges) /\ 1 \in 1..Len(calls) /\ len \in Nat
      /\ calls[1].start = start /\ start \in 0..len
      /\ calls[1].end = end /\ end \in -1..len-1
  BY TopCall
<1>2. below \in Ranges /\ above \in Ranges
  <2>1. l - 1 \in -1..len-1 /\ l + 1 \in 0..len BY <1>1
  <2>2. QED BY <1>1, <2>1 DEF Ranges
<1>3. /\ rest \in Seq(Ranges) /\ Len(rest) = Len(calls) - 1
      /\ \A k \in 1..Len(rest) : rest[k] = calls[k + 1] /\ calls[k + 1] \in Ranges
  BY <1>1
<1>4. CASE l # 0
  <2>1. calls' = <<below>> \o <<above>> \o rest BY <1>4 DEF Recurses
  <2>2. <<below>> \in Seq(Ranges) /\ <<above>> \in Seq(Ranges) BY <1>2
  <2> HIDE DEF below, above, rest
  <2>3. /\ calls' \in Seq(Ranges) /\ Len(calls') = Len(calls) + 1
        /\ calls'[1] = below /\ calls'[2] = above
        /\ \A k \in 1..Len(rest) : calls'[k + 2] = rest[k]
    BY <2>1, <2>2, <1>1, <1>3
  <2>4. \A k \in 2..Len(calls) : k + 1 \in 1..Len(calls') /\ calls'[k + 1] = calls[k]
    <3> SUFFICES ASSUME NEW k \in 2..Len(calls)
                 PROVE k + 1 \in 1..Len(calls') /\ calls'[k + 1] = calls[k]
      OBVIOUS
    <3>1. k - 1 \in 1..Len(rest) /\ (k - 1) + 2 = k + 1 /\ (k - 1) + 1 = k BY <1>1, <1>3
    <3>2. calls'[(k - 1) + 2] = rest[k - 1] /\ rest[k - 1] = calls[(k - 1) + 1] BY <3>1, <2>3, <1>3
    <3>3. calls'[k + 1] = calls[k] BY <3>1, <3>2
    <3>4. k + 1 \in 1..Len(calls') BY <2>3, <1>1
    <3>5. QED BY <3>3, <3>4
  <2>5. \A u \in 0..len-1 : /\ InCall(1, u)' <=> start <= u /\ u < l
                            /\ InCall(2, u)' <=> l < u /\ u <= end
    BY <1>1, <2>3 DEF InCall, below, above
  <2>6. \A k \in 2..Len(calls) : \A u \in 0..len-1 : InCall(k + 1, u)' <=> InCall(k, u)
    BY <2>4 DEF InCall
  <2>7. \A k2 \in 1..Len(calls') : k2 = 1 \/ k2 = 2 \/ (k2 - 1 \in 2..Len(calls) /\ k2 = (k2 - 1) + 1)
    <3>1. Len(calls) \in Nat /\ Len(calls') = Len(calls) + 1 BY <1>1, <2>3
    <3>2. QED BY <3>1
  <2>8. CallsApart'
    <3> SUFFICES ASSUME NEW k \in 1..Len(calls'), NEW m \in 1..Len(calls'), k < m,
                        NEW u \in 0..len-1, InCall(k, u)', InCall(m, u)'
                 PROVE  FALSE
      <4>1. len' = len /\ Len(calls') \in Nat BY <1>1, <2>3
      <4>2. \A k, m \in 1..Len(calls') : k # m => k < m \/ m < k BY <4>1
      <4>3. QED BY <4>1, <4>2 DEF CallsApart
    <3>1. (k = 1 \/ k = 2) => InCall(1, u) BY <2>5, <1>1 DEF InCall
    <3>2. k = 1 /\ m = 2 => FALSE BY <2>5, <1>1
    <3>3. m # 2 => m - 1 \in 2..Len(calls) /\ InCall(m - 1, u) BY <2>6, <2>7
    <3>4. k # 1 /\ k # 2 => k - 1 \in 2..Len(calls) /\ InCall(k - 1, u) BY <2>6, <2>7
    <3>5. m # 2 BY <3>2, <2>3
    <3>6. CASE k = 1 \/ k = 2 BY <3>1, <3>3, <3>5, <3>6, <1>1 DEF CallsApart
    <3>7. CASE k # 1 /\ k # 2 BY <3>3, <3>4, <3>5, <3>7, <1>1 DEF CallsApart
    <3>8. QED BY <3>6, <3>7
  <2>9. \A u, v \in 0..len-1 : \A k \in 2..Len(calls) :
          InCall(k, u) /\ InCall(k, v) => InCall(k + 1, u)' /\ InCall(k + 1, v)'
    BY <2>6
  <2>10. 1 \in 1..Len(calls') /\ 2 \in 1..Len(calls') BY <2>3, <1>1
  <2>11. \A u, v \in 0..len-1 :
           /\ start <= u /\ u < l /\ start <= v /\ v < l => InCall(1, u)' /\ InCall(1, v)'
           /\ l < u /\ u <= end /\ l < v /\ v <= end => InCall(2, u)' /\ InCall(2, v)'
    BY <2>5
  <2>12. QED BY <2>3, <2>4, <2>8, <2>9, <2>10, <2>11
<1>5. CASE l = 0
  <2>1. calls' = <<above>> \o rest BY <1>3, <1>5 DEF Recurses
  <2>2. <<above>> \in Seq(Ranges) BY <1>2
  <2> HIDE DEF below, above, rest
  <2>3. /\ calls' \in Seq(Ranges) /\ Len(calls') = Len(calls) /\ calls'[1] = above
        /\ \A k \in 1..Len(rest) : calls'[k + 1] = rest[k]
    BY <2>1, <2>2, <1>1, <1>3
  <2>4. \A k \in 2..Len(calls) : k \in 1..Len(calls') /\ calls'[k] = calls[k]
    <3> SUFFICES ASSUME NEW k \in 2..Len(calls)
                 PROVE k \in 1..Len(calls') /\ calls'[k] = calls[k]
      OBVIOUS
    <3>1. k - 1 \in 1..Len(rest) /\ (k - 1) + 1 = k BY <1>1, <1>3
    <3>2. calls'[(k - 1) + 1] = rest[k - 1] /\ rest[k - 1] = calls[(k - 1) + 1] BY <3>1, <2>3, <1>3
    <3>3. QED BY <3>1, <3>2, <2>3
  <2>5. \A u \in 0..len-1 : InCall(1, u)' <=> l < u /\ u <= end
    BY <1>1, <2>3 DEF InCall, above
  <2>6. \A k \in 2..Len(calls) : \A u \in 0..len-1 : InCall(k, u)' <=> InCall(k, u)
    BY <2>4 DEF InCall
  <2>7. CallsApart'
    <3> SUFFICES ASSUME NEW k \in 1..Len(calls'), NEW m \in 1..Len(calls'), k < m,
                        NEW u \in 0..len-1, InCall(k, u)', InCall(m, u)'
                 PROVE  FALSE
      BY <2>3, <1>1 DEF CallsApart
    <3>1. m \in 2..Len(calls) /\ k \in 1..Len(calls) /\ InCall(m, u) BY <2>3, <2>6
    <3>2. InCall(k, u)
      <4>1. CASE k = 1 BY <4>1, <2>5, <1>1 DEF InCall
      <4>2. CASE k # 1 BY <4>2, <2>6, <3>1
      <4>3. QED BY <4>1, <4>2
    <3>3. QED BY <3>1, <3>2, <1>1 DEF CallsApart
  <2>8. 1 \in 1..Len(calls') BY <2>3, <1>1
  <2>9. QED BY <2>3, <2>4, <2>5, <2>6, <2>7, <2>8, <1>1, <1>5
<1>6. QED BY <1>4, <1>5

LEMMA SplitsInv == QuickInv /\ splits => QuickInv'
<1> SUFFICES ASSUME QuickInv, splits PROVE QuickInv' OBVIOUS
<1>1. /\ at = "split" /\ at' = "enter" /\ right' = right /\ calls # <<>>
      /\ calls \in Seq(Ranges) /\ len \in Nat /\ arr \in [0..len-1 -> Int]
      /\ start \in 0..len-1 /\ end \in 0..len-1 /\ left \in 0..len-1 /\ right \in 0..len-1
      /\ start <= left /\ left < end /\ left = right
      /\ InCall(1, left) /\ InCall(1, end)
      /\ left = end - 1 \/ arr[left] >= mid
      /\ \A x \in 0..len-1 : start <= x /\ x < left => arr[x] < arr[end]
      /\ \A x \in 0..len-1 : left < x /\ x < end => arr[x] >= arr[end]
      /\ QuickTypeOK /\ KeepsElements /\ CallsApart /\ ApartIsOrdered
  BY Running DEF splits, QuickInv, Split, mid
<1>2. PICK l \in 0..len-1 :
        /\ start <= l /\ l <= end /\ calls' = Recurses(l) /\ left' = l /\ len' = len
        /\ arr' \in [0..len-1 -> Int] /\ KeepsElements'
        /\ \A x \in 0..len-1 : start <= x /\ x < l => arr'[x] < arr'[l]
        /\ \A x \in 0..len-1 : l < x /\ x <= end => arr'[l] <= arr'[x]
        /\ \A u, v \in 0..len-1 :
             u < v /\ ~ (\E k \in 1..Len(calls) : InCall(k, u) /\ InCall(k, v)) => arr'[u] <= arr'[v]
  <2>1. CASE Belongs(left)
    <3>1. swap(left, end) /\ calls' = Recurses(left) /\ left' = left BY <2>1 DEF splits
    <3>2. /\ KeepsElements' /\ arr' \in [0..len-1 -> Int] /\ len' = len
          /\ \A z \in 0..len-1 :
               arr'[z] = IF z = left THEN arr[end] ELSE IF z = end THEN arr[left] ELSE arr[z]
      BY <1>1, <3>1, SwapKeeps
    <3>3. \A x \in 0..len-1 : start <= x /\ x < left => arr'[x] < arr'[left]
      BY <1>1, <3>2
    <3>4. arr[left] >= arr[end] BY <2>1 DEF Belongs
    <3>5. \A x \in 0..len-1 : left < x /\ x <= end => arr'[left] <= arr'[x]
      <4> SUFFICES ASSUME NEW x \in 0..len-1, left < x, x <= end PROVE arr'[left] <= arr'[x]
        OBVIOUS
      <4>1. CASE x = end BY <4>1, <1>1, <3>2, <3>4
      <4>2. CASE x # end BY <4>2, <1>1, <3>2
      <4>3. QED BY <4>1, <4>2
    <3>6. \A u, v \in 0..len-1 :
            u < v /\ ~ (\E k \in 1..Len(calls) : InCall(k, u) /\ InCall(k, v)) => arr'[u] <= arr'[v]
      BY <1>1, <3>1, SwapApart
    <3>7. start <= left /\ left <= end BY <1>1
    <3>8. QED BY <1>1, <3>1, <3>2, <3>3, <3>5, <3>6, <3>7
  <2>2. CASE ~Belongs(left)
    <3>1. /\ calls' = Recurses(left + 1) /\ left' = left + 1
          /\ UNCHANGED <<arr, len, input, from>>
      BY <2>2 DEF splits, arrayVars
    <3>2. left + 1 = end
      <4>1. arr[left] < arr[end] BY <1>1, <2>2 DEF Belongs
      <4>2. QED BY <1>1, <4>1 DEF mid
    <3>3. \A x \in 0..len-1 : start <= x /\ x < end => arr[x] < arr[end]
      BY <1>1, <2>2, <3>2 DEF Belongs
    <3>4. \A x \in 0..len-1 : end < x /\ x <= end => arr[end] <= arr[x] BY <1>1
    <3>5. \A u, v \in 0..len-1 :
            u < v /\ ~ (\E k \in 1..Len(calls) : InCall(k, u) /\ InCall(k, v)) => arr[u] <= arr[v]
      BY <1>1 DEF ApartIsOrdered
    <3>6. KeepsElements' BY <1>1, <3>1 DEF KeepsElements
    <3>7. start <= end BY <1>1
    <3>8. QED BY <1>1, <3>1, <3>2, <3>3, <3>4, <3>5, <3>6, <3>7
  <2>3. QED BY <2>1, <2>2
<1>3. /\ calls' \in Seq(Ranges) /\ CallsApart'
      /\ \A u, v \in 0..len-1 : \A k \in 2..Len(calls) :
           InCall(k, u) /\ InCall(k, v) => \E k2 \in 1..Len(calls') : InCall(k2, u)' /\ InCall(k2, v)'
      /\ \A u, v \in 0..len-1 :
           \/ start <= u /\ u < l /\ start <= v /\ v < l
           \/ l < u /\ u <= end /\ l < v /\ v <= end
           => \E k2 \in 1..Len(calls') : InCall(k2, u)' /\ InCall(k2, v)'
  BY <1>1, <1>2, Parted
<1>4. QuickTypeOK' BY <1>1, <1>2, <1>3 DEF QuickTypeOK, Ranges
<1>5. ApartIsOrdered'
  <2> SUFFICES ASSUME NEW u \in 0..len-1, NEW v \in 0..len-1, u < v,
                      ~ \E k2 \in 1..Len(calls') : InCall(k2, u)' /\ InCall(k2, v)'
               PROVE  arr'[u] <= arr'[v]
    BY <1>2 DEF ApartIsOrdered
  <2>1. calls[1].start = start /\ calls[1].end = end BY DEF start, end
  <2>2. CASE InCall(1, u) /\ InCall(1, v)
    <3>1. start <= u /\ u <= end /\ start <= v /\ v <= end BY <2>1, <2>2 DEF InCall
    <3>2. ~(u < l /\ v < l) /\ ~(l < u /\ l < v) BY <1>3, <3>1
    <3>3. u <= l /\ l <= v BY <3>2
    <3>4. arr'[u] <= arr'[l] BY <1>2, <3>1, <3>3
    <3>5. arr'[l] <= arr'[v] BY <1>2, <3>1, <3>3
    <3>6. QED BY <1>2, <3>4, <3>5
  <2>3. CASE ~(InCall(1, u) /\ InCall(1, v))
    <3>1. \A k \in 2..Len(calls) : ~(InCall(k, u) /\ InCall(k, v)) BY <1>3
    <3>2. \A k \in 1..Len(calls) : k = 1 \/ k \in 2..Len(calls) BY <1>1
    <3>3. ~ \E k \in 1..Len(calls) : InCall(k, u) /\ InCall(k, v) BY <2>3, <3>1, <3>2
    <3>4. QED BY <1>2, <3>3
  <2>4. QED BY <2>2, <2>3
<1>6. Split' BY <1>1 DEF Split
<1>7. QED BY <1>2, <1>3, <1>4, <1>5, <1>6 DEF QuickInv

LEMMA QuickNextInv == QuickInv /\ [quick_sort]_quickVars => QuickInv'
<1> SUFFICES ASSUME QuickInv, [quick_sort]_quickVars PROVE QuickInv' OBVIOUS
<1>1. CASE returns BY <1>1, ReturnsInv
<1>2. CASE enters \/ left_goes_on \/ left_stops \/ right_goes_on BY <1>2, ScanInv
<1>3. CASE right_stops BY <1>3, RightStopsInv
<1>4. CASE splits BY <1>4, SplitsInv
<1>5. CASE UNCHANGED quickVars
  BY <1>5 DEF QuickInv, QuickTypeOK, KeepsElements, CallsApart, ApartIsOrdered, Split,
              InCall, start, end, mid, quickVars, arrayVars
<1>6. QED BY <1>1, <1>2, <1>3, <1>4, <1>5 DEF quick_sort

LEMMA QuickInvariant == QuickSpec => []QuickInv
BY QuickInitInv, QuickNextInv, PTL DEF QuickSpec

\* No index that quick_sort reads or writes is outside of the array.
THEOREM QuickTypes == QuickSpec => []QuickTypeOK
<1>1. QuickInv => QuickTypeOK BY DEF QuickInv
<1>2. QED BY <1>1, QuickInvariant, PTL

\* Neither a swap nor a call loses or doubles an element.
THEOREM QuickKeepsElements == QuickSpec => []KeepsElements
<1>1. QuickInv => KeepsElements BY DEF QuickInv
<1>2. QED BY <1>1, QuickInvariant, PTL

\* At every moment, elements that no call has to compare any more are in order.
THEOREM QuickApartIsOrdered == QuickSpec => []ApartIsOrdered
<1>1. QuickInv => ApartIsOrdered BY DEF QuickInv
<1>2. QED BY <1>1, QuickInvariant, PTL

\* When quick_sort returns, the array is sorted.
THEOREM QuickSortSorts == QuickSpec => []QuickSorts
<1>1. QuickInv => QuickSorts
  <2> SUFFICES ASSUME QuickInv, calls = <<>>, NEW u \in 0..len-1, NEW v \in 0..len-1, u < v
               PROVE  arr[u] <= arr[v]
    BY DEF QuickSorts, Ordered
  <2>1. 1..Len(calls) = {} OBVIOUS
  <2>2. QED BY <2>1 DEF QuickInv, ApartIsOrdered
<1>2. QED BY <1>1, QuickInvariant, PTL

\* quick_sort is correct at every step, for arrays of any length and any
\* integers in them.
THEOREM QuickSortIsCorrect == QuickSpec => []QuickSortCorrect
<1>1. QuickInv => CallsApart BY DEF QuickInv
<1>2. QuickTypeOK /\ KeepsElements /\ CallsApart /\ ApartIsOrdered /\ QuickSorts
        => QuickSortCorrect
  BY DEF QuickSortCorrect
<1>3. QED
  BY <1>1, <1>2, QuickInvariant, QuickTypes, QuickKeepsElements, QuickApartIsOrdered,
    QuickSortSorts, PTL

-----------------------------------------------------------------------------
(***************************************************************************)
(* heap_sort.  HeapOrder is what max_heapify keeps while a node sinks;     *)
(* that the root of a heap is its greatest element follows from it because *)
(* the numbers are well ordered.                                           *)
(***************************************************************************)

\* Where the two loops, and the sinking node, can be.
Bounds ==
  /\ loop = "done" => dad = -1 /\ i <= 0
  /\ dad # -1 => /\ lowest <= dad /\ dad <= last
                 /\ loop = "build" => i >= 0
                 /\ loop = "extract" => i > 0

HeapInv == HeapTypeOK /\ Bounds /\ KeepsElements /\ HeapOrder /\ TailSorted

-----------------------------------------------------------------------------

LEMMA DadOf ==
  \A s, d \in Nat : s > 0 => /\ Dad(s) \in Nat /\ Dad(s) < s
                             /\ Dad(s) = d <=> s = 2 * d + 1 \/ s = 2 * d + 2
BY DEF Dad

LEMMA SonOf ==
  ASSUME HeapTypeOK, dad # -1, 2 * dad + 1 <= last
  PROVE  /\ Son(dad) \in 1..last /\ Dad(Son(dad)) = dad /\ Son(dad) > dad
         /\ \A s \in 1..last : Dad(s) = dad => arr[s] <= arr[Son(dad)]
<1>1. dad \in Nat /\ last \in Int /\ last < len /\ arr \in [0..len-1 -> Int] /\ len \in Nat
  BY DEF HeapTypeOK, last
<1>2. \A s \in 1..last : arr[s] \in Int BY <1>1
<1>3. Son(dad) = 2 * dad + 1 \/ (Son(dad) = 2 * dad + 2 /\ 2 * dad + 2 <= last)
  BY <1>1 DEF Son
<1>4. Son(dad) \in 1..last /\ Son(dad) > dad BY <1>1, <1>3
<1>5. Dad(Son(dad)) = dad BY <1>1, <1>3, <1>4, DadOf
<1>6. \A s \in 1..last : Dad(s) = dad => arr[s] <= arr[Son(dad)]
  <2> SUFFICES ASSUME NEW s \in 1..last, s = 2 * dad + 1 \/ s = 2 * dad + 2
               PROVE  arr[s] <= arr[Son(dad)]
    BY <1>1, DadOf
  <2>1. 2 * dad + 1 \in 1..last BY <1>1
  <2>2. QED BY <1>1, <1>2, <2>1 DEF Son
<1>7. QED BY <1>4, <1>5, <1>6

\* No element of a heap is greater than its root.
LEMMA RootIsMax ==
  ASSUME HeapInv, loop # "build", dad = -1, NEW x \in 0..last
  PROVE  arr[x] <= arr[0]
<1>1. /\ last \in Int /\ last < len /\ arr \in [0..len-1 -> Int] /\ len \in Nat /\ lowest = 0
  BY DEF HeapInv, HeapTypeOK, last, lowest
<1>2. \A z \in 0..last : arr[z] \in Int /\ arr[0] \in Int BY <1>1
<1> DEFINE T == {z \in 0..last : arr[z] > arr[0]}
<1>3. SUFFICES ASSUME T # {} PROVE FALSE BY <1>1, <1>2
<1>4. T \subseteq Nat OBVIOUS
<1>5. PICK z \in T : \A y \in T : ~ (<<y, z>> \in OpToRel(<, Nat))
  <2> HIDE DEF T
  <2>1. QED BY <1>3, <1>4, NatLessThanWellFounded, WFMin
<1>6. z \in 1..last /\ arr[z] > arr[0] BY <1>1, <1>2
<1>7. Dad(z) \in 0..last /\ Dad(z) < z /\ Dad(z) # dad BY <1>1, <1>6, DadOf
<1>8. arr[z] <= arr[Dad(z)] BY <1>1, <1>6, <1>7 DEF HeapInv, HeapOrder
<1>9. Dad(z) \in T BY <1>2, <1>6, <1>7, <1>8
<1>10. <<Dad(z), z>> \in OpToRel(<, Nat) BY <1>6, <1>7 DEF OpToRel
<1>11. QED BY <1>5, <1>9, <1>10

-----------------------------------------------------------------------------
(* The steps                                                               *)

LEMMA HeapInitInv == HeapInit => HeapInv
<1> SUFFICES ASSUME NEW n \in Lengths, NEW a \in [0..n-1 -> Values], HeapStart(n, a)
             PROVE  HeapInv
  BY DEF HeapInit
<1>1. /\ n \in Nat /\ len = n /\ arr = a /\ input = a /\ a \in [0..n-1 -> Int]
      /\ from = [x \in 0..n-1 |-> x] /\ loop = "build" /\ i = n \div 2 - 1 /\ dad = -1
  BY ArraysAssumption DEF HeapStart, LastFather, Called
<1>2. HeapTypeOK BY <1>1 DEF HeapTypeOK
<1>3. KeepsElements BY <1>1 DEF KeepsElements
<1>4. HeapOrder
  <2>1. \A s \in 1..last : Dad(s) < lowest
    BY <1>1 DEF last, lowest, Dad
  <2>2. \A s \in 1..last : Dad(s) \in Int /\ lowest \in Int BY <1>1 DEF last, lowest, Dad
  <2>3. QED BY <2>1, <2>2 DEF HeapOrder
<1>5. QED BY <1>1, <1>2, <1>3, <1>4 DEF HeapInv, Bounds, TailSorted

\* The steps that swap nothing.
LEMMA LoopInv ==
  ASSUME HeapInv, build \/ built \/ extracted \/ max_heapify_returns
  PROVE  HeapInv'
<1>1. /\ UNCHANGED <<arr, len, input, from>>
      /\ arr \in [0..len-1 -> Int] /\ len \in Nat /\ i \in -1..len-1 /\ dad \in -1..len-1
      /\ loop \in {"build", "extract", "done"}
      /\ \A z \in 0..len-1 : arr[z] \in Int
  BY DEF HeapInv, HeapTypeOK, build, built, extracted, max_heapify_returns, arrayVars
<1>2. KeepsElements' BY <1>1 DEF HeapInv, KeepsElements
<1>3. \A s \in 1..len-1 : Dad(s) \in Nat /\ Dad(s) < s BY <1>1, DadOf
<1>4. CASE build
  <2>1. dad = -1 /\ loop = "build" /\ loop' = "build" /\ i >= 0 /\ dad' = i /\ i' = i BY <1>4 DEF build
  <2>2. last = len - 1 /\ last' = last /\ lowest = i + 1 /\ lowest' = i
    BY <1>1, <2>1 DEF last, lowest
  <2>3. HeapTypeOK' /\ Bounds' /\ TailSorted'
    BY <1>1, <2>1, <2>2 DEF HeapTypeOK, Bounds, TailSorted
  <2>4. HeapOrder'
    <3>1. i > 0 => Dad(i) < i BY <1>1, <1>3
    <3>2. \A s \in 1..len-1 : Dad(s) > i => arr[s] <= arr[Dad(s)]
      <4>1. \A s \in 1..last : Dad(s) >= lowest /\ Dad(s) # dad => arr[s] <= arr[Dad(s)]
        BY DEF HeapInv, HeapOrder
      <4>2. \A s \in 1..len-1 : Dad(s) > i => Dad(s) >= i + 1 /\ Dad(s) # -1
        BY <1>1, <1>3
      <4>3. QED BY <2>1, <2>2, <4>1, <4>2
    <3>3. Dad(dad') = Dad(i) BY <2>1
    <3>4. QED BY <1>1, <1>3, <2>1, <2>2, <3>1, <3>2 DEF HeapOrder, Dad
  <2>5. QED BY <1>2, <2>3, <2>4 DEF HeapInv
<1>5. CASE built
  <2>1. /\ dad = -1 /\ dad' = -1 /\ loop = "build" /\ loop' = "extract" /\ i = -1
        /\ i' = len - 1
    BY <1>1, <1>5 DEF built
  <2>2. last = len - 1 /\ last' = last /\ lowest = 0 /\ lowest' = 0
    BY <1>1, <2>1 DEF last, lowest
  <2>3. HeapTypeOK' /\ Bounds' /\ TailSorted'
    BY <1>1, <2>1, <2>2 DEF HeapTypeOK, Bounds, TailSorted
  <2>4. HeapOrder' BY <1>1, <1>3, <2>1, <2>2 DEF HeapInv, HeapOrder, Dad
  <2>5. QED BY <1>2, <2>3, <2>4 DEF HeapInv
<1>6. CASE extracted
  <2>1. dad = -1 /\ dad' = -1 /\ loop = "extract" /\ loop' = "done" /\ i' = i /\ i <= 0
    BY <1>6 DEF extracted
  <2>2. last = i /\ last' = last /\ lowest = 0 /\ lowest' = 0
    BY <1>1, <2>1 DEF last, lowest
  <2>3. HeapTypeOK' /\ Bounds' /\ TailSorted'
    BY <1>1, <2>1, <2>2 DEF HeapInv, HeapTypeOK, Bounds, TailSorted
  <2>4. HeapOrder' BY <1>1, <1>3, <2>1, <2>2 DEF HeapInv, HeapOrder, Dad
  <2>5. QED BY <1>2, <2>3, <2>4 DEF HeapInv
<1>7. CASE max_heapify_returns
  <2>1. dad # -1 /\ dad' = -1 /\ loop' = loop /\ i' = i - 1 BY <1>7 DEF max_heapify_returns
  <2>2. last' = last /\ lowest' = lowest /\ last <= len - 1 /\ last \in Int /\ lowest \in Int
    BY <1>1, <2>1 DEF HeapInv, Bounds, last, lowest
  <2>3. HeapTypeOK' /\ Bounds' /\ TailSorted'
    <3>1. i >= 0 BY <1>1, <2>1 DEF HeapInv, Bounds
    <3>2. QED BY <1>1, <2>1, <2>2, <3>1 DEF HeapInv, HeapTypeOK, Bounds, TailSorted
  <2>4. HeapOrder'
    <3> SUFFICES ASSUME NEW s \in 1..last, Dad(s) >= lowest PROVE arr[s] <= arr[Dad(s)]
      BY <1>1, <1>3, <2>1, <2>2 DEF HeapOrder, Dad
    <3>1. CASE Dad(s) # dad BY <3>1 DEF HeapInv, HeapOrder
    <3>2. CASE Dad(s) = dad
      <4>1. dad \in Nat /\ 2 * dad + 1 <= s BY <1>1, <2>2, <3>2, DadOf
      <4>2. 2 * dad + 1 <= last BY <4>1, <2>2
      <4>3. Son(dad) \in 1..last /\ arr[s] <= arr[Son(dad)]
        BY <2>1, <3>2, <4>2, SonOf DEF HeapInv
      <4>4. ~ (arr[dad] <= arr[Son(dad)]) BY <1>7, <4>2 DEF max_heapify_returns
      <4>5. arr[s] \in Int /\ arr[dad] \in Int /\ arr[Son(dad)] \in Int BY <1>1, <2>1, <2>2, <4>3
      <4>6. QED BY <3>2, <4>3, <4>4, <4>5
    <3>3. QED BY <3>1, <3>2
  <2>5. QED BY <1>2, <2>3, <2>4 DEF HeapInv
<1>8. QED BY <1>4, <1>5, <1>6, <1>7

LEMMA ExtractInv == HeapInv /\ extract => HeapInv'
<1> SUFFICES ASSUME HeapInv, extract PROVE HeapInv' OBVIOUS
<1>1. /\ loop = "extract" /\ loop' = "extract" /\ dad = -1 /\ dad' = 0 /\ i > 0 /\ i' = i
      /\ swap(0, i) /\ arr \in [0..len-1 -> Int] /\ len \in Nat /\ i \in 1..len-1
      /\ \A z \in 0..len-1 : arr[z] \in Int
  BY DEF extract, HeapInv, HeapTypeOK
<1>2. /\ KeepsElements' /\ arr' \in [0..len-1 -> Int] /\ len' = len
      /\ \A z \in 0..len-1 : arr'[z] = IF z = 0 THEN arr[i] ELSE IF z = i THEN arr[0] ELSE arr[z]
  <2>1. 0 \in 0..len-1 /\ i \in 0..len-1 BY <1>1
  <2>2. QED BY <1>1, <2>1, SwapKeeps DEF HeapInv
<1>3. last = i /\ last' = i - 1 /\ lowest = 0 /\ lowest' = 0 BY <1>1 DEF last, lowest
<1>4. HeapTypeOK' /\ Bounds' BY <1>1, <1>2, <1>3 DEF HeapTypeOK, Bounds
<1>5. HeapOrder'
  <2>1. \A s \in 1..i-1 : Dad(s) \in Nat /\ Dad(s) < s BY <1>1, DadOf
  <2>2. \A s \in 1..i-1 : arr[s] <= arr[Dad(s)] BY <1>1, <1>3, <2>1 DEF HeapInv, HeapOrder
  <2>3. \A s \in 1..i-1 : Dad(s) # 0 => arr'[s] <= arr'[Dad(s)] BY <1>1, <1>2, <2>1, <2>2
  <2>4. QED BY <1>1, <1>3, <2>1, <2>3 DEF HeapOrder, Dad
<1>6. TailSorted'
  <2> SUFFICES ASSUME NEW j \in 0..len-1, NEW k \in 0..len-1, j < k, i - 1 < k
               PROVE  arr'[j] <= arr'[k]
    BY <1>2, <1>3 DEF TailSorted
  <2>1. \A x \in 0..i : arr[x] <= arr[0] BY <1>1, <1>3, RootIsMax
  <2>2. CASE k = i
    <3>1. arr'[k] = arr[0] BY <1>1, <1>2, <2>2
    <3>2. arr'[j] = arr[IF j = 0 THEN i ELSE j] BY <1>1, <1>2, <2>2
    <3>3. (IF j = 0 THEN i ELSE j) \in 0..i BY <1>1, <2>2
    <3>4. QED BY <2>1, <3>1, <3>2, <3>3
  <2>3. CASE k # i
    <3>1. \A x \in 0..len-1 : x < k => arr[x] <= arr[k]
      BY <1>1, <1>3, <2>3 DEF HeapInv, TailSorted
    <3>2. arr'[k] = arr[k] /\ i < k BY <1>1, <1>2, <2>3
    <3>3. arr'[j] = arr[IF j = 0 THEN i ELSE IF j = i THEN 0 ELSE j] BY <1>1, <1>2
    <3>4. QED BY <1>1, <3>1, <3>2, <3>3
  <2>4. QED BY <2>2, <2>3
<1>7. QED BY <1>2, <1>4, <1>5, <1>6 DEF HeapInv

LEMMA SinksInv == HeapInv /\ max_heapify_sinks => HeapInv'
<1> SUFFICES ASSUME HeapInv, max_heapify_sinks PROVE HeapInv' OBVIOUS
<1> DEFINE son == Son(dad)
<1>1. /\ dad # -1 /\ 2 * dad + 1 <= last /\ arr[dad] <= arr[son] /\ swap(dad, son) /\ dad' = son
      /\ loop' = loop /\ i' = i /\ arr \in [0..len-1 -> Int] /\ len \in Nat
      /\ i \in -1..len-1 /\ dad \in 0..len-1 /\ loop \in {"build", "extract", "done"}
      /\ \A z \in 0..len-1 : arr[z] \in Int
  BY DEF max_heapify_sinks, HeapInv, HeapTypeOK
<1>2. /\ son \in 1..last /\ Dad(son) = dad /\ son > dad
      /\ \A s \in 1..last : Dad(s) = dad => arr[s] <= arr[son]
  BY <1>1, SonOf DEF HeapInv
<1> HIDE DEF son
<1>3. loop # "done" /\ last \in Int /\ last <= len - 1 /\ lowest \in Int /\ lowest <= dad /\ son # -1
  BY <1>1, <1>2 DEF HeapInv, Bounds, last, lowest
<1>4. son \in 0..len-1 BY <1>1, <1>2, <1>3
<1>5. /\ KeepsElements' /\ arr' \in [0..len-1 -> Int] /\ len' = len
      /\ \A z \in 0..len-1 : arr'[z] = IF z = dad THEN arr[son] ELSE IF z = son THEN arr[dad] ELSE arr[z]
  BY <1>1, <1>4, SwapKeeps DEF HeapInv
<1>6. last' = last /\ lowest' = lowest BY <1>1, <1>3, <1>5 DEF last, lowest
<1>7. HeapTypeOK' BY <1>1, <1>4, <1>5 DEF HeapTypeOK
<1>8. Bounds' BY <1>1, <1>2, <1>3, <1>6 DEF HeapInv, Bounds
<1>9. HeapOrder'
  <2> SUFFICES ASSUME NEW s \in 1..last, Dad(s) >= lowest
               PROVE  IF Dad(s) # son THEN arr'[s] <= arr'[Dad(s)]
                      ELSE (son > 0 /\ Dad(son) >= lowest) => arr'[s] <= arr'[Dad(son)]
    BY <1>1, <1>6 DEF HeapOrder, Dad
  <2>1. Dad(s) \in Nat /\ Dad(s) < s /\ s \in 0..len-1 /\ Dad(s) \in 0..len-1
    BY <1>1, <1>3, DadOf
  <2>2. Dad(s) # dad => arr[s] <= arr[Dad(s)] BY DEF HeapInv, HeapOrder
  <2>3. CASE Dad(s) = son
    <3>1. Dad(s) # dad /\ s # dad /\ s # son BY <1>1, <1>2, <2>1, <2>3
    <3>2. arr'[s] = arr[s] /\ arr'[dad] = arr[son] BY <1>1, <1>5, <2>1, <3>1
    <3>3. QED BY <1>2, <2>2, <2>3, <3>1, <3>2
  <2>4. CASE Dad(s) = dad
    <3>1. arr'[dad] = arr[son] /\ s # dad BY <1>1, <1>5, <2>1, <2>4
    <3>2. arr'[s] = IF s = son THEN arr[dad] ELSE arr[s] BY <1>5, <2>1, <3>1
    <3>3. arr'[s] <= arr'[dad] BY <1>1, <1>2, <2>4, <3>1, <3>2
    <3>4. QED BY <1>1, <1>2, <2>4, <3>3
  <2>5. CASE Dad(s) # son /\ Dad(s) # dad
    <3>1. arr'[Dad(s)] = arr[Dad(s)] BY <1>5, <2>1, <2>5
    <3>2. s # son BY <1>2, <2>5
    <3>3. CASE s # dad
      <4>1. arr'[s] = arr[s] BY <1>5, <2>1, <3>2, <3>3
      <4>2. QED BY <2>2, <2>5, <3>1, <4>1
    <3>4. CASE s = dad
      <4>1. arr'[s] = arr[son] BY <1>5, <2>1, <3>4
      <4>2. arr[son] <= arr[Dad(dad)]
        BY <1>1, <1>2, <1>3, <3>4 DEF HeapInv, HeapOrder
      <4>3. QED BY <2>5, <3>1, <3>4, <4>1, <4>2
    <3>5. QED BY <3>3, <3>4
  <2>6. QED BY <2>3, <2>4, <2>5
<1>10. TailSorted'
  <2> SUFFICES ASSUME loop # "build", NEW j \in 0..len-1, NEW k \in 0..len-1, j < k, last < k
               PROVE  arr'[j] <= arr'[k]
    BY <1>1, <1>5, <1>6 DEF TailSorted
  <2>1. \A x \in 0..len-1 : x < k => arr[x] <= arr[k] BY DEF HeapInv, TailSorted
  <2>2. dad < k /\ son < k BY <1>1, <1>2, <1>3
  <2>3. arr'[k] = arr[k] BY <1>1, <1>4, <1>5, <2>2
  <2>4. QED BY <1>1, <1>4, <1>5, <2>1, <2>2, <2>3
<1>11. QED BY <1>5, <1>7, <1>8, <1>9, <1>10 DEF HeapInv

LEMMA HeapNextInv == HeapInv /\ [heap_sort]_heapVars => HeapInv'
<1> SUFFICES ASSUME HeapInv, [heap_sort]_heapVars PROVE HeapInv' OBVIOUS
<1>1. CASE build \/ built \/ extracted \/ max_heapify_returns BY <1>1, LoopInv
<1>2. CASE extract BY <1>2, ExtractInv
<1>3. CASE max_heapify_sinks BY <1>3, SinksInv
<1>4. CASE UNCHANGED heapVars
  BY <1>4 DEF HeapInv, HeapTypeOK, Bounds, KeepsElements, HeapOrder, TailSorted, last, lowest,
              heapVars, arrayVars
<1>5. QED BY <1>1, <1>2, <1>3, <1>4 DEF heap_sort

LEMMA HeapInvariant == HeapSpec => []HeapInv
BY HeapInitInv, HeapNextInv, PTL DEF HeapSpec

\* No index that heap_sort reads or writes is outside of the array.
THEOREM HeapTypes == HeapSpec => []HeapTypeOK
<1>1. HeapInv => HeapTypeOK BY DEF HeapInv
<1>2. QED BY <1>1, HeapInvariant, PTL

\* Neither a swap nor a loop loses or doubles an element.
THEOREM HeapKeepsElements == HeapSpec => []KeepsElements
<1>1. HeapInv => KeepsElements BY DEF HeapInv
<1>2. QED BY <1>1, HeapInvariant, PTL

\* The heap is one at every step of both loops, but for the node that sinks.
THEOREM HeapKeepsOrder == HeapSpec => []HeapOrder
<1>1. HeapInv => HeapOrder BY DEF HeapInv
<1>2. QED BY <1>1, HeapInvariant, PTL

\* When heap_sort returns, the array is sorted.
THEOREM HeapSortSorts == HeapSpec => []HeapSorts
<1>1. HeapInv => HeapSorts
  <2> SUFFICES ASSUME HeapInv, loop = "done", NEW j \in 0..len-1, NEW k \in 0..len-1, j < k
               PROVE  arr[j] <= arr[k]
    BY DEF HeapSorts, Ordered
  <2>1. last <= 0 /\ last \in Int BY DEF HeapInv, HeapTypeOK, Bounds, last
  <2>2. QED BY <2>1 DEF HeapInv, TailSorted
<1>2. QED BY <1>1, HeapInvariant, PTL

\* heap_sort is correct at every step, for arrays of any length and any
\* integers in them.
THEOREM HeapSortIsCorrect == HeapSpec => []HeapSortCorrect
<1>1. HeapInv => TailSorted BY DEF HeapInv
<1>2. HeapTypeOK /\ KeepsElements /\ HeapOrder /\ TailSorted /\ HeapSorts
        => HeapSortCorrect
  BY DEF HeapSortCorrect
<1>3. QED
  BY <1>1, <1>2, HeapInvariant, HeapTypes, HeapKeepsElements, HeapKeepsOrder,
    HeapSortSorts, PTL

-----------------------------------------------------------------------------
(***************************************************************************)
(* The tree.  Both links of a node lead to nodes that came later (Up), no  *)
(* two links lead to the same one (OneWay), and to every node behind the   *)
(* root there is a link from one that is not before the root (Rooted).     *)
(* What traversal and the search return is proved from the end of the      *)
(* table on, for the nodes that came last first.                           *)
(***************************************************************************)

LEMMA ConcatInjective ==
  ASSUME NEW A, NEW s \in Seq(A), NEW t \in Seq(A), IsInjective(s), IsInjective(t),
         ToSet(s) \cap ToSet(t) = {}
  PROVE  IsInjective(s \o t)
<1> DEFINE c == s \o t
           m == Len(s)
           n == Len(t)
<1>1. /\ m \in Nat /\ n \in Nat /\ DOMAIN s = 1..m /\ DOMAIN t = 1..n /\ DOMAIN c = 1..m + n
      /\ \A k \in 1..m : c[k] = s[k]
      /\ \A k \in 1..n : c[m + k] = t[k]
      /\ \A k \in 1..m + n : k \in 1..m \/ k - m \in 1..n
  <2>1. c \in Seq(A)
    BY ConcatIs
  <2>2. QED BY <2>1, ConcatIs, ToSetOf
<1> HIDE DEF c, m, n
<1>2. SUFFICES ASSUME NEW a \in 1..m + n, NEW b \in 1..m + n, c[a] = c[b] PROVE a = b
  BY <1>1 DEF IsInjective, c
<1>3. \A j \in 1..m, k \in 1..n : s[j] # t[k]
  BY <1>1 DEF ToSet
<1>4. m + (a - m) = a /\ m + (b - m) = b
  BY <1>1
<1>5. CASE a \in 1..m /\ b \in 1..m
  BY <1>1, <1>2, <1>5 DEF IsInjective
<1>6. CASE a \in 1..m /\ b - m \in 1..n
  <2>1. c[a] = s[a] /\ c[b] = t[b - m]
    BY <1>1, <1>4, <1>6
  <2>2. QED BY <1>2, <1>3, <1>6, <2>1
<1>7. CASE a - m \in 1..n /\ b \in 1..m
  <2>1. c[a] = t[a - m] /\ c[b] = s[b]
    BY <1>1, <1>4, <1>7
  <2>2. QED BY <1>2, <1>3, <1>7, <2>1
<1>8. CASE a - m \in 1..n /\ b - m \in 1..n
  <2>1. t[a - m] = t[b - m]
    BY <1>1, <1>2, <1>4, <1>8
  <2>2. a - m = b - m
    BY <1>1, <1>8, <2>1 DEF IsInjective
  <2>3. QED BY <1>4, <2>2
<1>9. QED BY <1>1, <1>5, <1>6, <1>7, <1>8

LEMMA OneIs ==
  ASSUME NEW A, NEW x \in A
  PROVE  <<x>> \in Seq(A) /\ Len(<<x>>) = 1 /\ <<x>>[1] = x /\ ToSet(<<x>>) = {x} /\ IsInjective(<<x>>)
BY DEF ToSet, IsInjective

-----------------------------------------------------------------------------
(* A table of nodes.  Both links of a node lead to nodes that came later,  *)
(* and no two links lead to the same node.                                 *)

Up(t) ==
  /\ Len(t) \in Nat
  /\ \A m \in 1..Len(t) : /\ t[m].child \in {0} \cup m + 1..Len(t)
                          /\ t[m].sibling \in {0} \cup m + 1..Len(t)

OneWay(t) ==
  \A m, k \in 1..Len(t) :
    /\ t[m].child # 0 /\ t[m].child = t[k].child => m = k
    /\ t[m].sibling # 0 /\ t[m].sibling = t[k].sibling => m = k
    /\ t[m].child # 0 => t[m].child # t[k].sibling

InDepth(t) ==
  CHOOSE f : f = [m \in 0..Len(t) |->
                    IF m = NullNode THEN <<>> ELSE <<m>> \o f[t[m].child] \o f[t[m].sibling]]

LEMMA TraversalIs == \A n : traversal(n) = InDepth(node)[n]
BY DEF traversal, InDepth

LEMMA UpIs ==
  ASSUME NEW t, Up(t)
  PROVE  /\ Len(t) \in Nat
         /\ \A m \in 1..Len(t) :
              /\ t[m].child \in 0..Len(t) /\ (t[m].child # 0 => t[m].child \in m + 1..Len(t))
              /\ t[m].sibling \in 0..Len(t) /\ (t[m].sibling # 0 => t[m].sibling \in m + 1..Len(t))
BY DEF Up

\* A function whose value at a node depends on what its links lead to exists.
Linked(t, D, A, a, phi) ==
  /\ D \in {0..Len(t), 1..Len(t)} /\ a \in A /\ phi \in [[D -> A] -> [D -> A]]
  /\ \A f, g \in [D -> A] : \A m \in D :
       (m # 0 => \A y \in {t[m].child, t[m].sibling} : y \in D => f[y] = g[y])
         => phi[f][m] = phi[g][m]

LEMMA TreeRecursion ==
  ASSUME NEW t, Up(t), NEW D, NEW A, NEW a, NEW phi, Linked(t, D, A, a, phi)
  PROVE  \E f \in [D -> A] : f = phi[f]
<1> DEFINE N == Len(t)
           rank == [m \in D |-> IF m = 0 THEN 0 ELSE N + 1 - m]
<1>1. N \in Nat /\ \A m \in D : m \in Nat /\ (m # 0 => m \in 1..N)
  BY UpIs DEF Linked
<1>a. \A m \in 1..N : /\ t[m].child = 0 \/ t[m].child \in m + 1..N
                      /\ t[m].sibling = 0 \/ t[m].sibling \in m + 1..N
  BY UpIs
<1> HIDE DEF N
<1>2. rank \in [D -> 0..N]
  BY <1>1
<1>3. ASSUME NEW m \in D, m # 0, NEW y \in {t[m].child, t[m].sibling}, y \in D
      PROVE  rank[y] < rank[m]
  <2>1. m \in 1..N /\ (y = 0 \/ y \in m + 1..N)
    BY <1>1, <1>a, <1>3
  <2>2. QED BY <1>1, <1>3, <2>1
<1> HIDE DEF rank
<1>4. \A f, g \in [D -> A] : \A m \in D :
        (\A y \in D : rank[y] < rank[m] => f[y] = g[y]) => phi[f][m] = phi[g][m]
  <2> SUFFICES ASSUME NEW f \in [D -> A], NEW g \in [D -> A], NEW m \in D,
                      \A y \in D : rank[y] < rank[m] => f[y] = g[y]
               PROVE  phi[f][m] = phi[g][m]
    OBVIOUS
  <2>1. m # 0 => \A y \in {t[m].child, t[m].sibling} : y \in D => f[y] = g[y]
    BY <1>3
  <2>2. QED BY <2>1 DEF Linked
<1>5. WellRanked(D, A, a, N, rank, phi)
  BY <1>1, <1>2, <1>4 DEF WellRanked, Linked
<1>6. QED BY <1>5, FixedPoint

LEMMA InDepthIs ==
  ASSUME NEW t, Up(t)
  PROVE  /\ InDepth(t)[0] = <<>>
         /\ \A m \in 1..Len(t) :
              InDepth(t)[m] = <<m>> \o InDepth(t)[t[m].child] \o InDepth(t)[t[m].sibling]
<1> DEFINE N == Len(t)
           D == 0..N
           A == Seq(1..N)
           phi == [f \in [D -> A] |-> [m \in D |->
                     IF m = 0 THEN <<>> ELSE <<m>> \o f[t[m].child] \o f[t[m].sibling]]]
           h == InDepth(t)
<1>1. /\ N \in Nat /\ 0 \in D /\ \A m \in D : m # 0 => m \in 1..N
      /\ \A m \in 1..N : m \in D /\ t[m].child \in D /\ t[m].sibling \in D
  BY UpIs
<1>2. <<>> \in A
  OBVIOUS
<1>3. phi \in [[D -> A] -> [D -> A]]
  <2>1. ASSUME NEW f \in [D -> A], NEW m \in D, m # 0
        PROVE  <<m>> \o f[t[m].child] \o f[t[m].sibling] \in A
    <3>1. m \in 1..N /\ t[m].child \in D /\ t[m].sibling \in D
      BY <1>1, <2>1
    <3> HIDE DEF N, D
    <3>2. f[t[m].child] \in A /\ f[t[m].sibling] \in A
      BY <3>1
    <3>3. <<m>> \in A
      BY <3>1
    <3>4. QED BY <3>2, <3>3
  <2> HIDE DEF A, D
  <2>2. QED BY <1>2, <2>1
<1>4. \A f, g \in [D -> A] : \A m \in D :
        (m # 0 => \A y \in {t[m].child, t[m].sibling} : y \in D => f[y] = g[y])
          => phi[f][m] = phi[g][m]
  <2> SUFFICES ASSUME NEW f \in [D -> A], NEW g \in [D -> A], NEW m \in D,
                      m # 0 => \A y \in {t[m].child, t[m].sibling} : y \in D => f[y] = g[y]
               PROVE  phi[f][m] = phi[g][m]
    OBVIOUS
  <2>1. m # 0 => f[t[m].child] = g[t[m].child] /\ f[t[m].sibling] = g[t[m].sibling]
    BY <1>1
  <2> HIDE DEF A, D
  <2>2. QED BY <2>1
<1>5. PICK f \in [D -> A] : f = phi[f]
  <2>1. D \in {0..Len(t), 1..Len(t)}
    OBVIOUS
  <2> HIDE DEF A, D, phi
  <2>2. Linked(t, D, A, <<>>, phi)
    BY <1>2, <1>3, <1>4, <2>1 DEF Linked
  <2>3. QED BY <2>2, TreeRecursion
<1>6. f = [m \in D |-> IF m = 0 THEN <<>> ELSE <<m>> \o f[t[m].child] \o f[t[m].sibling]]
  <2> HIDE DEF A, D
  <2>1. QED BY <1>5
<1>7. h = [m \in D |-> IF m = 0 THEN <<>> ELSE <<m>> \o h[t[m].child] \o h[t[m].sibling]]
  <2>1. \E g : g = [m \in 0..Len(t) |->
                      IF m = NullNode THEN <<>> ELSE <<m>> \o g[t[m].child] \o g[t[m].sibling]]
    BY <1>6 DEF NullNode
  <2>2. h = [m \in 0..Len(t) |->
               IF m = NullNode THEN <<>> ELSE <<m>> \o h[t[m].child] \o h[t[m].sibling]]
    BY <2>1, Zenon DEF InDepth
  <2>3. QED BY <2>2 DEF NullNode
<1> HIDE DEF h, D
<1>8. \A m \in D : h[m] = IF m = 0 THEN <<>> ELSE <<m>> \o h[t[m].child] \o h[t[m].sibling]
  BY <1>7
<1>9. QED BY <1>1, <1>8 DEF h

Met(t, m) == ToSet(InDepth(t)[m])

LEMMA MetIs ==
  ASSUME NEW t, Up(t)
  PROVE  /\ InDepth(t)[0] = <<>> /\ Met(t, 0) = {}
         /\ \A m \in 0..Len(t) : InDepth(t)[m] \in Seq(1..Len(t)) /\ Met(t, m) \subseteq 1..Len(t)
         /\ \A m \in 1..Len(t) :
              /\ Met(t, m) = {m} \cup Met(t, t[m].child) \cup Met(t, t[m].sibling)
              /\ Met(t, m) \subseteq m..Len(t)
<1> DEFINE N == Len(t)
           h == InDepth(t)
           P == {m \in 0..N : h[m] \in Seq(1..N) /\ Met(t, m) \subseteq m..N}
<1>1. /\ h[0] = <<>>
      /\ \A m \in 1..N : h[m] = <<m>> \o h[t[m].child] \o h[t[m].sibling]
  BY InDepthIs
<1>2. /\ N \in Nat
      /\ \A m \in 1..N : /\ t[m].child \in 0..N /\ (t[m].child # 0 => t[m].child \in m + 1..N)
                         /\ t[m].sibling \in 0..N /\ (t[m].sibling # 0 => t[m].sibling \in m + 1..N)
  BY UpIs
<1> HIDE DEF N, h
<1>3. Met(t, 0) = {}
  BY <1>1 DEF Met, h, ToSet
<1>4. 0 \in P
  <2>1. h[0] \in Seq(1..N) /\ 0 \in 0..N
    BY <1>1, <1>2
  <2>2. QED BY <1>3, <2>1
<1>5. ASSUME NEW m \in 1..N, h[t[m].child] \in Seq(1..N), h[t[m].sibling] \in Seq(1..N)
      PROVE  /\ h[m] \in Seq(1..N)
             /\ Met(t, m) = {m} \cup Met(t, t[m].child) \cup Met(t, t[m].sibling)
  <2> DEFINE one == <<m>>
             two == one \o h[t[m].child]
  <2>1. one \in Seq(1..N) /\ ToSet(one) = {m}
    BY OneIs
  <2>a. h[m] = two \o h[t[m].sibling]
    BY <1>1
  <2> HIDE DEF one
  <2>2. two \in Seq(1..N) /\ ToSet(two) = {m} \cup ToSet(h[t[m].child])
    BY <1>5, <2>1, ConcatIs
  <2> HIDE DEF two
  <2>3. h[m] \in Seq(1..N)
        /\ ToSet(h[m]) = ({m} \cup ToSet(h[t[m].child])) \cup ToSet(h[t[m].sibling])
    BY <1>5, <2>2, <2>a, ConcatIs
  <2>4. QED BY <2>3 DEF Met, h
<1>6. ASSUME NEW m \in 1..N, \A k \in m + 1..N : k \in P PROVE m \in P
  <2>1. t[m].child \in P /\ t[m].sibling \in P
    BY <1>2, <1>4, <1>6
  <2>2. /\ h[m] \in Seq(1..N)
        /\ Met(t, m) = {m} \cup Met(t, t[m].child) \cup Met(t, t[m].sibling)
    BY <1>5, <2>1
  <2>3. Met(t, t[m].child) \subseteq m..N
    <3>1. CASE t[m].child = 0
      BY <1>3, <3>1
    <3>2. CASE t[m].child # 0
      <4>1. Met(t, t[m].child) \subseteq t[m].child..N /\ t[m].child \in m + 1..N
        BY <1>2, <2>1, <3>2
      <4>2. QED BY <1>2, <4>1
    <3>3. QED BY <3>1, <3>2
  <2>4. Met(t, t[m].sibling) \subseteq m..N
    <3>1. CASE t[m].sibling = 0
      BY <1>3, <3>1
    <3>2. CASE t[m].sibling # 0
      <4>1. Met(t, t[m].sibling) \subseteq t[m].sibling..N /\ t[m].sibling \in m + 1..N
        BY <1>2, <2>1, <3>2
      <4>2. QED BY <1>2, <4>1
    <3>3. QED BY <3>1, <3>2
  <2>5. m \in m..N /\ m \in 0..N
    BY <1>2
  <2>6. QED BY <2>2, <2>3, <2>4, <2>5
<1>7. \A m \in 0..N : m \in P
  <2> HIDE DEF P
  <2>1. QED BY <1>2, <1>4, <1>6, FromTheEnd
<1>8. \A m \in 1..N : m \in 0..N
  BY <1>2
<1>9. \A m \in 1..N : Met(t, m) = {m} \cup Met(t, t[m].child) \cup Met(t, t[m].sibling)
  BY <1>2, <1>5, <1>7
<1>10. \A m \in 0..N : Met(t, m) \subseteq 1..N
  BY <1>7, ToSetOf DEF Met, h
<1>11. QED BY <1>1, <1>3, <1>7, <1>8, <1>9, <1>10 DEF N, h

\* What is met from a node is met from wherever the node is met.
LEMMA MetFrom ==
  ASSUME NEW t, Up(t)
  PROVE  \A m \in 0..Len(t) : \A k \in Met(t, m) : Met(t, k) \subseteq Met(t, m)
<1> DEFINE N == Len(t)
           P == {m \in 0..N : \A k \in Met(t, m) : Met(t, k) \subseteq Met(t, m)}
<1>1. /\ N \in Nat
      /\ \A m \in 1..N : /\ t[m].child \in 0..N /\ (t[m].child # 0 => t[m].child \in m + 1..N)
                         /\ t[m].sibling \in 0..N /\ (t[m].sibling # 0 => t[m].sibling \in m + 1..N)
  BY UpIs
<1>2. /\ Met(t, 0) = {}
      /\ \A m \in 1..N : Met(t, m) = {m} \cup Met(t, t[m].child) \cup Met(t, t[m].sibling)
  BY MetIs
<1> HIDE DEF N
<1>3. 0 \in P
  BY <1>1, <1>2
<1>4. ASSUME NEW m \in 1..N, \A k \in m + 1..N : k \in P PROVE m \in P
  <2>1. t[m].child \in P /\ t[m].sibling \in P
    BY <1>1, <1>3, <1>4
  <2>2. QED BY <1>1, <1>2, <2>1
<1>5. \A m \in 0..N : m \in P
  <2> HIDE DEF P
  <2>1. QED BY <1>1, <1>3, <1>4, FromTheEnd
<1>6. QED BY <1>5 DEF N

\* A node that is met, but for the first, is met behind one with a link to it.
LEMMA MetOver ==
  ASSUME NEW t, Up(t)
  PROVE  \A m \in 0..Len(t) : \A x \in Met(t, m) :
           x # m => \E k \in Met(t, m) : t[k].child = x \/ t[k].sibling = x
<1> DEFINE N == Len(t)
           Q(m) == \A x \in Met(t, m) :
                     x # m => \E k \in Met(t, m) : t[k].child = x \/ t[k].sibling = x
           P == {m \in 0..N : Q(m)}
<1>1. /\ N \in Nat
      /\ \A m \in 1..N : /\ t[m].child \in 0..N /\ (t[m].child # 0 => t[m].child \in m + 1..N)
                         /\ t[m].sibling \in 0..N /\ (t[m].sibling # 0 => t[m].sibling \in m + 1..N)
  BY UpIs
<1>2. /\ Met(t, 0) = {}
      /\ \A m \in 1..N : Met(t, m) = {m} \cup Met(t, t[m].child) \cup Met(t, t[m].sibling)
  BY MetIs
<1> HIDE DEF N
<1>3. 0 \in P
  BY <1>1, <1>2
<1>4. ASSUME NEW m \in 1..N, \A k \in m + 1..N : k \in P PROVE m \in P
  <2>1. t[m].child \in P /\ t[m].sibling \in P /\ m \in 0..N /\ m \in Met(t, m)
    BY <1>1, <1>2, <1>3, <1>4
  <2>2. SUFFICES ASSUME NEW x \in Met(t, m), x # m
                 PROVE  \E k \in Met(t, m) : t[k].child = x \/ t[k].sibling = x
    BY <2>1
  <2>3. CASE x = t[m].child \/ x = t[m].sibling
    BY <2>1, <2>3
  <2>4. CASE x \in Met(t, t[m].child) /\ x # t[m].child
    <3>1. \E k \in Met(t, t[m].child) : t[k].child = x \/ t[k].sibling = x
      BY <2>1, <2>4
    <3>2. QED BY <1>2, <3>1
  <2>5. CASE x \in Met(t, t[m].sibling) /\ x # t[m].sibling
    <3>1. \E k \in Met(t, t[m].sibling) : t[k].child = x \/ t[k].sibling = x
      BY <2>1, <2>5
    <3>2. QED BY <1>2, <3>1
  <2>6. QED BY <1>2, <2>2, <2>3, <2>4, <2>5
<1>5. \A m \in 0..N : m \in P
  <2> HIDE DEF P
  <2>1. QED BY <1>1, <1>3, <1>4, FromTheEnd
<1>6. QED BY <1>5 DEF N

\* Nodes that are not met from one another have nothing in common.
LEMMA MetApart ==
  ASSUME NEW t, Up(t), OneWay(t), NEW a \in 0..Len(t), NEW b \in 0..Len(t),
         a \notin Met(t, b), b \notin Met(t, a)
  PROVE  Met(t, a) \cap Met(t, b) = {}
<1> DEFINE N == Len(t)
           T == Met(t, a) \cap Met(t, b)
<1>1. N \in Nat /\ Met(t, a) \subseteq 1..N /\ Met(t, b) \subseteq 1..N
  BY UpIs, MetIs
<1>2. SUFFICES ASSUME T # {} PROVE FALSE
  OBVIOUS
<1>3. PICK x \in T : \A y \in T : x <= y
  <2>1. T \in SUBSET Nat
    BY <1>1
  <2> HIDE DEF T
  <2>2. QED BY <1>2, <2>1, Least
<1>4. x # a /\ x # b
  OBVIOUS
<1>5. PICK j \in Met(t, a) : t[j].child = x \/ t[j].sibling = x
  BY <1>3, <1>4, MetOver
<1>6. PICK k \in Met(t, b) : t[k].child = x \/ t[k].sibling = x
  BY <1>3, <1>4, MetOver
<1>7. j \in 1..N /\ k \in 1..N /\ x \in 1..N
  BY <1>1, <1>3
<1>8. j = k
  BY <1>5, <1>6, <1>7 DEF OneWay
<1>9. x \in j + 1..N
  <2>1. x # 0
    BY <1>1, <1>7
  <2>2. QED BY <1>5, <1>7, <2>1, UpIs
<1>10. x <= j
  BY <1>3, <1>8
<1>11. QED BY <1>1, <1>7, <1>9, <1>10

LEMMA BelowAndBeside ==
  ASSUME NEW t, Up(t), OneWay(t), NEW m \in 1..Len(t)
  PROVE  /\ Met(t, t[m].child) \cap Met(t, t[m].sibling) = {}
         /\ m \notin Met(t, t[m].child) /\ m \notin Met(t, t[m].sibling)
<1> DEFINE N == Len(t)
           c == t[m].child
           s == t[m].sibling
<1>1. /\ N \in Nat /\ m \in 1..N
      /\ c \in 0..N /\ (c # 0 => c \in m + 1..N) /\ s \in 0..N /\ (s # 0 => s \in m + 1..N)
  BY UpIs
<1>2. /\ Met(t, 0) = {} /\ \A k \in 0..N : Met(t, k) \subseteq 1..N
      /\ \A k \in 1..N : Met(t, k) \subseteq k..N
  BY MetIs
<1>3. \A y \in Met(t, c) \cup Met(t, s) : y \in m + 1..N
  <2>1. ASSUME NEW y \in Met(t, c) PROVE y \in m + 1..N
    <3>1. c \in m + 1..N /\ c \in 1..N /\ y \in c..N
      BY <1>1, <1>2
    <3> HIDE DEF c, N
    <3>2. QED BY <1>1, <3>1
  <2>2. ASSUME NEW y \in Met(t, s) PROVE y \in m + 1..N
    <3>1. s \in m + 1..N /\ s \in 1..N /\ y \in s..N
      BY <1>1, <1>2
    <3> HIDE DEF s, N
    <3>2. QED BY <1>1, <3>1
  <2>3. QED BY <2>1, <2>2
<1>4. m \notin Met(t, c) /\ m \notin Met(t, s)
  <2>1. ~ (m \in m + 1..N)
    BY <1>1
  <2>2. QED BY <1>3, <2>1
<1>5. c \notin Met(t, s)
  <2>1. SUFFICES ASSUME c \in Met(t, s) PROVE FALSE
    OBVIOUS
  <2>2. c # 0
    BY <1>1, <1>2, <2>1
  <2>3. c # s
    BY <1>1, <2>2 DEF OneWay
  <2>4. PICK k \in Met(t, s) : t[k].child = c \/ t[k].sibling = c
    BY <1>1, <2>1, <2>3, MetOver
  <2>5. k \in 1..N
    BY <1>1, <1>2
  <2>6. k = m
    BY <1>1, <2>2, <2>4, <2>5 DEF OneWay
  <2>7. QED BY <1>4, <2>6
<1>6. s \notin Met(t, c)
  <2>1. SUFFICES ASSUME s \in Met(t, c) PROVE FALSE
    OBVIOUS
  <2>2. s # 0 /\ c # 0
    BY <1>1, <1>2, <2>1
  <2>3. c # s
    BY <1>1, <2>2 DEF OneWay
  <2>4. PICK k \in Met(t, c) : t[k].child = s \/ t[k].sibling = s
    BY <1>1, <2>1, <2>3, MetOver
  <2>5. k \in 1..N
    BY <1>1, <1>2
  <2>6. k = m
    BY <1>1, <2>2, <2>4, <2>5 DEF OneWay
  <2>7. QED BY <1>4, <2>6
<1>7. QED BY <1>1, <1>4, <1>5, <1>6, MetApart

LEMMA MetOnce ==
  ASSUME NEW t, Up(t), OneWay(t)
  PROVE  \A m \in 0..Len(t) : IsInjective(InDepth(t)[m])
<1> DEFINE N == Len(t)
           h == InDepth(t)
           P == {m \in 0..N : IsInjective(h[m])}
<1>1. /\ h[0] = <<>> /\ \A m \in 0..N : h[m] \in Seq(1..N)
      /\ \A m \in 1..N : h[m] = <<m>> \o h[t[m].child] \o h[t[m].sibling]
  BY InDepthIs, MetIs
<1>2. /\ N \in Nat
      /\ \A m \in 1..N : /\ t[m].child \in 0..N /\ (t[m].child # 0 => t[m].child \in m + 1..N)
                         /\ t[m].sibling \in 0..N /\ (t[m].sibling # 0 => t[m].sibling \in m + 1..N)
  BY UpIs
<1>3. \A m \in 1..N : /\ ToSet(h[t[m].child]) \cap ToSet(h[t[m].sibling]) = {}
                      /\ m \notin ToSet(h[t[m].child]) /\ m \notin ToSet(h[t[m].sibling])
  BY BelowAndBeside DEF Met
<1> HIDE DEF N, h
<1>4. 0 \in P
  <2>1. IsInjective(h[0])
    BY <1>1 DEF IsInjective
  <2>2. QED BY <1>2, <2>1
<1>5. ASSUME NEW m \in 1..N, \A k \in m + 1..N : k \in P PROVE m \in P
  <2>1. t[m].child \in P /\ t[m].sibling \in P
    BY <1>2, <1>4, <1>5
  <2> DEFINE one == <<m>>
             two == one \o h[t[m].child]
  <2>2. one \in Seq(1..N) /\ ToSet(one) = {m} /\ IsInjective(one)
    BY OneIs
  <2>3. h[m] = two \o h[t[m].sibling]
    BY <1>1
  <2>4. h[t[m].child] \in Seq(1..N) /\ h[t[m].sibling] \in Seq(1..N)
        /\ IsInjective(h[t[m].child]) /\ IsInjective(h[t[m].sibling])
    BY <1>1, <2>1
  <2> HIDE DEF one
  <2>5. two \in Seq(1..N) /\ ToSet(two) = {m} \cup ToSet(h[t[m].child])
    BY <2>2, <2>4, ConcatIs
  <2>6. IsInjective(two)
    <3>1. ToSet(one) \cap ToSet(h[t[m].child]) = {}
      BY <1>3, <2>2
    <3>2. QED BY <2>2, <2>4, <3>1, ConcatInjective
  <2> HIDE DEF two
  <2>7. IsInjective(two \o h[t[m].sibling])
    <3>1. ToSet(two) \cap ToSet(h[t[m].sibling]) = {}
      BY <1>3, <2>5
    <3>2. QED BY <2>4, <2>5, <2>6, <3>1, ConcatInjective
  <2>8. m \in 0..N
    BY <1>2
  <2>9. QED BY <2>3, <2>7, <2>8
<1>6. \A m \in 0..N : m \in P
  <2> HIDE DEF P
  <2>1. QED BY <1>2, <1>4, <1>5, FromTheEnd
<1>7. QED BY <1>6 DEF N, h

-----------------------------------------------------------------------------
(* The search for an index finds the first node that traversal meets.      *)

Search(t, index) ==
  CHOOSE f : f = [m \in 0..Len(t) |->
    IF m = NullNode THEN NullNode
    ELSE IF t[m].index = index THEN m
    ELSE LET below == f[t[m].child]
         IN IF below # NullNode THEN below ELSE f[t[m].sibling]]

LEMMA GetIs ==
  \A n, index :
    _get_node_by_index(n, index) = IF index = -1 THEN NullNode ELSE Search(node, index)[n]
BY DEF _get_node_by_index, Search

LEMMA SearchIs ==
  ASSUME NEW t, Up(t), NEW index
  PROVE  /\ Search(t, index)[0] = 0
         /\ \A m \in 1..Len(t) :
              Search(t, index)[m] =
                IF t[m].index = index THEN m
                ELSE IF Search(t, index)[t[m].child] # 0 THEN Search(t, index)[t[m].child]
                ELSE Search(t, index)[t[m].sibling]
<1> DEFINE N == Len(t)
           D == 0..N
           F(f, m) == IF m = 0 THEN 0 ELSE IF t[m].index = index THEN m
                      ELSE IF f[t[m].child] # 0 THEN f[t[m].child] ELSE f[t[m].sibling]
           phi == [f \in [D -> D] |-> [m \in D |-> F(f, m)]]
           h == Search(t, index)
<1>1. /\ N \in Nat /\ 0 \in D /\ \A m \in D : m # 0 => m \in 1..N
      /\ \A m \in 1..N : m \in D /\ t[m].child \in D /\ t[m].sibling \in D
  BY UpIs
<1> HIDE DEF D
<1>2. phi \in [[D -> D] -> [D -> D]]
  <2>1. \A f \in [D -> D] : \A m \in D : F(f, m) \in D
    BY <1>1
  <2> HIDE DEF F
  <2>2. QED BY <2>1
<1>3. \A f, g \in [D -> D] : \A m \in D :
        (m # 0 => \A y \in {t[m].child, t[m].sibling} : y \in D => f[y] = g[y])
          => phi[f][m] = phi[g][m]
  <2> SUFFICES ASSUME NEW f \in [D -> D], NEW g \in [D -> D], NEW m \in D,
                      m # 0 => \A y \in {t[m].child, t[m].sibling} : y \in D => f[y] = g[y]
               PROVE  phi[f][m] = phi[g][m]
    OBVIOUS
  <2>1. m # 0 => f[t[m].child] = g[t[m].child] /\ f[t[m].sibling] = g[t[m].sibling]
    BY <1>1
  <2>2. F(f, m) = F(g, m)
    BY <2>1
  <2> HIDE DEF F
  <2>3. QED BY <2>2
<1>4. PICK f \in [D -> D] : f = phi[f]
  <2>1. D \in {0..Len(t), 1..Len(t)}
    BY DEF D
  <2> HIDE DEF phi
  <2>2. Linked(t, D, D, 0, phi)
    BY <1>1, <1>2, <1>3, <2>1 DEF Linked
  <2>3. QED BY <2>2, TreeRecursion
<1>5. f = [m \in D |-> F(f, m)]
  <2> HIDE DEF F
  <2>1. QED BY <1>4
<1>6. h = [m \in D |-> F(h, m)]
  <2>1. \E g : g = [m \in 0..Len(t) |->
                      IF m = NullNode THEN NullNode
                      ELSE IF t[m].index = index THEN m
                      ELSE LET below == g[t[m].child]
                           IN IF below # NullNode THEN below ELSE g[t[m].sibling]]
    BY <1>5 DEF NullNode, D
  <2>2. h = [m \in 0..Len(t) |->
               IF m = NullNode THEN NullNode
               ELSE IF t[m].index = index THEN m
               ELSE LET below == h[t[m].child]
                    IN IF below # NullNode THEN below ELSE h[t[m].sibling]]
    BY <2>1, Zenon DEF Search
  <2>3. QED BY <2>2 DEF NullNode, D
<1> HIDE DEF h
<1>7. \A m \in D : h[m] = F(h, m)
  <2> HIDE DEF F
  <2>1. QED BY <1>6
<1>8. QED BY <1>1, <1>7 DEF h

IsFirst(t, s, index, x) ==
  \/ x = 0 /\ \A k \in 1..Len(s) : t[s[k]].index # index
  \/ \E k \in 1..Len(s) :
       x = s[k] /\ t[x].index = index /\ \A j \in 1..k - 1 : t[s[j]].index # index

LEMMA FirstOfTwo ==
  ASSUME NEW t, NEW index, NEW N \in Nat, NEW s \in Seq(1..N), NEW u \in Seq(1..N), NEW x, NEW y,
         IsFirst(t, s, index, x), IsFirst(t, u, index, y)
  PROVE  IsFirst(t, s \o u, index, IF x # 0 THEN x ELSE y)
<1> DEFINE c == s \o u
           m == Len(s)
           n == Len(u)
<1>1. /\ m \in Nat /\ n \in Nat /\ Len(c) = m + n
      /\ \A k \in 1..m : c[k] = s[k]
      /\ \A k \in 1..n : c[m + k] = u[k]
      /\ \A k \in 1..m + n : k \in 1..m \/ k - m \in 1..n
      /\ \A k \in 1..m : s[k] \in 1..N
  BY ConcatIs, ToSetOf
<1>2. /\ \/ x = 0 /\ \A k \in 1..m : t[s[k]].index # index
         \/ \E k \in 1..m : x = s[k] /\ t[x].index = index /\ \A j \in 1..k - 1 : t[s[j]].index # index
      /\ \/ y = 0 /\ \A k \in 1..n : t[u[k]].index # index
         \/ \E k \in 1..n : y = u[k] /\ t[y].index = index /\ \A j \in 1..k - 1 : t[u[j]].index # index
  BY DEF IsFirst
<1> HIDE DEF c, m, n
<1>3. CASE x # 0
  <2>1. PICK k \in 1..m : x = s[k] /\ t[x].index = index /\ \A j \in 1..k - 1 : t[s[j]].index # index
    BY <1>2, <1>3
  <2>2. k \in 1..Len(c) /\ \A j \in 1..k - 1 : j \in 1..m
    BY <1>1
  <2>3. x = c[k] /\ \A j \in 1..k - 1 : t[c[j]].index # index
    BY <1>1, <2>1, <2>2
  <2>4. QED BY <1>3, <2>1, <2>2, <2>3 DEF IsFirst, c
<1>4. CASE x = 0
  <2>1. \A k \in 1..m : t[c[k]].index # index
    BY <1>1, <1>2, <1>4
  <2>2. CASE y = 0 /\ \A k \in 1..n : t[u[k]].index # index
    <3>1. ASSUME NEW k \in 1..m + n PROVE t[c[k]].index # index
      <4>1. CASE k \in 1..m
        BY <2>1, <4>1
      <4>2. CASE k - m \in 1..n
        <5>1. m + (k - m) = k
          BY <1>1
        <5>2. c[k] = u[k - m]
          BY <1>1, <4>2, <5>1
        <5>3. QED BY <2>2, <4>2, <5>2
      <4>3. QED BY <1>1, <4>1, <4>2
    <3>2. QED BY <1>1, <1>4, <2>2, <3>1 DEF IsFirst, c
  <2>3. CASE \E k \in 1..n : y = u[k] /\ t[y].index = index /\ \A j \in 1..k - 1 : t[u[j]].index # index
    <3>1. PICK k \in 1..n : y = u[k] /\ t[y].index = index /\ \A j \in 1..k - 1 : t[u[j]].index # index
      BY <2>3
    <3>2. m + k \in 1..Len(c) /\ y = c[m + k]
      BY <1>1, <3>1
    <3>3. ASSUME NEW j \in 1..(m + k) - 1 PROVE t[c[j]].index # index
      <4>1. j \in 1..m \/ (j - m \in 1..k - 1 /\ j - m \in 1..n /\ m + (j - m) = j)
        BY <1>1
      <4>2. CASE j \in 1..m
        BY <2>1, <4>2
      <4>3. CASE j - m \in 1..k - 1 /\ j - m \in 1..n /\ m + (j - m) = j
        <5>1. c[j] = u[j - m]
          BY <1>1, <4>3
        <5>2. QED BY <3>1, <4>3, <5>1
      <4>4. QED BY <4>1, <4>2, <4>3
    <3>4. QED BY <1>4, <3>1, <3>2, <3>3 DEF IsFirst, c
  <2>4. QED BY <1>2, <2>2, <2>3
<1>5. QED BY <1>3, <1>4

LEMMA SearchFinds ==
  ASSUME NEW t, Up(t), NEW index
  PROVE  \A m \in 0..Len(t) : IsFirst(t, InDepth(t)[m], index, Search(t, index)[m])
<1> DEFINE N == Len(t)
           h == InDepth(t)
           f == Search(t, index)
           P == {m \in 0..N : IsFirst(t, h[m], index, f[m])}
<1>1. /\ h[0] = <<>> /\ \A m \in 0..N : h[m] \in Seq(1..N)
      /\ \A m \in 1..N : h[m] = <<m>> \o h[t[m].child] \o h[t[m].sibling]
  BY InDepthIs, MetIs
<1>2. /\ f[0] = 0
      /\ \A m \in 1..N : f[m] = IF t[m].index = index THEN m
                                ELSE IF f[t[m].child] # 0 THEN f[t[m].child] ELSE f[t[m].sibling]
  BY SearchIs
<1>3. /\ N \in Nat
      /\ \A m \in 1..N : /\ t[m].child \in 0..N /\ (t[m].child # 0 => t[m].child \in m + 1..N)
                         /\ t[m].sibling \in 0..N /\ (t[m].sibling # 0 => t[m].sibling \in m + 1..N)
  BY UpIs
<1> HIDE DEF N, h, f
<1>4. 0 \in P
  <2>1. IsFirst(t, <<>>, index, 0)
    BY DEF IsFirst
  <2>2. QED BY <1>1, <1>2, <1>3, <2>1
<1>5. ASSUME NEW m \in 1..N, \A k \in m + 1..N : k \in P PROVE m \in P
  <2> DEFINE one == <<m>>
             two == one \o h[t[m].child]
             x == IF t[m].index = index THEN m ELSE 0
             y == IF x # 0 THEN x ELSE f[t[m].child]
             z == IF y # 0 THEN y ELSE f[t[m].sibling]
  <2>1. t[m].child \in P /\ t[m].sibling \in P
    BY <1>3, <1>4, <1>5
  <2>2. one \in Seq(1..N)
    BY OneIs
  <2>3. IsFirst(t, one, index, x)
    <3>1. Len(one) = 1 /\ one[1] = m /\ 1 \in 1..1 /\ 1..(1 - 1) = {} /\ \A k \in 1..1 : k = 1
      BY OneIs
    <3> HIDE DEF one
    <3>2. CASE t[m].index = index
      <4>1. x = one[1] /\ t[x].index = index
        BY <3>1, <3>2
      <4>2. QED BY <3>1, <4>1 DEF IsFirst
    <3>3. CASE t[m].index # index
      BY <3>1, <3>3 DEF IsFirst
    <3>4. QED BY <3>2, <3>3
  <2>4. h[m] = two \o h[t[m].sibling]
    BY <1>1
  <2>5. h[t[m].child] \in Seq(1..N) /\ h[t[m].sibling] \in Seq(1..N)
    BY <1>1, <2>1
  <2> HIDE DEF one, x
  <2>6. two \in Seq(1..N)
    BY <2>2, <2>5, ConcatIs
  <2>7. IsFirst(t, two, index, y)
    BY <1>3, <2>1, <2>2, <2>3, <2>5, FirstOfTwo
  <2> HIDE DEF two, y
  <2>8. IsFirst(t, h[m], index, z)
    BY <1>3, <2>1, <2>4, <2>5, <2>6, <2>7, FirstOfTwo
  <2>9. z = f[m] /\ m \in 0..N
    BY <1>2, <1>3 DEF y, x
  <2>10. QED BY <2>8, <2>9
<1>6. \A m \in 0..N : m \in P
  <2> HIDE DEF P
  <2>1. QED BY <1>3, <1>4, <1>5, FromTheEnd
<1>7. QED BY <1>6 DEF N, h, f

-----------------------------------------------------------------------------
(* The end of a chain of siblings.                                         *)

EndOf(t) ==
  CHOOSE f : f = [m \in 1..Len(t) |-> IF t[m].sibling = NullNode THEN m ELSE f[t[m].sibling]]

LEMMA LastSiblingIs == \A n : LastSibling(n) = EndOf(node)[n]
BY DEF LastSibling, EndOf

LEMMA LastIs ==
  ASSUME NEW t, Up(t)
  PROVE  \A m \in 1..Len(t) :
           EndOf(t)[m] \in 1..Len(t) /\ EndOf(t)[m] \in Met(t, m) /\ t[EndOf(t)[m]].sibling = 0
<1> DEFINE N == Len(t)
           D == 1..N
           A == 0..N
           F(f, m) == IF t[m].sibling = 0 THEN m ELSE f[t[m].sibling]
           phi == [f \in [D -> A] |-> [m \in D |-> F(f, m)]]
           h == EndOf(t)
           P == {m \in 0..N : m # 0 => h[m] \in 1..N /\ h[m] \in Met(t, m) /\ t[h[m]].sibling = 0}
<1>1. /\ N \in Nat /\ 0 \in A /\ \A m \in D : m \in A /\ m # 0
      /\ \A m \in D : t[m].sibling # 0 => t[m].sibling \in D
  BY UpIs
<1>2. \A m \in D : t[m].sibling # 0 => t[m].sibling \in m + 1..N
  BY UpIs
<1> HIDE DEF D, A, P
<1>3. phi \in [[D -> A] -> [D -> A]]
  <2>1. \A f \in [D -> A] : \A m \in D : F(f, m) \in A
    BY <1>1
  <2> HIDE DEF F
  <2>2. QED BY <2>1
<1>4. \A f, g \in [D -> A] : \A m \in D :
        (m # 0 => \A y \in {t[m].child, t[m].sibling} : y \in D => f[y] = g[y])
          => phi[f][m] = phi[g][m]
  <2> SUFFICES ASSUME NEW f \in [D -> A], NEW g \in [D -> A], NEW m \in D,
                      m # 0 => \A y \in {t[m].child, t[m].sibling} : y \in D => f[y] = g[y]
               PROVE  phi[f][m] = phi[g][m]
    OBVIOUS
  <2>1. t[m].sibling # 0 => f[t[m].sibling] = g[t[m].sibling]
    BY <1>1
  <2>2. F(f, m) = F(g, m)
    BY <2>1
  <2> HIDE DEF F
  <2>3. QED BY <2>2
<1>5. PICK f \in [D -> A] : f = phi[f]
  <2>1. D \in {0..Len(t), 1..Len(t)}
    BY DEF D
  <2> HIDE DEF phi
  <2>2. Linked(t, D, A, 0, phi)
    BY <1>1, <1>3, <1>4, <2>1 DEF Linked
  <2>3. QED BY <2>2, TreeRecursion
<1>6. f = [m \in D |-> F(f, m)]
  <2> HIDE DEF F
  <2>1. QED BY <1>5
<1>7. h = [m \in D |-> F(h, m)]
  <2>1. \E g : g = [m \in 1..Len(t) |-> IF t[m].sibling = NullNode THEN m ELSE g[t[m].sibling]]
    BY <1>6 DEF NullNode, D
  <2>2. h = [m \in 1..Len(t) |-> IF t[m].sibling = NullNode THEN m ELSE h[t[m].sibling]]
    BY <2>1, Zenon DEF EndOf
  <2>3. QED BY <2>2 DEF NullNode, D
<1> HIDE DEF h
<1>8. \A m \in D : h[m] = IF t[m].sibling = 0 THEN m ELSE h[t[m].sibling]
  <2> HIDE DEF F
  <2>1. \A m \in D : h[m] = F(h, m)
    BY <1>7
  <2>2. QED BY <2>1 DEF F
<1>9. \A m \in D : Met(t, m) = {m} \cup Met(t, t[m].child) \cup Met(t, t[m].sibling)
  BY MetIs DEF D
<1> HIDE DEF N
<1>10. 0 \in P
  BY <1>1 DEF P
<1>11. ASSUME NEW m \in 1..N, \A k \in m + 1..N : k \in P PROVE m \in P
  <2>1. m \in D /\ m \in 0..N
    BY <1>1 DEF D
  <2>2. CASE t[m].sibling = 0
    BY <1>8, <1>9, <2>1, <2>2 DEF P
  <2>3. CASE t[m].sibling # 0
    <3>1. t[m].sibling \in P /\ h[m] = h[t[m].sibling] /\ Met(t, t[m].sibling) \subseteq Met(t, m)
      BY <1>2, <1>8, <1>9, <1>11, <2>1, <2>3
    <3>2. QED BY <2>1, <2>3, <3>1 DEF P
  <2>4. QED BY <2>2, <2>3
<1>12. \A m \in 0..N : m \in P
  BY <1>1, <1>10, <1>11, FromTheEnd
<1>13. ASSUME NEW m \in 1..N PROVE h[m] \in 1..N /\ h[m] \in Met(t, m) /\ t[h[m]].sibling = 0
  <2>1. m \in 0..N /\ m # 0
    BY <1>1
  <2>2. QED BY <1>12, <2>1 DEF P
<1>14. QED BY <1>13 DEF N, h

-----------------------------------------------------------------------------
(* A new node at the end of the table, to which a link of h leads.         *)

Grown(t, t2, h) ==
  /\ h \in 1..Len(t) /\ Len(t2) = Len(t) + 1
  /\ t2[Len(t) + 1].child = 0 /\ t2[Len(t) + 1].sibling = 0
  /\ \A m \in 1..Len(t) :
       /\ t2[m].index = t[m].index
       /\ m # h => t2[m].child = t[m].child /\ t2[m].sibling = t[m].sibling
  /\ \/ t[h].child = 0 /\ t2[h].child = Len(t) + 1 /\ t2[h].sibling = t[h].sibling
     \/ t[h].sibling = 0 /\ t2[h].sibling = Len(t) + 1 /\ t2[h].child = t[h].child

LEMMA GrownUp ==
  ASSUME NEW t, NEW t2, NEW h, Up(t), OneWay(t), Grown(t, t2, h)
  PROVE  Up(t2) /\ OneWay(t2)
<1> DEFINE N == Len(t)
<1>1. /\ N \in Nat
      /\ \A m \in 1..N : /\ t[m].child \in 0..N /\ (t[m].child # 0 => t[m].child \in m + 1..N)
                         /\ t[m].sibling \in 0..N /\ (t[m].sibling # 0 => t[m].sibling \in m + 1..N)
  BY UpIs
<1>2. /\ h \in 1..N /\ Len(t2) = N + 1 /\ t2[N + 1].child = 0 /\ t2[N + 1].sibling = 0
      /\ \A m \in 1..N : m # h => t2[m].child = t[m].child /\ t2[m].sibling = t[m].sibling
      /\ \/ t[h].child = 0 /\ t2[h].child = N + 1 /\ t2[h].sibling = t[h].sibling
         \/ t[h].sibling = 0 /\ t2[h].sibling = N + 1 /\ t2[h].child = t[h].child
  BY DEF Grown
<1>3. \A m, k \in 1..N :
        /\ t[m].child # 0 /\ t[m].child = t[k].child => m = k
        /\ t[m].sibling # 0 /\ t[m].sibling = t[k].sibling => m = k
        /\ t[m].child # 0 => t[m].child # t[k].sibling
  BY DEF OneWay
<1> HIDE DEF N
<1>4. \A m \in 1..N + 1 : m \in 1..N \/ m = N + 1
  BY <1>1
<1>5. Up(t2)
  <2>1. \A m \in 1..N + 1 : /\ t2[m].child \in {0} \cup m + 1..N + 1
                            /\ t2[m].sibling \in {0} \cup m + 1..N + 1
    <3> TAKE m \in 1..N + 1
    <3>1. CASE m = N + 1
      BY <1>2, <3>1
    <3>2. CASE m \in 1..N
      <4>1. \A y \in m + 1..N : y \in m + 1..N + 1
        BY <1>1
      <4>2. N + 1 \in m + 1..N + 1
        BY <1>1, <3>2
      <4>3. t2[m].child \in {0, N + 1} \cup m + 1..N /\ t2[m].sibling \in {0, N + 1} \cup m + 1..N
        BY <1>1, <1>2, <3>2
      <4>4. QED BY <4>1, <4>2, <4>3
    <3>3. QED BY <1>4, <3>1, <3>2
  <2>2. QED BY <1>1, <1>2, <2>1 DEF Up
<1>6. OneWay(t2)
  <2>1. \A m \in 1..N : t[m].child # N + 1 /\ t[m].sibling # N + 1 /\ m # N + 1
    BY <1>1
  <2>2. ASSUME NEW m \in 1..N + 1, NEW k \in 1..N + 1
        PROVE  /\ t2[m].child # 0 /\ t2[m].child = t2[k].child => m = k
               /\ t2[m].sibling # 0 /\ t2[m].sibling = t2[k].sibling => m = k
               /\ t2[m].child # 0 => t2[m].child # t2[k].sibling
    <3>1. CASE m = N + 1 \/ k = N + 1
      BY <1>2, <3>1
    <3>2. CASE m \in 1..N /\ k \in 1..N
      <4>1. CASE t[h].child = 0 /\ t2[h].child = N + 1 /\ t2[h].sibling = t[h].sibling
        BY <1>2, <1>3, <2>1, <3>2, <4>1
      <4>2. CASE t[h].sibling = 0 /\ t2[h].sibling = N + 1 /\ t2[h].child = t[h].child
        BY <1>2, <1>3, <2>1, <3>2, <4>2
      <4>3. QED BY <1>2, <4>1, <4>2
    <3>3. QED BY <1>4, <3>1, <3>2
  <2>3. QED BY <1>2, <2>2 DEF OneWay
<1>7. QED BY <1>5, <1>6

\* s2 is s with x put in somewhere.
PutIn(A, s, s2, x) == \E a, b \in Seq(A) : s = a \o b /\ s2 = (a \o <<x>>) \o b

LEMMA PutInLeft ==
  ASSUME NEW A, NEW s, NEW s2, NEW x \in A, NEW u \in Seq(A), PutIn(A, s, s2, x)
  PROVE  PutIn(A, s \o u, s2 \o u, x)
<1>1. PICK a \in Seq(A), b \in Seq(A) : s = a \o b /\ s2 = (a \o <<x>>) \o b
  BY DEF PutIn
<1> DEFINE one == <<x>>
           c == a \o one
           d == b \o u
<1>2. one \in Seq(A)
  OBVIOUS
<1> HIDE DEF one
<1>3. c \in Seq(A) /\ d \in Seq(A)
  BY <1>2, ConcatProperties
<1>4. (a \o b) \o u = a \o d
  BY ConcatAssociative
<1>5. (c \o b) \o u = c \o d
  BY <1>3, ConcatAssociative, SMTT(20)
<1>6. s \o u = a \o d /\ s2 \o u = (a \o <<x>>) \o d
  BY <1>1, <1>4, <1>5 DEF one
<1> HIDE DEF c, d
<1>7. QED BY <1>3, <1>6 DEF PutIn

LEMMA PutInRight ==
  ASSUME NEW A, NEW s, NEW s2, NEW x \in A, NEW u \in Seq(A), PutIn(A, s, s2, x)
  PROVE  PutIn(A, u \o s, u \o s2, x)
<1>1. PICK a \in Seq(A), b \in Seq(A) : s = a \o b /\ s2 = (a \o <<x>>) \o b
  BY DEF PutIn
<1> DEFINE one == <<x>>
           c == a \o one
           d == u \o a
<1>2. one \in Seq(A)
  OBVIOUS
<1> HIDE DEF one
<1>3. c \in Seq(A) /\ d \in Seq(A)
  BY <1>2, ConcatProperties
<1>4. u \o (a \o b) = d \o b
  BY ConcatAssociative, SMTT(20)
<1>5. u \o (c \o b) = (u \o c) \o b
  <2> HIDE DEF c
  <2>1. QED BY <1>3, ConcatAssociative, SMTT(20)
<1>6. u \o c = d \o one
  BY <1>2, ConcatAssociative
<1>7. u \o s = d \o b /\ u \o s2 = (d \o <<x>>) \o b
  BY <1>1, <1>4, <1>5, <1>6 DEF one
<1> HIDE DEF c, d
<1>8. QED BY <1>3, <1>7 DEF PutIn

LEMMA PutInIs ==
  ASSUME NEW A, NEW s, NEW s2, NEW x \in A, PutIn(A, s, s2, x)
  PROVE  /\ ToSet(s2) = ToSet(s) \cup {x}
         /\ \E k \in DOMAIN s2 : s2[k] = x /\ s = RemoveAt(s2, k)
<1>1. PICK a \in Seq(A), b \in Seq(A) : s = a \o b /\ s2 = (a \o <<x>>) \o b
  BY DEF PutIn
<1> DEFINE one == <<x>>
           c == a \o one
           m == Len(a)
           n == Len(b)
           r == RemoveAt(s2, m + 1)
<1>2. one \in Seq(A) /\ Len(one) = 1 /\ one[1] = x /\ ToSet(one) = {x} /\ 1 \in 1..1
  BY OneIs
<1>3. s2 = c \o b
  BY <1>1
<1>4. m \in Nat /\ n \in Nat
  OBVIOUS
<1> HIDE DEF one
<1>5. /\ c \in Seq(A) /\ Len(c) = m + 1 /\ ToSet(c) = ToSet(a) \cup {x}
      /\ (\A k \in 1..m : c[k] = a[k]) /\ c[m + 1] = x
  <2>1. /\ c \in Seq(A) /\ Len(c) = m + Len(one) /\ ToSet(c) = ToSet(a) \cup ToSet(one)
        /\ \A k \in 1..m : c[k] = a[k]
        /\ \A k \in 1..Len(one) : c[m + k] = one[k]
    <3>1. one \in Seq(A)
      BY <1>2
    <3>2. c \in Seq(A) /\ Len(c) = m + Len(one)
      BY <3>1, ConcatIs
    <3>3. ToSet(c) = ToSet(a) \cup ToSet(one)
      BY <3>1, ConcatIs
    <3>4. \A k \in 1..m : c[k] = a[k]
      BY <3>1, ConcatIs
    <3>5. \A k \in 1..Len(one) : c[m + k] = one[k]
      BY <3>1, ConcatIs
    <3>6. QED BY <3>2, <3>3, <3>4, <3>5
  <2> HIDE DEF c, m
  <2>2. QED BY <1>2, <2>1
<1> HIDE DEF c
<1>6. /\ s2 \in Seq(A) /\ Len(s2) = (m + 1) + n /\ ToSet(s2) = (ToSet(a) \cup {x}) \cup ToSet(b)
      /\ \A k \in 1..m + 1 : s2[k] = c[k]
      /\ \A k \in 1..n : s2[(m + 1) + k] = b[k]
  <2>1. /\ c \o b \in Seq(A) /\ Len(c \o b) = Len(c) + n /\ ToSet(c \o b) = ToSet(c) \cup ToSet(b)
        /\ \A k \in 1..Len(c) : (c \o b)[k] = c[k]
        /\ \A k \in 1..n : (c \o b)[Len(c) + k] = b[k]
    <3>1. c \in Seq(A)
      BY <1>5
    <3>2. c \o b \in Seq(A) /\ Len(c \o b) = Len(c) + n
      BY <3>1, ConcatIs
    <3>3. ToSet(c \o b) = ToSet(c) \cup ToSet(b)
      BY <3>1, ConcatIs
    <3>4. \A k \in 1..Len(c) : (c \o b)[k] = c[k]
      BY <3>1, ConcatIs
    <3>5. \A k \in 1..n : (c \o b)[Len(c) + k] = b[k]
      BY <3>1, ConcatIs
    <3>6. QED BY <3>2, <3>3, <3>4, <3>5
  <2> HIDE DEF m, n
  <2>2. QED BY <1>3, <1>5, <2>1
<1>7. /\ s \in Seq(A) /\ Len(s) = m + n /\ ToSet(s) = ToSet(a) \cup ToSet(b)
      /\ \A k \in 1..m : s[k] = a[k]
      /\ \A k \in 1..n : s[m + k] = b[k]
      /\ \A k \in 1..m + n : k \in 1..m \/ k - m \in 1..n
  BY <1>1, ConcatIs
<1> HIDE DEF m, n
<1>8. m + 1 \in 1..Len(s2) /\ m + 1 \in 1..m + 1 /\ \A k \in 1..m : k \in 1..m + 1
  BY <1>4, <1>6
<1>9. /\ r \in Seq(A) /\ Len(r) = Len(s2) - 1
      /\ \A k \in 1..Len(s2) - 1 : r[k] = IF k < m + 1 THEN s2[k] ELSE s2[k + 1]
  BY <1>6, <1>8, RemoveAtIs
<1> HIDE DEF r
<1>10. Len(r) = m + n /\ \A k \in 1..m + n : k \in 1..Len(s2) - 1
  BY <1>4, <1>6, <1>9
<1>11. \A k \in 1..m + n : s[k] = r[k]
  <2> TAKE k \in 1..m + n
  <2>1. CASE k \in 1..m
    <3>1. k < m + 1
      BY <1>4, <2>1
    <3>2. QED BY <1>5, <1>6, <1>7, <1>8, <1>9, <1>10, <2>1, <3>1
  <2>2. CASE k - m \in 1..n
    <3>1. ~ (k < m + 1) /\ k + 1 = (m + 1) + (k - m) /\ m + (k - m) = k
      BY <1>4, <2>2
    <3>2. r[k] = s2[k + 1]
      BY <1>9, <1>10, <3>1
    <3>3. s2[(m + 1) + (k - m)] = b[k - m] /\ s[m + (k - m)] = b[k - m]
      BY <1>6, <1>7, <2>2
    <3>4. QED BY <3>1, <3>2, <3>3
  <2>3. QED BY <1>7, <2>1, <2>2
<1>12. s = r
  BY <1>7, <1>9, <1>10, <1>11, SeqEqual
<1>13. s2[m + 1] = x /\ m + 1 \in DOMAIN s2
  BY <1>5, <1>6, <1>8
<1>14. QED BY <1>6, <1>7, <1>12, <1>13 DEF r

LEMMA GrownOrder ==
  ASSUME NEW t, NEW t2, NEW h, Up(t), OneWay(t), Grown(t, t2, h)
  PROVE  \A m \in 0..Len(t) :
           IF h \in Met(t, m)
           THEN PutIn(1..Len(t) + 1, InDepth(t)[m], InDepth(t2)[m], Len(t) + 1)
           ELSE InDepth(t2)[m] = InDepth(t)[m]
<1> DEFINE N == Len(t)
           x == N + 1
           A == 1..N + 1
           f == InDepth(t)
           g == InDepth(t2)
           Q(m) == IF h \in Met(t, m) THEN PutIn(A, f[m], g[m], x) ELSE g[m] = f[m]
           P == {m \in 0..N : Q(m)}
<1>1. /\ N \in Nat
      /\ \A m \in 1..N : /\ t[m].child \in 0..N /\ (t[m].child # 0 => t[m].child \in m + 1..N)
                         /\ t[m].sibling \in 0..N /\ (t[m].sibling # 0 => t[m].sibling \in m + 1..N)
  BY UpIs
<1>2. /\ h \in 1..N /\ Len(t2) = N + 1 /\ t2[N + 1].child = 0 /\ t2[N + 1].sibling = 0
      /\ \A m \in 1..N : m # h => t2[m].child = t[m].child /\ t2[m].sibling = t[m].sibling
      /\ \/ t[h].child = 0 /\ t2[h].child = N + 1 /\ t2[h].sibling = t[h].sibling
         \/ t[h].sibling = 0 /\ t2[h].sibling = N + 1 /\ t2[h].child = t[h].child
  BY DEF Grown
<1>3. Up(t2)
  BY GrownUp
<1>4. /\ f[0] = <<>> /\ \A m \in 0..N : f[m] \in Seq(1..N)
      /\ \A m \in 1..N : f[m] = <<m>> \o f[t[m].child] \o f[t[m].sibling]
      /\ Met(t, 0) = {}
      /\ \A m \in 1..N : Met(t, m) = {m} \cup Met(t, t[m].child) \cup Met(t, t[m].sibling)
  BY InDepthIs, MetIs
<1>5. /\ g[0] = <<>> /\ \A m \in 0..N + 1 : g[m] \in Seq(A)
      /\ \A m \in 1..N + 1 : g[m] = <<m>> \o g[t2[m].child] \o g[t2[m].sibling]
  <2>1. /\ InDepth(t2)[0] = <<>>
        /\ \A m \in 1..Len(t2) :
             InDepth(t2)[m] = <<m>> \o InDepth(t2)[t2[m].child] \o InDepth(t2)[t2[m].sibling]
    BY <1>3, InDepthIs
  <2>2. \A m \in 0..Len(t2) : InDepth(t2)[m] \in Seq(1..Len(t2))
    BY <1>3, MetIs
  <2>3. QED BY <1>2, <2>1, <2>2, Zenon
<1>6. \A m \in 1..N : /\ Met(t, t[m].child) \cap Met(t, t[m].sibling) = {}
                      /\ m \notin Met(t, t[m].child) /\ m \notin Met(t, t[m].sibling)
  BY BelowAndBeside
<1> HIDE DEF f, g, N
<1>7. x \in A /\ x \in 1..N + 1 /\ \A m \in 0..N : m \in 0..N + 1
  BY <1>1
<1>8. \A m \in 0..N : f[m] \in Seq(A)
  <2>1. 1..N \subseteq A
    BY <1>1
  <2>2. Seq(1..N) \subseteq Seq(A)
    <3> HIDE DEF A
    <3>1. QED BY <2>1, SeqMonotonic
  <2>3. QED BY <1>4, <2>2
<1>9. \A m \in 1..N : m \in A /\ m \in 1..N + 1 /\ m \in 0..N
  BY <1>1
<1> HIDE DEF A
<1>10. g[x] = <<x>>
  <2>1. g[x] = <<x>> \o <<>> \o <<>>
    BY <1>2, <1>5, <1>7
  <2>2. <<x>> \in Seq(A)
    BY <1>7
  <2>3. <<x>> \o <<>> = <<x>>
    BY <2>2, ConcatEmptySeq
  <2>4. QED BY <2>1, <2>3
<1>11. 0 \in P
  BY <1>1, <1>4, <1>5
<1>12. ASSUME NEW m \in 1..N, \A k \in m + 1..N : k \in P PROVE m \in P
  <2> DEFINE c == t[m].child
             s == t[m].sibling
             one == <<m>>
  <2>1. c \in P /\ s \in P /\ c \in 0..N /\ s \in 0..N
    BY <1>1, <1>11, <1>12
  <2>2. f[m] = (one \o f[c]) \o f[s] /\ g[m] = (one \o g[t2[m].child]) \o g[t2[m].sibling]
    BY <1>4, <1>5, <1>9
  <2>3. one \in Seq(A) /\ f[c] \in Seq(A) /\ f[s] \in Seq(A) /\ g[c] \in Seq(A) /\ g[s] \in Seq(A)
    BY <1>5, <1>7, <1>8, <1>9, <2>1, OneIs
  <2>4. Met(t, m) = {m} \cup Met(t, c) \cup Met(t, s)
    BY <1>4
  <2>5. Met(t, c) \cap Met(t, s) = {} /\ m \notin Met(t, c) /\ m \notin Met(t, s)
    BY <1>6
  <2>6. Q(c) /\ Q(s)
    BY <2>1
  <2>7. m # h => t2[m].child = c /\ t2[m].sibling = s
    BY <1>2
  <2>a. m = h => \/ c = 0 /\ t2[m].child = x /\ t2[m].sibling = s
                 \/ s = 0 /\ t2[m].sibling = x /\ t2[m].child = c
    BY <1>2
  <2> HIDE DEF one, P, Q, c, s, x
  <2>b. one \o f[c] \in Seq(A)
    BY <2>3, ConcatProperties
  <2>c. SUFFICES Q(m)
    BY <1>9 DEF P
  <2>8. CASE m # h /\ h \notin Met(t, m)
    <3>1. g[c] = f[c] /\ g[s] = f[s]
      BY <2>4, <2>6, <2>8 DEF Q
    <3>2. QED BY <2>2, <2>7, <2>8, <3>1 DEF Q
  <2>9. CASE m # h /\ h \in Met(t, c)
    <3>1. PutIn(A, f[c], g[c], x) /\ g[s] = f[s]
      BY <2>5, <2>6, <2>9 DEF Q
    <3>2. PutIn(A, one \o f[c], one \o g[c], x)
      BY <1>7, <2>3, <3>1, PutInRight
    <3>3. PutIn(A, (one \o f[c]) \o f[s], (one \o g[c]) \o f[s], x)
      BY <1>7, <2>3, <3>2, PutInLeft
    <3>4. QED BY <2>2, <2>4, <2>7, <2>9, <3>1, <3>3 DEF Q
  <2>10. CASE m # h /\ h \in Met(t, s)
    <3>1. PutIn(A, f[s], g[s], x) /\ g[c] = f[c]
      BY <2>5, <2>6, <2>10 DEF Q
    <3>2. PutIn(A, (one \o f[c]) \o f[s], (one \o f[c]) \o g[s], x)
      BY <1>7, <2>b, <3>1, PutInRight
    <3>3. QED BY <2>2, <2>4, <2>7, <2>10, <3>1, <3>2 DEF Q
  <2>11. CASE m = h
    <3>1. g[c] = f[c] /\ g[s] = f[s] /\ h \in Met(t, m)
      BY <2>4, <2>5, <2>6, <2>11 DEF Q
    <3>2. CASE c = 0 /\ t2[m].child = x /\ t2[m].sibling = s
      <4>1. f[c] = <<>> /\ one \o <<>> = one
        BY <1>4, <2>3, <3>2, ConcatEmptySeq
      <4>2. f[m] = one \o f[s]
        BY <2>2, <4>1
      <4>3. g[m] = (one \o <<x>>) \o f[s]
        BY <1>10, <2>2, <3>1, <3>2
      <4>4. PutIn(A, f[m], g[m], x)
        BY <2>3, <4>2, <4>3 DEF PutIn
      <4>5. QED BY <3>1, <4>4 DEF Q
    <3>3. CASE s = 0 /\ t2[m].sibling = x /\ t2[m].child = c
      <4> DEFINE two == one \o f[c]
                 three == two \o <<x>>
      <4>1. f[s] = <<>> /\ g[m] = three
        BY <1>4, <1>10, <2>2, <3>1, <3>3
      <4>2. <<x>> \in Seq(A) /\ <<>> \in Seq(A)
        BY <1>7
      <4>3. two \in Seq(A)
        BY <2>b
      <4>4. f[m] = two \o <<>>
        BY <2>2, <4>1
      <4> HIDE DEF two
      <4>5. three \in Seq(A)
        BY <4>2, <4>3, ConcatProperties
      <4> HIDE DEF three
      <4>6. g[m] = three \o <<>>
        BY <4>1, <4>5, ConcatEmptySeq
      <4>7. PutIn(A, f[m], g[m], x)
        BY <4>2, <4>3, <4>4, <4>6 DEF PutIn, three
      <4>8. QED BY <3>1, <4>7 DEF Q
    <3>4. QED BY <2>11, <2>a, <3>2, <3>3
  <2>12. QED BY <2>4, <2>8, <2>9, <2>10, <2>11
<1>13. \A m \in 0..N : m \in P
  <2> HIDE DEF P
  <2>1. QED BY <1>1, <1>11, <1>12, FromTheEnd
<1>14. QED BY <1>13 DEF N, f, g, A

LEMMA SearchMet ==
  ASSUME NEW t, Up(t), NEW index, NEW m \in 0..Len(t)
  PROVE  /\ Search(t, index)[m] # 0 =>
              Search(t, index)[m] \in Met(t, m) /\ t[Search(t, index)[m]].index = index
         /\ Search(t, index)[m] = 0 => \A k \in Met(t, m) : t[k].index # index
<1> DEFINE s == InDepth(t)[m]
           y == Search(t, index)[m]
<1>1. IsFirst(t, s, index, y)
  BY SearchFinds
<1>2. /\ s \in Seq(1..Len(t)) /\ ToSet(s) = Met(t, m) /\ Len(t) \in Nat
  BY MetIs, UpIs DEF Met
<1>3. ToSet(s) = {s[k] : k \in 1..Len(s)} /\ \A k \in 1..Len(s) : s[k] \in 1..Len(t)
  BY <1>2, ToSetOf
<1> HIDE DEF s, y
<1>4. \A k \in 1..Len(s) : s[k] # 0
  BY <1>2, <1>3
<1>5. y # 0 => y \in Met(t, m) /\ t[y].index = index
  BY <1>1, <1>2, <1>3 DEF IsFirst
<1>6. y = 0 => \A k \in Met(t, m) : t[k].index # index
  BY <1>1, <1>2, <1>3, <1>4 DEF IsFirst
<1>7. QED BY <1>5, <1>6 DEF y

\* The search still finds a node that the new one is met from.
LEMMA GrownSearch ==
  ASSUME NEW t, NEW t2, NEW h, Up(t), OneWay(t), Grown(t, t2, h), NEW index, NEW q, h \in Met(t, q), q # 0
  PROVE  \A m \in 0..Len(t) : Search(t, index)[m] = q => Search(t2, index)[m] = q
<1> DEFINE N == Len(t)
           f == Search(t, index)
           g == Search(t2, index)
           P == {m \in 0..N : f[m] = q => g[m] = q}
<1>1. /\ N \in Nat
      /\ \A m \in 1..N : /\ t[m].child \in 0..N /\ (t[m].child # 0 => t[m].child \in m + 1..N)
                         /\ t[m].sibling \in 0..N /\ (t[m].sibling # 0 => t[m].sibling \in m + 1..N)
  BY UpIs
<1>2. /\ h \in 1..N /\ Len(t2) = N + 1
      /\ \A m \in 1..N : t2[m].index = t[m].index
      /\ \A m \in 1..N : m # h => t2[m].child = t[m].child /\ t2[m].sibling = t[m].sibling
      /\ \/ t[h].child = 0 /\ t2[h].sibling = t[h].sibling
         \/ t[h].sibling = 0 /\ t2[h].child = t[h].child
  BY DEF Grown
<1>3. Up(t2)
  BY GrownUp
<1>4. /\ f[0] = 0
      /\ \A m \in 1..N : f[m] = IF t[m].index = index THEN m
                                ELSE IF f[t[m].child] # 0 THEN f[t[m].child] ELSE f[t[m].sibling]
  BY SearchIs
<1>5. \A m \in 0..N : /\ f[m] # 0 => f[m] \in Met(t, m)
                      /\ f[m] = 0 => \A k \in Met(t, m) : t[k].index # index
  BY SearchMet
<1>6. /\ \A m \in 1..N + 1 : g[m] = IF t2[m].index = index THEN m
                                ELSE IF g[t2[m].child] # 0 THEN g[t2[m].child] ELSE g[t2[m].sibling]
  BY <1>2, <1>3, SearchIs
<1>7. \A m \in 0..N + 1 : g[m] # 0 => g[m] \in Met(t2, m) /\ t2[g[m]].index = index
  BY <1>2, <1>3, SearchMet
<1>8. /\ \A m \in 0..N : \A k \in Met(t, m) : Met(t, k) \subseteq Met(t, m)
      /\ \A m \in 0..N : Met(t, m) \subseteq 1..N
      /\ \A m \in 1..N : m \notin Met(t, t[m].sibling) /\ Met(t, t[m].child) \cap Met(t, t[m].sibling) = {}
  BY MetFrom, MetIs, BelowAndBeside
<1>9. \A m \in 0..N : h \notin Met(t, m) => Met(t2, m) = Met(t, m)
  BY GrownOrder DEF Met
<1> HIDE DEF N, f, g
<1>10. 0 \in P
  BY <1>1, <1>4
<1>11. ASSUME NEW m \in 1..N, \A k \in m + 1..N : k \in P PROVE m \in P
  <2> DEFINE c == t[m].child
             s == t[m].sibling
  <2>1. c \in P /\ s \in P /\ c \in 0..N /\ s \in 0..N /\ m \in 0..N /\ m \in 1..N + 1
        /\ \A k \in 0..N : k \in 0..N + 1
    BY <1>1, <1>10, <1>11
  <2>2. SUFFICES ASSUME f[m] = q PROVE g[m] = q
    BY <2>1
  <2>3. CASE t[m].index = index
    BY <1>2, <1>4, <1>6, <2>1, <2>2, <2>3
  <2>4. CASE t[m].index # index /\ f[c] # 0
    <3>1. f[c] = q /\ c # 0
      BY <1>4, <2>2, <2>4
    <3>2. g[c] = q
      BY <2>1, <3>1
    <3>3. t2[m].child = c
      BY <1>2, <3>1
    <3>4. QED BY <1>2, <1>6, <2>1, <2>4, <3>1, <3>2, <3>3
  <2>5. CASE t[m].index # index /\ f[c] = 0
    <3>1. f[s] = q /\ s # 0
      BY <1>4, <2>2, <2>5
    <3>2. g[s] = q
      BY <2>1, <3>1
    <3>3. h \in Met(t, s)
      BY <1>5, <1>8, <2>1, <3>1
    <3>4. m # h /\ h \notin Met(t, c)
      BY <1>8, <3>3
    <3>5. t2[m].child = c /\ t2[m].sibling = s /\ Met(t2, c) = Met(t, c)
      BY <1>2, <1>9, <2>1, <3>4
    <3>6. g[c] = 0
      <4>1. \A k \in Met(t, c) : t2[k].index # index
        BY <1>2, <1>5, <1>8, <2>1, <2>5
      <4>2. QED BY <1>7, <2>1, <3>5, <4>1
    <3>7. QED BY <1>2, <1>6, <2>1, <2>5, <3>2, <3>5, <3>6
  <2>6. QED BY <2>3, <2>4, <2>5
<1>12. \A m \in 0..N : m \in P
  <2> HIDE DEF P
  <2>1. QED BY <1>1, <1>10, <1>11, FromTheEnd
<1>13. QED BY <1>12 DEF N, f, g

-----------------------------------------------------------------------------
(* The calls.                                                              *)

Record == [index : Indexes \cup {0}, name : Names, child : Address, sibling : Address]

LEMMA AppendedIs ==
  ASSUME NEW t \in Seq(Record), NEW r \in Record
  PROVE  /\ Append(t, r) \in Seq(Record) /\ Len(Append(t, r)) = Len(t) + 1
         /\ \A m \in 1..Len(t) : Append(t, r)[m] = t[m]
         /\ Append(t, r)[Len(t) + 1] = r /\ Len(t) \in Nat
<1> HIDE DEF Record
<1> QED BY AppendProperties, ToSetOf

ToChild(t, h, x) == [t EXCEPT ![h].child = x]
ToSibling(t, h, x) == [t EXCEPT ![h].sibling = x]

LEMMA ToChildIs ==
  ASSUME NEW t \in Seq(Record), NEW h \in 1..Len(t), NEW x \in Address
  PROVE  /\ ToChild(t, h, x) \in Seq(Record) /\ Len(ToChild(t, h, x)) = Len(t)
         /\ \A m \in 1..Len(t) : m # h => ToChild(t, h, x)[m] = t[m]
         /\ ToChild(t, h, x)[h].child = x /\ ToChild(t, h, x)[h].index = t[h].index
         /\ ToChild(t, h, x)[h].sibling = t[h].sibling
<1> DEFINE a == [t[h] EXCEPT !.child = x]
           u == ToChild(t, h, x)
<1>1. t[h] \in Record
  OBVIOUS
<1>2. a \in Record /\ a.child = x /\ a.index = t[h].index /\ a.sibling = t[h].sibling
  BY <1>1 DEF Record
<1>3. u = [t EXCEPT ![h] = a]
  BY DEF ToChild
<1> HIDE DEF a, Record, u
<1>4. u \in Seq(Record) /\ Len(u) = Len(t) /\ \A m \in 1..Len(t) : u[m] = IF m = h THEN a ELSE t[m]
  BY <1>2, <1>3, ExceptSeq
<1>5. u[h] = a
  BY <1>4
<1>6. QED BY <1>2, <1>4, <1>5 DEF u

LEMMA ToSiblingIs ==
  ASSUME NEW t \in Seq(Record), NEW h \in 1..Len(t), NEW x \in Address
  PROVE  /\ ToSibling(t, h, x) \in Seq(Record) /\ Len(ToSibling(t, h, x)) = Len(t)
         /\ \A m \in 1..Len(t) : m # h => ToSibling(t, h, x)[m] = t[m]
         /\ ToSibling(t, h, x)[h].sibling = x /\ ToSibling(t, h, x)[h].index = t[h].index
         /\ ToSibling(t, h, x)[h].child = t[h].child
<1> DEFINE a == [t[h] EXCEPT !.sibling = x]
           u == ToSibling(t, h, x)
<1>1. t[h] \in Record
  OBVIOUS
<1>2. a \in Record /\ a.sibling = x /\ a.index = t[h].index /\ a.child = t[h].child
  BY <1>1 DEF Record
<1>3. u = [t EXCEPT ![h] = a]
  BY DEF ToSibling
<1> HIDE DEF a, Record, u
<1>4. u \in Seq(Record) /\ Len(u) = Len(t) /\ \A m \in 1..Len(t) : u[m] = IF m = h THEN a ELSE t[m]
  BY <1>2, <1>3, ExceptSeq
<1>5. u[h] = a
  BY <1>4
<1>6. QED BY <1>2, <1>4, <1>5 DEF u

\* Behind the first node r each has a link that leads to it, from r or behind.
Rooted(t, r) == \A x \in r + 1..Len(t) : \E k \in r..Len(t) : t[k].child = x \/ t[k].sibling = x

TreeInv ==
  /\ TreeTypeOK
  /\ Up(node) /\ OneWay(node) /\ Rooted(node, root)
  /\ \A m \in 1..Len(node) : node[m].index \in ToSet(nodeIndexs)
  /\ root = 0 => Len(node) = 0

LEMMA TreeTypes ==
  ASSUME TreeInv
  PROVE  /\ node \in Seq(Record) /\ Len(node) \in Nat /\ Len(node) <= MaxNodes /\ MaxNodes \in Nat
         /\ root \in 0..Len(node) /\ nodeIndexs \in Seq(Indexes \cup {0}) /\ num = Len(nodeIndexs)
         /\ Up(node) /\ OneWay(node) /\ Rooted(node, root)
         /\ root # 0 => root \in 1..Len(node)
BY TreeAssumption DEF TreeInv, TreeTypeOK, Record, Address

LEMMA MetFromRoot ==
  ASSUME TreeInv, root # 0
  PROVE  Met(node, root) = root..Len(node)
<1> DEFINE N == Len(node)
           T == (root..N) \ Met(node, root)
<1>1. N \in Nat /\ root \in 1..N /\ root \in 0..N /\ Up(node)
  BY TreeTypes
<1>2. /\ Met(node, root) \subseteq root..N
      /\ \A m \in 1..N : Met(node, m) = {m} \cup Met(node, node[m].child) \cup Met(node, node[m].sibling)
      /\ Met(node, 0) = {}
  BY <1>1, MetIs
<1>3. \A k \in Met(node, root) : Met(node, k) \subseteq Met(node, root)
  BY <1>1, MetFrom
<1>4. \A x \in root + 1..N : \E k \in root..N : node[k].child = x \/ node[k].sibling = x
  BY TreeTypes DEF Rooted
<1>5. \A m \in 1..N : /\ node[m].child # 0 => node[m].child \in m + 1..N
                      /\ node[m].sibling # 0 => node[m].sibling \in m + 1..N
  BY <1>1, UpIs
<1> HIDE DEF N
<1>6. T = {}
  <2>1. SUFFICES ASSUME T # {} PROVE FALSE
    OBVIOUS
  <2>2. PICK x \in T : \A y \in T : x <= y
    <3>1. T \in SUBSET Nat
      BY <1>1
    <3> HIDE DEF T
    <3>2. QED BY <2>1, <3>1, Least
  <2>3. root \in Met(node, root)
    BY <1>1, <1>2
  <2>4. x \in root + 1..N /\ x # 0
    BY <1>1, <2>2, <2>3
  <2>5. PICK k \in root..N : node[k].child = x \/ node[k].sibling = x
    BY <1>4, <2>4
  <2>6. k \in 1..N
    BY <1>1
  <2>7. x \in k + 1..N
    BY <1>5, <2>4, <2>5, <2>6
  <2>8. k \in Met(node, root)
    <3>1. ~ (x <= k)
      BY <1>1, <2>7
    <3>2. QED BY <2>2, <3>1
  <2>9. x \in Met(node, k)
    <3>1. x \in 1..N
      BY <1>1, <2>4
    <3>2. x \in Met(node, x)
      BY <1>2, <3>1
    <3>3. QED BY <1>2, <2>5, <2>6, <3>2
  <2>10. QED BY <1>3, <2>2, <2>8, <2>9
<1>7. QED BY <1>2, <1>6 DEF N

\* What set_child does when it does something.
LEMMA SetChildIs ==
  ASSUME TreeInv, NEW above, NEW index \in Indexes, NEW name \in Names,
         set_child(above, index, name), treeVars' # treeVars
  PROVE  LET par == Search(node, above)[root]
         IN /\ root \in 1..Len(node) /\ root' = root /\ above # -1 /\ above \in ToSet(nodeIndexs)
            /\ par = get_node_by_index(above) /\ par # 0 /\ par \in Met(node, root)
            /\ \E h \in Met(node, par) : Grown(node, node', h)
            /\ node' \in Seq(Record) /\ Len(node') \in Address
            /\ node'[Len(node) + 1].index = index
            /\ nodeIndexs' = Append(nodeIndexs, index) /\ num' = num + 1
<1> DEFINE N == Len(node)
           par == get_node_by_index(above)
           x == N + 1
           r == [index |-> index, name |-> name, child |-> NullNode, sibling |-> NullNode]
           u == Append(node, r)
<1>1. /\ node \in Seq(Record) /\ N \in Nat /\ N <= MaxNodes /\ MaxNodes \in Nat /\ root \in 0..N /\ Up(node)
  BY TreeTypes
<1>2. /\ par # 0 /\ N # MaxNodes /\ node' = Hung(u, par, x) /\ root' = root
      /\ nodeIndexs' = Append(nodeIndexs, index) /\ num' = num + 1
  BY DEF set_child, treeVars, NullNode, New, Counted
<1>3. above # -1 /\ above \in ToSet(nodeIndexs) /\ par = Search(node, above)[root]
  BY <1>2, GetIs DEF get_node_by_index, check_node_index, NullNode
<1> HIDE DEF par
<1>4. root # 0
  BY <1>1, <1>2, <1>3, SearchIs
<1>5. par \in Met(node, root) /\ Met(node, root) = root..N
  BY <1>1, <1>2, <1>3, <1>4, SearchMet, MetFromRoot
<1>6. par \in 1..N /\ par \in Met(node, par)
  <2>1. par \in 1..N
    BY <1>1, <1>4, <1>5
  <2>2. QED BY <1>1, <2>1, MetIs
<1>7. x \in Address /\ 0 \in Address
  BY <1>1, <1>2 DEF Address
<1>8. r \in Record /\ r.child = 0 /\ r.sibling = 0 /\ r.index = index
  BY <1>7 DEF Record, NullNode
<1> HIDE DEF r
<1>9. /\ u \in Seq(Record) /\ Len(u) = x /\ u[x] = r
      /\ \A m \in 1..N : u[m] = node[m]
  BY <1>1, <1>8, AppendedIs
<1> HIDE DEF u
<1>10. x \in 1..x /\ \A m \in 1..N : m \in 1..x /\ m # x
  BY <1>1
<1>11. CASE node[par].child = 0
  <2>1. node' = ToChild(u, par, x)
    BY <1>2, <1>11 DEF Hung, NullNode, ToChild
  <2>2. /\ node' \in Seq(Record) /\ Len(node') = x
        /\ \A m \in 1..x : m # par => node'[m] = u[m]
        /\ node'[par].child = x /\ node'[par].index = u[par].index /\ node'[par].sibling = u[par].sibling
    <3>1. par \in 1..Len(u)
      BY <1>6, <1>9, <1>10
    <3> HIDE DEF x
    <3>2. QED BY <1>7, <1>9, <2>1, <3>1, ToChildIs, Zenon
  <2>3. Grown(node, node', par)
    BY <1>6, <1>8, <1>9, <1>10, <1>11, <2>2 DEF Grown
  <2>4. node'[x].index = index
    BY <1>6, <1>8, <1>9, <1>10, <2>2
  <2>5. QED BY <1>1, <1>2, <1>3, <1>4, <1>5, <1>6, <1>7, <2>2, <2>3, <2>4 DEF par
<1>12. CASE node[par].child # 0
  <2> DEFINE h == LastSibling(par)
  <2>1. node' = ToSibling(u, h, x)
    BY <1>2, <1>12 DEF Hung, NullNode, ToSibling
  <2>2. h \in 1..N /\ h \in Met(node, par) /\ node[h].sibling = 0
    BY <1>1, <1>6, LastSiblingIs, LastIs
  <2> HIDE DEF h
  <2>3. /\ node' \in Seq(Record) /\ Len(node') = x
        /\ \A m \in 1..x : m # h => node'[m] = u[m]
        /\ node'[h].sibling = x /\ node'[h].index = u[h].index /\ node'[h].child = u[h].child
    <3>1. h \in 1..Len(u)
      BY <1>9, <1>10, <2>2
    <3> HIDE DEF x
    <3>2. QED BY <1>7, <1>9, <2>1, <3>1, ToSiblingIs
  <2>4. Grown(node, node', h)
    BY <1>8, <1>9, <1>10, <2>2, <2>3 DEF Grown
  <2>5. node'[x].index = index
    BY <1>8, <1>9, <1>10, <2>2, <2>3
  <2>6. QED BY <1>1, <1>2, <1>3, <1>4, <1>5, <1>6, <1>7, <2>2, <2>3, <2>4, <2>5 DEF par
<1>13. QED BY <1>11, <1>12

LEMMA CountedIs ==
  ASSUME nodeIndexs \in Seq(Indexes \cup {0}), num = Len(nodeIndexs), NEW index \in Indexes \cup {0},
         nodeIndexs' = Append(nodeIndexs, index), num' = num + 1
  PROVE  /\ nodeIndexs' \in Seq(Indexes \cup {0}) /\ num' = Len(nodeIndexs')
         /\ ToSet(nodeIndexs) \subseteq ToSet(nodeIndexs') /\ index \in ToSet(nodeIndexs')
<1> DEFINE s == nodeIndexs
           u == nodeIndexs'
           n == Len(s)
<1>1. n \in Nat /\ DOMAIN s = 1..n
  OBVIOUS
<1>2. u \in Seq(Indexes \cup {0}) /\ Len(u) = n + 1 /\ u[n + 1] = index /\ \A k \in 1..n : u[k] = s[k]
  BY AppendProperties
<1>3. DOMAIN u = 1..n + 1
  BY <1>2
<1> HIDE DEF s, u, n
<1>4. n + 1 \in 1..n + 1 /\ \A k \in 1..n : k \in 1..n + 1
  BY <1>1
<1>5. ToSet(s) \subseteq ToSet(u) /\ index \in ToSet(u)
  BY <1>1, <1>2, <1>3, <1>4 DEF ToSet
<1>6. QED BY <1>2, <1>5 DEF s, u, n

LEMMA SetChildKeeps ==
  ASSUME TreeInv, NEW above \in Indexes, NEW index \in Indexes, NEW name \in Names,
         set_child(above, index, name), treeVars' # treeVars
  PROVE  TreeInv'
<1> DEFINE N == Len(node)
           par == Search(node, above)[root]
<1>1. /\ node \in Seq(Record) /\ N \in Nat /\ root \in 0..N
      /\ nodeIndexs \in Seq(Indexes \cup {0}) /\ num = Len(nodeIndexs)
      /\ Up(node) /\ OneWay(node) /\ Rooted(node, root)
  BY TreeTypes
<1>2. /\ root \in 1..N /\ root' = root /\ par \in Met(node, root)
      /\ \E h \in Met(node, par) : Grown(node, node', h)
      /\ node' \in Seq(Record) /\ Len(node') \in Address /\ node'[N + 1].index = index
      /\ nodeIndexs' = Append(nodeIndexs, index) /\ num' = num + 1
  BY SetChildIs
<1>3. PICK h \in Met(node, par) : Grown(node, node', h)
  BY <1>2
<1>4. Up(node') /\ OneWay(node')
  BY <1>1, <1>3, GrownUp
<1>5. h \in root..N
  <2>1. root # 0 /\ root \in 0..N
    BY <1>1, <1>2
  <2>2. Met(node, par) \subseteq Met(node, root)
    BY <1>1, <1>2, <2>1, MetFrom
  <2>3. QED BY <2>1, <2>2, MetFromRoot
<1>6. /\ Len(node') = N + 1
      /\ \A m \in 1..N : node'[m].index = node[m].index
      /\ \A m \in 1..N : m # h => node'[m].child = node[m].child /\ node'[m].sibling = node[m].sibling
      /\ \/ node[h].child = 0 /\ node'[h].child = N + 1 /\ node'[h].sibling = node[h].sibling
         \/ node[h].sibling = 0 /\ node'[h].sibling = N + 1 /\ node'[h].child = node[h].child
  BY <1>3 DEF Grown
<1> HIDE DEF N, par
<1>7. Rooted(node', root')
  <2>1. \A x \in root + 1..N : \E k \in root..N : node[k].child = x \/ node[k].sibling = x
    BY <1>1 DEF Rooted, N
  <2>2. SUFFICES ASSUME NEW x \in root + 1..N + 1
                 PROVE  \E k \in root..N + 1 : node'[k].child = x \/ node'[k].sibling = x
    BY <1>2, <1>6 DEF Rooted
  <2>3. \A k \in root..N : k \in root..N + 1 /\ k \in 1..N
    BY <1>1, <1>2
  <2>4. CASE x = N + 1
    BY <1>5, <1>6, <2>3, <2>4
  <2>5. CASE x \in root + 1..N
    <3>1. PICK k \in root..N : node[k].child = x \/ node[k].sibling = x
      BY <2>1, <2>5
    <3>2. x # 0
      BY <1>1, <2>5
    <3>3. QED BY <1>6, <2>3, <3>1, <3>2
  <2>6. QED BY <1>1, <2>4, <2>5
<1>8. /\ nodeIndexs' \in Seq(Indexes \cup {0}) /\ num' = Len(nodeIndexs')
      /\ ToSet(nodeIndexs) \subseteq ToSet(nodeIndexs') /\ index \in ToSet(nodeIndexs')
  BY <1>1, <1>2, CountedIs
<1>9. \A m \in 1..Len(node') : node'[m].index \in ToSet(nodeIndexs')
  <2>1. \A m \in 1..N : node[m].index \in ToSet(nodeIndexs)
    BY DEF TreeInv, N
  <2>2. \A m \in 1..N + 1 : m = N + 1 \/ m \in 1..N
    BY <1>1
  <2>3. QED BY <1>2, <1>6, <1>8, <2>1, <2>2 DEF N
<1>10. TreeTypeOK'
  <2>1. root' \in 0..Len(node')
    BY <1>1, <1>2, <1>6
  <2>2. QED BY <1>2, <1>8, <2>1 DEF TreeTypeOK, Record
<1>11. root' # 0
  BY <1>1, <1>2
<1>12. QED BY <1>4, <1>7, <1>9, <1>10, <1>11 DEF TreeInv

LEMMA SetRootKeeps ==
  ASSUME TreeInv, NEW name \in Names, set_root(name), treeVars' # treeVars
  PROVE  TreeInv'
<1> DEFINE N == Len(node)
           x == N + 1
           r == [index |-> 0, name |-> name, child |-> NullNode, sibling |-> NullNode]
           t == node'
<1>1. /\ node \in Seq(Record) /\ N \in Nat /\ N <= MaxNodes /\ MaxNodes \in Nat /\ root \in 0..N
      /\ nodeIndexs \in Seq(Indexes \cup {0}) /\ num = Len(nodeIndexs)
      /\ Up(node) /\ OneWay(node)
  BY TreeTypes
<1>2. /\ N # MaxNodes /\ t = Append(node, r) /\ root' = x
      /\ nodeIndexs' = Append(nodeIndexs, 0) /\ num' = num + 1
  BY DEF set_root, Counted, treeVars
<1>3. x \in Address /\ 0 \in Address
  BY <1>1, <1>2 DEF Address
<1>4. r \in Record /\ r.child = 0 /\ r.sibling = 0 /\ r.index = 0
  BY <1>3 DEF Record, NullNode
<1> HIDE DEF r
<1>5. /\ t \in Seq(Record) /\ Len(t) = x /\ t[x] = r
      /\ \A m \in 1..N : t[m] = node[m]
  BY <1>1, <1>2, <1>4, AppendedIs
<1>6. /\ \A m \in 1..N : /\ node[m].child \in {0} \cup m + 1..N
                         /\ node[m].sibling \in {0} \cup m + 1..N
  BY <1>1 DEF Up
<1>7. \A m \in 1..x : m \in 1..N \/ m = x
  BY <1>1
<1> HIDE DEF t
<1>8. Up(t)
  <2>1. \A m \in 1..x : /\ t[m].child \in {0} \cup m + 1..x
                        /\ t[m].sibling \in {0} \cup m + 1..x
    <3> TAKE m \in 1..x
    <3>1. CASE m = x
      BY <1>4, <1>5, <3>1
    <3>2. CASE m \in 1..N
      <4>1. \A y \in m + 1..N : y \in m + 1..x
        BY <1>1
      <4>2. QED BY <1>5, <1>6, <3>2, <4>1
    <3>3. QED BY <1>7, <3>1, <3>2
  <2>2. QED BY <1>1, <1>5, <2>1 DEF Up
<1>9. OneWay(t)
  <2>1. \A m, k \in 1..N : /\ t[m].child # 0 /\ t[m].child = t[k].child => m = k
                           /\ t[m].sibling # 0 /\ t[m].sibling = t[k].sibling => m = k
                           /\ t[m].child # 0 => t[m].child # t[k].sibling
    BY <1>1, <1>5 DEF OneWay
  <2>2. t[x].child = 0 /\ t[x].sibling = 0
    BY <1>4, <1>5
  <2> HIDE DEF N
  <2>3. QED BY <1>5, <1>7, <2>1, <2>2 DEF OneWay
<1>10. Rooted(t, root')
  <2>1. root' + 1..Len(t) = {}
    BY <1>1, <1>2, <1>5
  <2>2. QED BY <2>1 DEF Rooted
<1>11. /\ nodeIndexs' \in Seq(Indexes \cup {0}) /\ num' = Len(nodeIndexs')
       /\ ToSet(nodeIndexs) \subseteq ToSet(nodeIndexs') /\ 0 \in ToSet(nodeIndexs')
  BY <1>1, <1>2, CountedIs
<1>12. \A m \in 1..Len(t) : t[m].index \in ToSet(nodeIndexs')
  <2>1. \A m \in 1..N : node[m].index \in ToSet(nodeIndexs)
    BY DEF TreeInv
  <2>2. QED BY <1>4, <1>5, <1>7, <1>11, <2>1
<1>13. TreeTypeOK'
  <2>1. root' \in 0..Len(t)
    BY <1>1, <1>2, <1>5
  <2>2. QED BY <1>3, <1>5, <1>11, <2>1 DEF TreeTypeOK, Record, t
<1>14. root' # 0
  BY <1>1, <1>2
<1>15. QED BY <1>8, <1>9, <1>10, <1>12, <1>13, <1>14 DEF TreeInv, t

LEMMA TreeInvStarts ==
  ASSUME node = <<>>, root = NullNode, nodeIndexs = <<>>, num = 0
  PROVE  TreeInv
<1>1. Len(node) = 0 /\ Len(nodeIndexs) = 0 /\ root = 0 /\ 0 \in Address /\ 0 \in 0..0
  BY TreeAssumption DEF Address, NullNode
<1>2. TreeTypeOK
  BY <1>1 DEF TreeTypeOK
<1>3. Up(node) /\ OneWay(node) /\ Rooted(node, root)
  BY <1>1 DEF Up, OneWay, Rooted
<1>4. QED BY <1>1, <1>2, <1>3 DEF TreeInv

LEMMA TreeInvariant == TreeSpec => []TreeInv
<1>1. NoTree => TreeInv
  BY TreeInvStarts DEF NoTree
<1>2. TreeInv /\ [TreeNext]_treeVars => TreeInv'
  <2> SUFFICES ASSUME TreeInv, [TreeNext]_treeVars PROVE TreeInv'
    OBVIOUS
  <2>1. ASSUME NEW above \in Indexes, NEW index \in Indexes, NEW name \in Names,
               set_child(above, index, name), treeVars' # treeVars
        PROVE  TreeInv'
    BY <2>1, SetChildKeeps
  <2>2. ASSUME NEW name \in Names, set_root(name), treeVars' # treeVars PROVE TreeInv'
    BY <2>2, SetRootKeeps
  <2>3. CASE hiertree_init
    <3>1. (node = <<>> /\ root = NullNode /\ nodeIndexs = <<>> /\ num = 0)'
      BY <2>3 DEF hiertree_init
    <3>2. QED BY <3>1, TreeInvStarts, PTL
  <2>4. CASE UNCHANGED treeVars
    BY <2>4 DEF treeVars, TreeInv, TreeTypeOK
  <2>5. QED BY <2>1, <2>2, <2>3, <2>4 DEF TreeNext
<1>3. QED BY <1>1, <1>2, PTL DEF TreeSpec

-----------------------------------------------------------------------------
(* What is right of the tree in every state.                               *)

LEMMA MeetsAll ==
  ASSUME TreeInv
  PROVE  TraversalMeetsAll
<1>1. SUFFICES ASSUME root # 0
               PROVE  IsInjective(traversal(root)) /\ ToSet(traversal(root)) = root..Len(node)
  BY DEF TraversalMeetsAll, NullNode
<1>2. Up(node) /\ OneWay(node) /\ root \in 0..Len(node)
  BY TreeTypes
<1>3. IsInjective(InDepth(node)[root])
  BY <1>2, MetOnce
<1>4. ToSet(InDepth(node)[root]) = root..Len(node)
  BY <1>1, MetFromRoot DEF Met
<1>5. QED BY <1>3, <1>4, TraversalIs

Having(t, s, index) == {k \in 1..Len(s) : t[s[k]].index = index}

LEMMA FirstIs ==
  ASSUME NEW t, NEW A, NEW s \in Seq(A), NEW index, NEW x, IsFirst(t, s, index, x),
         NEW k \in Having(t, s, index), 0 \notin A
  PROVE  Having(t, s, index) # {} /\ x = s[Min(Having(t, s, index))]
<1> DEFINE n == Len(s)
           I == {j \in 1..n : t[s[j]].index = index}
<1>1. n \in Nat
  OBVIOUS
<1>2. Having(t, s, index) = I
  BY DEF Having
<1>3. PICK f \in 1..n : x = s[f] /\ t[x].index = index /\ \A j \in 1..f - 1 : t[s[j]].index # index
  <2>1. k \in 1..n /\ t[s[k]].index = index /\ s[k] # 0
    BY <1>2
  <2>2. QED BY <2>1 DEF IsFirst
<1> HIDE DEF n
<1>4. f \in I /\ I \in SUBSET Nat
  BY <1>1, <1>3
<1>5. Min(I) \in I /\ Min(I) <= f
  <2> HIDE DEF I
  <2>1. I # {}
    BY <1>4
  <2>2. QED BY <1>4, <2>1, MinIs
<1>6. Min(I) = f
  <2>1. Min(I) \in 1..n /\ Min(I) \notin 1..f - 1
    BY <1>3, <1>5
  <2> HIDE DEF I
  <2>2. QED BY <1>1, <1>3, <1>5, <2>1
<1>7. I # {}
  BY <1>4
<1>8. QED BY <1>2, <1>3, <1>6, <1>7

LEMMA IndexLeads ==
  ASSUME TreeInv
  PROVE  IndexLeadsToFirst
<1> DEFINE N == Len(node)
           s == InDepth(node)[root]
<1>1. /\ N \in Nat /\ root \in 0..N /\ Up(node)
      /\ \A m \in 1..N : node[m].index \in ToSet(nodeIndexs)
  BY TreeTypes DEF TreeInv
<1>2. s \in Seq(1..N)
  BY <1>1, MetIs
<1>3. traversal(root) = s
  BY TraversalIs
<1> HIDE DEF s, N
<1>4. SUFFICES ASSUME NEW k \in DOMAIN s
               PROVE  get_node_by_index(node[s[k]].index) =
                        IF node[s[k]].index = -1 THEN NullNode
                        ELSE s[IF Having(node, s, node[s[k]].index) # {}
                               THEN Min(Having(node, s, node[s[k]].index)) ELSE 0]
  BY <1>3, ZenonT(30) DEF IndexLeadsToFirst, SelectInSeq, Having
<1> DEFINE index == node[s[k]].index
<1>5. k \in 1..Len(s) /\ s[k] \in 1..N
  BY <1>2, ToSetOf
<1>6. index \in ToSet(nodeIndexs)
  BY <1>1, <1>5
<1>7. CASE index = -1
  BY <1>7 DEF get_node_by_index, check_node_index
<1>8. CASE index # -1
  <2>1. get_node_by_index(index) = Search(node, index)[root]
    BY <1>6, <1>8, GetIs DEF get_node_by_index, check_node_index
  <2>2. IsFirst(node, s, index, Search(node, index)[root])
    <3> HIDE DEF index
    <3>1. QED BY <1>1, SearchFinds DEF s, N
  <2>3. 0 \notin 1..N /\ k \in Having(node, s, index)
    BY <1>1, <1>5 DEF Having
  <2> HIDE DEF index
  <2>4. Having(node, s, index) # {} /\ Search(node, index)[root] = s[Min(Having(node, s, index))]
    BY <1>2, <1>5, <2>2, <2>3, FirstIs
  <2>5. QED BY <1>8, <2>1, <2>4 DEF index
<1>9. QED BY <1>7, <1>8

LEMMA NameLeads ==
  ASSUME TreeInv
  PROVE  NameLeadsToNode
<1> DEFINE N == Len(node)
<1>1. /\ N \in Nat /\ Up(node)
      /\ \A m \in 1..N : node[m].index \in ToSet(nodeIndexs)
      /\ nodeIndexs \in Seq(Indexes \cup {0})
  BY TreeTypes DEF TreeInv
<1> HIDE DEF N
<1>2. SUFFICES ASSUME NEW n \in 1..N, NEW name \in Names
               PROVE  IF NAME_TO_INDEX(n, name) = -1
                      THEN \A m \in ToSet(traversal(n)) : node[m].name = name =>
                             node[m].index = -1 \/ _get_node_by_index(n, node[m].index) # m
                      ELSE \E m \in ToSet(traversal(n)) :
                             node[m].name = name /\ node[m].index = NAME_TO_INDEX(n, name)
  BY DEF NameLeadsToNode, N
<1> DEFINE get(id) == _get_node_by_index(n, id)
           I == {k \in 1..Len(nodeIndexs) :
                   get(nodeIndexs[k]) # NullNode /\ node[get(nodeIndexs[k])].name = name}
           first == IF I # {} THEN Min(I) ELSE 0
           index == NAME_TO_INDEX(n, name)
<1>3. index = IF first = 0 THEN -1 ELSE nodeIndexs[first]
  BY DEF NAME_TO_INDEX, SelectInSeq
<1>4. ToSet(traversal(n)) = Met(node, n) /\ Met(node, n) \subseteq 1..N /\ n \in 0..N
  BY <1>1, TraversalIs, MetIs DEF Met, N
<1>5. CASE I # {}
  <2>1. I \in SUBSET Nat
    OBVIOUS
  <2>2. first \in I
    <3> HIDE DEF I
    <3>1. QED BY <1>5, <2>1, MinIs
  <2>3. first # 0 /\ get(nodeIndexs[first]) # 0 /\ node[get(nodeIndexs[first])].name = name
    <3> HIDE DEF first, get
    <3>1. QED BY <2>2 DEF NullNode
  <2> DEFINE id == nodeIndexs[first]
  <2>4. index = id
    BY <1>3, <2>3
  <2> HIDE DEF index, first
  <2>5. id # -1 /\ get(id) = Search(node, id)[n]
    BY <2>3, GetIs DEF NullNode
  <2> HIDE DEF id, get
  <2>6. get(id) \in Met(node, n) /\ node[get(id)].index = id
    BY <1>1, <1>4, <2>3, <2>5, SearchMet DEF N, id
  <2>7. index # -1
    BY <2>4, <2>5
  <2>8. QED BY <1>4, <2>3, <2>4, <2>6, <2>7 DEF index, id
<1>6. CASE I = {}
  <2>1. index = -1
    BY <1>3, <1>6
  <2>2. SUFFICES ASSUME NEW m \in Met(node, n), node[m].name = name PROVE get(node[m].index) # m
    BY <1>4, <2>1
  <2>3. node[m].index \in ToSet(nodeIndexs) /\ m # 0
    BY <1>1, <1>4
  <2>4. PICK k \in 1..Len(nodeIndexs) : node[m].index = nodeIndexs[k]
    BY <1>1, <2>3, ToSetOf
  <2> HIDE DEF get
  <2>5. k \notin I
    BY <1>6
  <2>6. QED BY <2>2, <2>3, <2>4, <2>5 DEF NullNode
<1>7. QED BY <1>5, <1>6

\* In every state a traversal meets the nodes that were added since the root was
\* set, each of them once, an index leads to the first node met that has it, and
\* a name to the index of a node that has the name (tree.c 7 to 176).
THEOREM TreeIsCorrect == TreeSpec => []TreeCorrect
<1>1. TreeInv => TreeCorrect
  BY MeetsAll, IndexLeads, NameLeads DEF TreeCorrect, TreeInv
<1>2. QED BY <1>1, TreeInvariant, PTL

LEMMA AddedThere ==
  ASSUME TreeInv, Len(node') > Len(node), NEW above, NEW index \in Indexes, NEW name \in Names,
         set_child(above, index, name)
  PROVE  /\ Len(node') \in ToSet(traversal(get_node_by_index(above))')
         /\ \E k \in DOMAIN traversal(root)' :
              traversal(root)'[k] = Len(node') /\ traversal(root) = RemoveAt(traversal(root)', k)
<1> DEFINE N == Len(node)
           par == Search(node, above)[root]
<1>1. N \in Nat /\ root \in 0..N /\ Up(node) /\ OneWay(node) /\ Met(node, 0) = {}
  BY TreeTypes, MetIs
<1>2. treeVars' # treeVars
  <2>1. node' # node
    BY <1>1
  <2>2. QED BY <2>1 DEF treeVars
<1>3. /\ root \in 1..N /\ root' = root /\ above # -1 /\ above \in ToSet(nodeIndexs)
      /\ par # 0 /\ par \in Met(node, root)
      /\ \E h \in Met(node, par) : Grown(node, node', h)
      /\ nodeIndexs' = Append(nodeIndexs, index) /\ num' = num + 1
  BY <1>2, SetChildIs
<1>4. PICK h \in Met(node, par) : Grown(node, node', h)
  BY <1>3
<1>5. h \in Met(node, root) /\ par \in 0..N
  BY <1>1, <1>3, MetFrom, MetIs
<1>6. Len(node') = N + 1 /\ N + 1 \in 1..N + 1
  BY <1>1, <1>4 DEF Grown
<1>7. traversal(root)' = InDepth(node')[root] /\ traversal(root) = InDepth(node)[root]
  BY <1>3 DEF traversal, InDepth
<1>8. /\ PutIn(1..N + 1, InDepth(node)[root], InDepth(node')[root], N + 1)
      /\ PutIn(1..N + 1, InDepth(node)[par], InDepth(node')[par], N + 1)
  BY <1>1, <1>4, <1>5, GrownOrder
<1>9. get_node_by_index(above)' = par
  <2>1. above \in ToSet(nodeIndexs')
    <3>1. nodeIndexs \in Seq(Indexes \cup {0}) /\ num = Len(nodeIndexs) /\ index \in Indexes \cup {0}
      BY TreeTypes
    <3>2. QED BY <1>3, <3>1, CountedIs
  <2>2. get_node_by_index(above)' = Search(node', above)[root]
    BY <1>3, <2>1 DEF get_node_by_index, check_node_index, _get_node_by_index, Search
  <2>3. Search(node', above)[root] = par
    BY <1>1, <1>3, <1>4, GrownSearch
  <2>4. QED BY <2>2, <2>3
<1> HIDE DEF par
<1>10. traversal(get_node_by_index(above))' = InDepth(node')[par]
  BY <1>9 DEF traversal, InDepth
<1> HIDE DEF N
<1>11. N + 1 \in ToSet(InDepth(node')[par])
  BY <1>6, <1>8, PutInIs
<1>12. \E k \in DOMAIN InDepth(node')[root] :
         InDepth(node')[root][k] = N + 1 /\ InDepth(node)[root] = RemoveAt(InDepth(node')[root], k)
  BY <1>6, <1>8, PutInIs
<1>13. QED BY <1>6, <1>7, <1>10, <1>11, <1>12

\* Whatever set_child adds is met from the parent it was added to, and to the
\* order in which the others are met nothing changes (tree.c 112).
THEOREM AddedIsBelowParent == TreeSpec => AddedBelowParent
<1>1. TreeInv =>
        [Len(node') > Len(node) => \A above, index \in Indexes, name \in Names :
           set_child(above, index, name) =>
             LET met == traversal(root)'
             IN /\ Len(node') \in ToSet(traversal(get_node_by_index(above))')
                /\ \E k \in DOMAIN met :
                     met[k] = Len(node') /\ traversal(root) = RemoveAt(met, k)]_treeVars
  BY AddedThere
<1>2. QED BY <1>1, TreeInvariant, PTL DEF AddedBelowParent

-----------------------------------------------------------------------------
(***************************************************************************)
(* Both programs for the shortest paths.                                   *)
(*                                                                         *)
(* The invariant PathInv is Dijkstra's argument.  KnownIn: what was used   *)
(* was reached.  Settled: every edge from there was considered.            *)
(* NearestUsed: some number lies between the costs of what was used and    *)
(* the others.  LeadsBack: the predecessors go back, down some rank, to    *)
(* the source.  Settled and NearestUsed say that no walk is shorter        *)
(* (NoneIsShorter), LeadsBack that a walk is that short (PathIsWithin).    *)
(* CandidatesOK and TurnsOK say that at the end nothing is left to use.    *)
(*                                                                         *)
(* The turns over the edges are functions that are defined by recursion:   *)
(* StartedAfterIs and RelaxedAfterIs say that they are what they are       *)
(* defined to be, and FromSourceBegins and RelaxedImproves go through them *)
(* edge by edge.                                                           *)
(***************************************************************************)

Edge(g) == ToSet(g.edges)

\* The length of the path to x: the cells of the source are not used.
Dist(g, c, x) == IF x = g.source THEN 0 ELSE c[x]

Reached(g, c, x) == x = g.source \/ c[x] < INT_MAX

\* The vertices whose cost is known: the source, and what has been used.
KnownIn(g, c, S) ==
  /\ S \in SUBSET Vertices(g) /\ g.source \in S
  /\ \A x \in S : Reached(g, c, x)

\* Every edge from a vertex of S was considered.
Settled(g, c, S) ==
  \A e \in Edge(g) : e.u \in S => Reached(g, c, e.v) /\ Dist(g, c, e.v) <= Dist(g, c, e.u) + e.w

\* p leads back to the source: r counts the edges of a path, at most.
Ranked(g, c, p, S, r) ==
  /\ r \in [Vertices(g) -> 0..g.n-1] /\ r[g.source] = 0
  /\ \A x \in S : r[x] < Cardinality(S)
  /\ \A x \in Vertices(g) \ {g.source} : c[x] < INT_MAX =>
       /\ p[x] \in S /\ r[p[x]] < r[x]
       /\ \E e \in Edge(g) : e.u = p[x] /\ e.v = x /\ c[x] = Dist(g, c, p[x]) + e.w

\* m lies between the costs in S and the others.
Between(g, c, S, m) ==
  m \in 0..INT_MAX /\ (\A x \in S : Dist(g, c, x) <= m) /\ (\A x \in Vertices(g) \ S : m <= c[x])

-----------------------------------------------------------------------------

LEMMA GraphFacts ==
  ASSUME NEW g \in Graphs
  PROVE  /\ INT_MAX \in Nat \ {0} /\ g.n \in Nat \ {0} /\ g.source \in Vertices(g)
         /\ \A x \in Vertices(g) : x \in Nat /\ x <= g.n - 1
         /\ g.edges \in Seq(Edges(g)) /\ Len(g.edges) \in Nat
         /\ \A k \in 1..Len(g.edges) : g.edges[k] \in Edge(g)
         /\ \A e \in Edge(g) : \E k \in 1..Len(g.edges) : e = g.edges[k]
         /\ \A e \in Edge(g) : e \in Edges(g) /\ e.u \in Vertices(g) /\ e.v \in Vertices(g) /\ e.w \in Nat
<1>1. INT_MAX \in Nat \ {0} /\ g.n \in Nat /\ g.source \in 0..g.n-1 /\ g.edges \in Seq(Edges(g))
  BY GraphsAssumption
<1>2. Len(g.edges) \in Nat /\ DOMAIN g.edges = 1..Len(g.edges)
  BY <1>1
<1>3. \A k \in 1..Len(g.edges) : g.edges[k] \in Edge(g)
  BY <1>2 DEF Edge, ToSet
<1>4. \A e \in Edge(g) : \E k \in 1..Len(g.edges) : e = g.edges[k]
  BY <1>2 DEF Edge, ToSet
<1>5. \A e \in Edge(g) : e \in Edges(g)
  BY <1>1, <1>2, <1>4
<1>6. \A e \in Edges(g) : e.u \in Vertices(g) /\ e.v \in Vertices(g) /\ e.w \in Nat
  BY <1>1 DEF Edges, Vertices
<1>7. QED BY <1>1, <1>2, <1>3, <1>4, <1>5, <1>6 DEF Vertices

LEMMA Times ==
  ASSUME NEW a \in Nat, NEW b \in Nat, NEW w \in Nat
  PROVE  /\ a * w \in Nat
         /\ a < b => a * w + w <= b * w
         /\ a <= b => a * w <= b * w
<1>1. \A d \in Nat : d * w \in Nat /\ (a + d) * w = a * w + d * w
  OBVIOUS
<1>2. \A d \in Nat : (d + 1) * w = d * w + w
  OBVIOUS
<1>3. ASSUME a < b PROVE a * w + w <= b * w
  <2>1. b - a - 1 \in Nat /\ b = a + ((b - a - 1) + 1)
    BY <1>3
  <2>2. PICK d \in Nat : d = b - a - 1
    BY <2>1
  <2>3. b = a + (d + 1) /\ d + 1 \in Nat
    BY <2>1, <2>2
  <2>4. b * w = a * w + (d + 1) * w
    BY <1>1, <2>3
  <2>5. b * w = a * w + (d * w + w)
    BY <1>2, <2>4
  <2>6. QED BY <1>1, <2>5
<1>4. ASSUME a <= b PROVE a * w <= b * w
  <2>1. PICK d \in Nat : b = a + d
    <3>1. b - a \in Nat /\ b = a + (b - a)
      BY <1>4
    <3>2. QED BY <3>1
  <2>2. QED BY <1>1, <2>1
<1>5. QED BY <1>1, <1>3, <1>4

-----------------------------------------------------------------------------
(* The definition of the property: what is within k edges.                 *)

Within(g) ==
  CHOOSE f : f = [k \in Nat |->
    IF k = 0 THEN [x \in Vertices(g) |-> IF x = g.source THEN 0 ELSE INT_MAX]
    ELSE [x \in Vertices(g) |->
            Min({f[k - 1][x]} \cup {f[k - 1][e.u] + e.w : e \in {d \in Edge(g) : d.v = x}})]]

Through(g, f, x) == {f[x]} \cup {f[e.u] + e.w : e \in {d \in Edge(g) : d.v = x}}

LEMMA ShortestIsWithin == Shortest = Within(graph)[graph.n - 1]
  BY DEF Shortest, Within, Edge

LEMMA ThroughMin ==
  ASSUME NEW g \in Graphs, NEW f \in [Vertices(g) -> Nat], NEW x \in Vertices(g)
  PROVE  /\ Through(g, f, x) \in SUBSET Nat
         /\ Min(Through(g, f, x)) \in Through(g, f, x)
         /\ \A y \in Through(g, f, x) : Min(Through(g, f, x)) <= y
<1>1. Through(g, f, x) \in SUBSET Nat /\ Through(g, f, x) # {}
  BY GraphFacts DEF Through
<1>2. QED BY <1>1, MinIs

LEMMA WithinIs ==
  ASSUME NEW g \in Graphs
  PROVE  /\ Within(g) \in [Nat -> [Vertices(g) -> Nat]]
         /\ \A x \in Vertices(g) : Within(g)[0][x] = IF x = g.source THEN 0 ELSE INT_MAX
         /\ \A k \in Nat : \A x \in Vertices(g) :
              Within(g)[k + 1][x] = Min(Through(g, Within(g)[k], x))
<1> DEFINE V == Vertices(g)
           A == [V -> Nat]
           a == [x \in V |-> IF x = g.source THEN 0 ELSE INT_MAX]
           step == [f \in A |-> [x \in V |-> Min(Through(g, f, x))]]
           Is(f) == f = [k \in Nat |-> IF k = 0 THEN a ELSE
                          [x \in V |-> Min({f[k - 1][x]} \cup {f[k - 1][e.u] + e.w : e \in {d \in Edge(g) : d.v = x}})]]
<1>1. a \in A
  BY GraphFacts
<1>2. step \in [A -> A]
  <2>1. \A f \in A : \A x \in V : Min(Through(g, f, x)) \in Nat
    BY ThroughMin
  <2>2. QED BY <2>1
<1>3. PICK f \in [Nat -> A] : f = [k \in Nat |-> IF k = 0 THEN a ELSE step[f[k - 1]]]
  <2> HIDE DEF A, a, step
  <2> QED BY <1>1, <1>2, IterationExists
<1>4. \A k \in Nat : k # 0 => f[k - 1] \in A
  <2>1. \A k \in Nat : k # 0 => k - 1 \in Nat
    OBVIOUS
  <2> HIDE DEF A
  <2>2. QED BY <1>3, <2>1
<1>5. \A k \in Nat : k # 0 => step[f[k - 1]] =
        [x \in V |-> Min({f[k - 1][x]} \cup {f[k - 1][e.u] + e.w : e \in {d \in Edge(g) : d.v = x}})]
  <2> SUFFICES ASSUME NEW k \in Nat, k # 0
               PROVE  step[f[k - 1]] =
        [x \in V |-> Min({f[k - 1][x]} \cup {f[k - 1][e.u] + e.w : e \in {d \in Edge(g) : d.v = x}})]
    OBVIOUS
  <2>1. f[k - 1] \in A
    BY <1>4
  <2> HIDE DEF A
  <2>2. step[f[k - 1]] = [x \in V |-> Min(Through(g, f[k - 1], x))]
    BY <2>1
  <2>3. QED BY <2>2, Zenon DEF Through
<1>6. Is(f)
  <2> HIDE DEF a, step
  <2> QED BY <1>3, <1>5
<1>7. Within(g) = CHOOSE k : Is(k)
  BY DEF Within
<1>8. Is(Within(g))
  <2> HIDE DEF Is
  <2> QED BY <1>6, <1>7
<1> DEFINE W == Within(g)
<1>9. W = [k \in Nat |-> IF k = 0 THEN a ELSE [x \in V |-> Min(Through(g, W[k - 1], x))]]
  BY <1>8, Zenon DEF Through
<1> HIDE DEF W
<1>10. W[0] = a /\ \A k \in Nat : W[k + 1] = [x \in V |-> Min(Through(g, W[k], x))]
  <2>1. W[0] = a
    BY <1>9
  <2>2. ASSUME NEW k \in Nat PROVE W[k + 1] = [x \in V |-> Min(Through(g, W[k], x))]
    <3>1. k + 1 \in Nat /\ k + 1 # 0 /\ (k + 1) - 1 = k
      OBVIOUS
    <3>2. W[k + 1] = [x \in V |-> Min(Through(g, W[(k + 1) - 1], x))]
      BY <1>9, <3>1
    <3>3. QED BY <3>1, <3>2
  <2>3. QED BY <2>1, <2>2
<1>11. \A k \in Nat : W[k] \in A
  <2> DEFINE S == {k \in Nat : W[k] \in A}
  <2>1. 0 \in S
    BY <1>1, <1>10
  <2>2. ASSUME NEW k \in S PROVE k + 1 \in S
    <3>1. \A x \in V : Min(Through(g, W[k], x)) \in Nat
      <4> SUFFICES ASSUME NEW x \in V PROVE Min(Through(g, W[k], x)) \in Nat
        OBVIOUS
      <4>1. W[k] \in [V -> Nat]
        BY <2>2
      <4>2. QED BY <4>1, ThroughMin
    <3>2. [x \in V |-> Min(Through(g, W[k], x))] \in A
      BY <3>1
    <3>3. k + 1 \in Nat /\ W[k + 1] = [x \in V |-> Min(Through(g, W[k], x))]
      BY <1>10
    <3> HIDE DEF A
    <3>4. QED BY <3>2, <3>3
  <2>3. S = Nat
    <3> HIDE DEF S
    <3>1. S \in SUBSET Nat
      BY DEF S
    <3>2. QED BY <2>1, <2>2, <3>1, Inductive
  <2>4. QED BY <2>3
<1>12. W \in [Nat -> A]
  <2> HIDE DEF A
  <2>1. W = [k \in Nat |-> W[k]]
    BY <1>9
  <2>2. QED BY <1>11, <2>1
<1>13. \A x \in V : W[0][x] = IF x = g.source THEN 0 ELSE INT_MAX
  <2> HIDE DEF V
  <2> QED BY <1>10
<1>14. \A k \in Nat : \A x \in V : W[k + 1][x] = Min(Through(g, W[k], x))
  <2> SUFFICES ASSUME NEW k \in Nat, NEW x \in V PROVE W[k + 1][x] = Min(Through(g, W[k], x))
    OBVIOUS
  <2>1. k + 1 \in Nat /\ W[k + 1] = [y \in V |-> Min(Through(g, W[k], y))]
    BY <1>10
  <2> HIDE DEF V, W, A
  <2> QED BY <2>1
<1>15. QED BY <1>12, <1>13, <1>14 DEF W

\* Within any number of edges no path is shorter than what is settled, and
\* none leads out of S that is shorter than m.
LEMMA NoneIsShorter ==
  ASSUME NEW g \in Graphs, NEW c \in [Vertices(g) -> 0..INT_MAX], NEW S,
         KnownIn(g, c, S), Settled(g, c, S), NEW m, Between(g, c, S, m)
  PROVE  \A k \in Nat : \A y \in Vertices(g) :
           IF y \in S THEN Dist(g, c, y) <= Within(g)[k][y] ELSE m <= Within(g)[k][y]
<1> DEFINE V == Vertices(g)
           W == Within(g)
           L(k) == \A y \in V : IF y \in S THEN Dist(g, c, y) <= W[k][y] ELSE m <= W[k][y]
           N == {k \in Nat : L(k)}
<1>1. /\ g.source \in V /\ INT_MAX \in Nat /\ S \in SUBSET V /\ g.source \in S
      /\ \A x \in V : Dist(g, c, x) \in 0..INT_MAX
      /\ m \in 0..INT_MAX /\ (\A x \in S : Dist(g, c, x) <= m) /\ (\A x \in V \ S : m <= c[x])
      /\ \A e \in Edge(g) : e.u \in V /\ e.v \in V /\ e.w \in Nat
  BY GraphFacts DEF KnownIn, Between, Dist
<1>2. /\ W \in [Nat -> [V -> Nat]]
      /\ \A x \in V : W[0][x] = IF x = g.source THEN 0 ELSE INT_MAX
      /\ \A k \in Nat : \A x \in V : W[k + 1][x] = Min(Through(g, W[k], x))
  BY WithinIs
<1> HIDE DEF V, W
<1>3. 0 \in N
  <2>1. \A y \in V : IF y \in S THEN Dist(g, c, y) <= W[0][y] ELSE m <= W[0][y]
    BY <1>1, <1>2 DEF Dist
  <2>2. QED BY <2>1
<1>4. ASSUME NEW k \in N PROVE k + 1 \in N
  <2>1. k \in Nat /\ k + 1 \in Nat /\ L(k) /\ W[k] \in [V -> Nat]
    BY <1>2
  <2>2. ASSUME NEW y \in V, NEW t \in Through(g, W[k], y)
        PROVE  IF y \in S THEN Dist(g, c, y) <= t ELSE m <= t
    <3>1. CASE t = W[k][y]
      BY <2>1, <3>1
    <3>2. CASE t # W[k][y]
      <4>1. PICK e \in Edge(g) : e.v = y /\ t = W[k][e.u] + e.w
        BY <2>2, <3>2 DEF Through
      <4>2. /\ e.u \in V /\ e.w \in Nat /\ W[k][e.u] \in Nat
            /\ IF e.u \in S THEN Dist(g, c, e.u) <= W[k][e.u] ELSE m <= W[k][e.u]
        BY <1>1, <2>1
      <4>3. CASE e.u \in S
        <5>1. Dist(g, c, y) <= Dist(g, c, e.u) + e.w
          BY <4>1, <4>3 DEF Settled
        <5>2. Dist(g, c, y) <= t
          BY <1>1, <4>1, <4>2, <4>3, <5>1
        <5>3. y \notin S => m <= Dist(g, c, y)
          BY <1>1 DEF Dist
        <5>4. QED BY <1>1, <4>1, <4>2, <5>2, <5>3
      <4>4. CASE e.u \notin S
        <5>1. m <= t
          BY <1>1, <4>1, <4>2, <4>4
        <5>2. QED BY <1>1, <4>1, <4>2, <5>1
      <4>5. QED BY <4>3, <4>4
    <3>3. QED BY <3>1, <3>2
  <2>3. ASSUME NEW y \in V PROVE W[k + 1][y] \in Through(g, W[k], y)
    <3>1. W[k + 1][y] = Min(Through(g, W[k], y))
      BY <1>2, <2>1
    <3>2. QED BY <2>1, <3>1, ThroughMin DEF V
  <2>4. L(k + 1)
    BY <2>2, <2>3
  <2>5. QED BY <2>1, <2>4
<1>5. N = Nat
  <2> HIDE DEF N
  <2>1. N \in SUBSET Nat
    BY DEF N
  <2>2. QED BY <1>3, <1>4, <2>1, Inductive
<1>6. QED BY <1>5 DEF V, W

\* A path that p leads back along is within its number of edges.
LEMMA PathIsWithin ==
  ASSUME NEW g \in Graphs, NEW c \in [Vertices(g) -> 0..INT_MAX], NEW S, KnownIn(g, c, S),
         NEW p, NEW r, Ranked(g, c, p, S, r)
  PROVE  \A k \in Nat : \A y \in Vertices(g) :
           /\ Reached(g, c, y) /\ r[y] <= k => Within(g)[k][y] <= Dist(g, c, y)
           /\ Within(g)[k][y] <= IF y = g.source THEN 0 ELSE INT_MAX
<1> DEFINE V == Vertices(g)
           W == Within(g)
           L(k) == \A y \in V :
             /\ Reached(g, c, y) /\ r[y] <= k => W[k][y] <= Dist(g, c, y)
             /\ W[k][y] <= IF y = g.source THEN 0 ELSE INT_MAX
           N == {k \in Nat : L(k)}
<1>1. /\ g.source \in V /\ INT_MAX \in Nat /\ S \in SUBSET V /\ g.n \in Nat
      /\ \A x \in V : Dist(g, c, x) \in 0..INT_MAX
      /\ \A e \in Edge(g) : e.u \in V /\ e.v \in V /\ e.w \in Nat
      /\ \A x \in V : r[x] \in 0..g.n-1
      /\ \A x \in S : Reached(g, c, x)
  BY GraphFacts DEF KnownIn, Dist, Ranked
<1>2. /\ W \in [Nat -> [V -> Nat]]
      /\ \A x \in V : W[0][x] = IF x = g.source THEN 0 ELSE INT_MAX
      /\ \A k \in Nat : \A x \in V : W[k + 1][x] = Min(Through(g, W[k], x))
  BY WithinIs
<1>3. \A y \in V \ {g.source} : c[y] < INT_MAX =>
        /\ p[y] \in S /\ r[p[y]] < r[y]
        /\ \E e \in Edge(g) : e.u = p[y] /\ e.v = y /\ c[y] = Dist(g, c, p[y]) + e.w
  BY DEF Ranked
<1> HIDE DEF V, W
<1>4. 0 \in N
  <2>1. \A y \in V : Reached(g, c, y) /\ r[y] <= 0 => y = g.source
    <3>1. SUFFICES ASSUME NEW y \in V, c[y] < INT_MAX, y # g.source, r[y] <= 0 PROVE FALSE
      BY DEF Reached
    <3>2. p[y] \in V /\ r[p[y]] < r[y]
      BY <1>1, <1>3, <3>1
    <3>3. QED BY <1>1, <3>1, <3>2
  <2>2. L(0)
    BY <1>1, <1>2, <2>1 DEF Dist
  <2>3. QED BY <2>2
<1>5. ASSUME NEW k \in N PROVE k + 1 \in N
  <2>1. k \in Nat /\ k + 1 \in Nat /\ L(k) /\ W[k] \in [V -> Nat] /\ W[k + 1] \in [V -> Nat]
    BY <1>2
  <2>2. ASSUME NEW y \in V, NEW t \in Through(g, W[k], y) PROVE W[k + 1][y] <= t
    <3>1. W[k + 1][y] = Min(Through(g, W[k], y))
      BY <1>2, <2>1
    <3>2. QED BY <2>1, <2>2, <3>1, ThroughMin DEF V
  <2>3. ASSUME NEW y \in V PROVE W[k + 1][y] <= W[k][y] /\ W[k + 1][y] \in Nat /\ W[k][y] \in Nat
    BY <2>1, <2>2 DEF Through
  <2>4. ASSUME NEW y \in V, Reached(g, c, y), r[y] <= k + 1 PROVE W[k + 1][y] <= Dist(g, c, y)
    <3>1. CASE r[y] <= k
      BY <1>1, <2>1, <2>3, <2>4, <3>1
    <3>2. CASE r[y] > k /\ y = g.source
      BY <1>1, <2>1, <2>3, <3>2 DEF Dist
    <3>3. CASE r[y] > k /\ y # g.source
      <4>1. c[y] < INT_MAX
        BY <2>4, <3>3 DEF Reached
      <4>2. PICK e \in Edge(g) : e.u = p[y] /\ e.v = y /\ c[y] = Dist(g, c, p[y]) + e.w
        BY <1>3, <3>3, <4>1
      <4>3. p[y] \in S /\ r[p[y]] < r[y]
        BY <1>3, <3>3, <4>1
      <4>4. p[y] \in V /\ r[p[y]] <= k /\ Reached(g, c, p[y])
        BY <1>1, <2>1, <2>4, <4>3
      <4>5. W[k][p[y]] <= Dist(g, c, p[y]) /\ W[k][p[y]] \in Nat
        BY <2>1, <4>4
      <4>6. W[k][p[y]] + e.w \in Through(g, W[k], y)
        BY <4>2 DEF Through
      <4>7. W[k + 1][y] <= W[k][p[y]] + e.w
        BY <2>2, <4>6
      <4>8. Dist(g, c, y) = c[y] /\ e.w \in Nat
        BY <1>1, <3>3 DEF Dist
      <4>9. QED BY <1>1, <2>3, <4>2, <4>4, <4>5, <4>7, <4>8
    <3>4. QED BY <1>1, <2>1, <3>1, <3>2, <3>3
  <2>5. L(k + 1)
    BY <1>1, <2>1, <2>3, <2>4
  <2>6. QED BY <2>1, <2>5
<1>6. N = Nat
  <2> HIDE DEF N
  <2>1. N \in SUBSET Nat
    BY DEF N
  <2>2. QED BY <1>4, <1>5, <2>1, Inductive
<1>7. QED BY <1>6 DEF V, W

\* No cost is more than the heaviest edge for every edge of the path.
LEMMA CostBound ==
  ASSUME NEW g \in Graphs, NEW c \in [Vertices(g) -> 0..INT_MAX], NEW S, KnownIn(g, c, S),
         NEW p, NEW r, Ranked(g, c, p, S, r),
         NEW most \in Nat, \A e \in Edge(g) : e.w <= most
  PROVE  \A k \in Nat : \A y \in Vertices(g) :
           Reached(g, c, y) /\ r[y] <= k => Dist(g, c, y) <= k * most
<1> DEFINE V == Vertices(g)
           L(k) == \A y \in V : Reached(g, c, y) /\ r[y] <= k => Dist(g, c, y) <= k * most
           N == {k \in Nat : L(k)}
<1>1. /\ g.source \in V /\ INT_MAX \in Nat /\ S \in SUBSET V
      /\ \A x \in V : Dist(g, c, x) \in 0..INT_MAX
      /\ \A e \in Edge(g) : e.u \in V /\ e.v \in V /\ e.w \in Nat
      /\ \A x \in V : r[x] \in 0..g.n-1
      /\ \A x \in S : Reached(g, c, x)
      /\ g.n \in Nat
  BY GraphFacts DEF KnownIn, Dist, Ranked
<1>2. \A y \in V \ {g.source} : c[y] < INT_MAX =>
        /\ p[y] \in S /\ r[p[y]] < r[y]
        /\ \E e \in Edge(g) : e.u = p[y] /\ e.v = y /\ c[y] = Dist(g, c, p[y]) + e.w
  BY DEF Ranked
<1>3. \A k \in Nat : k * most \in Nat /\ k * most + most <= (k + 1) * most
  <2> SUFFICES ASSUME NEW k \in Nat PROVE k * most \in Nat /\ k * most + most <= (k + 1) * most
    OBVIOUS
  <2>1. k + 1 \in Nat /\ k < k + 1
    OBVIOUS
  <2>2. QED BY <2>1, Times
<1> DEFINE T == [k \in Nat |-> k * most]
<1>4. T \in [Nat -> Nat] /\ \A k \in Nat : T[k] = k * most /\ T[k] + most <= T[k + 1]
  BY <1>3
<1> HIDE DEF T, V
<1>5. 0 \in N
  <2>1. ASSUME NEW y \in V, Reached(g, c, y), r[y] <= 0 PROVE Dist(g, c, y) <= 0 * most
    <3>1. y = g.source
      <4>1. SUFFICES ASSUME c[y] < INT_MAX, y # g.source PROVE FALSE
        BY <2>1 DEF Reached
      <4>2. p[y] \in V /\ r[p[y]] < r[y]
        BY <1>1, <1>2, <4>1
      <4>3. QED BY <1>1, <2>1, <4>2
    <3>2. 0 * most = 0
      OBVIOUS
    <3>3. QED BY <3>1, <3>2 DEF Dist
  <2>2. QED BY <2>1
<1>6. ASSUME NEW k \in N PROVE k + 1 \in N
  <2>1. k \in Nat /\ k + 1 \in Nat /\ L(k)
    OBVIOUS
  <2>2. \A y \in V : Reached(g, c, y) /\ r[y] <= k => Dist(g, c, y) <= T[k]
    BY <1>4, <2>1
  <2>3. T[k] \in Nat /\ T[k + 1] \in Nat /\ T[k] + most <= T[k + 1]
    BY <1>4, <2>1
  <2>4. ASSUME NEW y \in V, Reached(g, c, y), r[y] <= k + 1 PROVE Dist(g, c, y) <= T[k + 1]
    <3>1. CASE y = g.source
      BY <2>3, <3>1 DEF Dist
    <3>2. CASE y # g.source
      <4>1. c[y] < INT_MAX
        BY <2>4, <3>2 DEF Reached
      <4>2. PICK e \in Edge(g) : e.u = p[y] /\ e.v = y /\ c[y] = Dist(g, c, p[y]) + e.w
        BY <1>2, <3>2, <4>1
      <4>3. p[y] \in S /\ r[p[y]] < r[y]
        BY <1>2, <3>2, <4>1
      <4>4. p[y] \in V /\ r[p[y]] <= k /\ Reached(g, c, p[y])
        BY <1>1, <2>1, <2>4, <4>3
      <4>5. Dist(g, c, p[y]) <= T[k] /\ Dist(g, c, p[y]) \in 0..INT_MAX
        BY <1>1, <2>2, <4>4
      <4>6. Dist(g, c, y) = c[y] /\ e.w \in Nat /\ e.w <= most
        BY <1>1, <3>2 DEF Dist
      <4>7. QED BY <1>1, <2>3, <4>2, <4>5, <4>6
    <3>3. QED BY <3>1, <3>2
  <2>5. T[k + 1] = (k + 1) * most
    BY <1>4, <2>1
  <2>6. L(k + 1)
    BY <2>4, <2>5
  <2>7. QED BY <2>1, <2>6
<1>7. N = Nat
  <2> HIDE DEF N
  <2>1. N \in SUBSET Nat
    BY DEF N
  <2>2. QED BY <1>5, <1>6, <2>1, Inductive
<1>8. QED BY <1>7 DEF V

-----------------------------------------------------------------------------
(* One more vertex is used.                                                *)

LEMMA UsedOnes ==
  ASSUME NEW g \in Graphs, NEW S \in SUBSET Vertices(g)
  PROVE  /\ IsFiniteSet(S) /\ Cardinality(S) \in Nat /\ Cardinality(S) <= g.n
         /\ \A x \in Vertices(g) \ S : /\ Cardinality(S \cup {x}) = Cardinality(S) + 1
                                       /\ Cardinality(S) + 1 <= g.n
         /\ Cardinality(S) = g.n => S = Vertices(g)
<1>1. g.n \in Nat \ {0}
  BY GraphFacts
<1>2. IsFiniteSet(Vertices(g)) /\ Cardinality(Vertices(g)) = g.n
  <2>0. 0 \in Int /\ g.n - 1 \in Int
    BY <1>1
  <2>1. IsFiniteSet(0..g.n-1) /\ Cardinality(0..g.n-1) = IF 0 > g.n-1 THEN 0 ELSE (g.n-1) - 0 + 1
    BY <2>0, FS_Interval
  <2>2. QED BY <1>1, <2>1 DEF Vertices
<1>3. \A T \in SUBSET Vertices(g) :
        IsFiniteSet(T) /\ Cardinality(T) \in Nat /\ Cardinality(T) <= g.n
  BY <1>2, FS_Subset, FS_CardinalityType
<1>4. ASSUME NEW x \in Vertices(g) \ S
      PROVE  Cardinality(S \cup {x}) = Cardinality(S) + 1 /\ Cardinality(S) + 1 <= g.n
  <2>1. Cardinality(S \cup {x}) = Cardinality(S) + 1
    BY <1>3, <1>4, FS_AddElement
  <2>2. S \cup {x} \in SUBSET Vertices(g)
    BY <1>4
  <2>3. QED BY <1>3, <2>1, <2>2
<1>5. ASSUME Cardinality(S) = g.n PROVE S = Vertices(g)
  <2>1. SUFFICES ASSUME NEW x \in Vertices(g) \ S PROVE FALSE
    OBVIOUS
  <2>2. g.n + 1 <= g.n
    BY <1>4, <1>5, <2>1
  <2>3. QED BY <1>1, <2>2
<1>6. QED BY <1>3, <1>4, <1>5

\* No path becomes too long by one more edge.
LEMMA StillShort ==
  ASSUME NEW g \in Graphs, NEW c \in [Vertices(g) -> 0..INT_MAX], NEW S, KnownIn(g, c, S),
         NEW p, NEW r, Ranked(g, c, p, S, r),
         NEW x \in Vertices(g) \ S, c[x] < INT_MAX,
         NEW e \in Edge(g), e.v \notin S \cup {x}
  PROVE  c[x] + e.w < INT_MAX
<1> DEFINE k == Cardinality(S)
<1>1. PICK most \in 0..INT_MAX :
        (g.n - 1) * most < INT_MAX /\ \A q \in DOMAIN g.edges : g.edges[q].w <= most
  BY GraphsAssumption
<1>2. /\ INT_MAX \in Nat /\ most \in Nat /\ \A d \in Edge(g) : d.w <= most
      /\ \A d \in Edge(g) : d.u \in Vertices(g) /\ d.v \in Vertices(g) /\ d.w \in Nat
      /\ g.n \in Nat /\ S \in SUBSET Vertices(g) /\ g.source \in S
  <2>1. INT_MAX \in Nat
    BY GraphFacts
  <2>2. DOMAIN g.edges = 1..Len(g.edges)
    BY GraphFacts
  <2>3. \A d \in Edge(g) : d.w <= most
    <3> SUFFICES ASSUME NEW d \in Edge(g) PROVE d.w <= most
      OBVIOUS
    <3>1. PICK q \in 1..Len(g.edges) : d = g.edges[q]
      BY GraphFacts
    <3>2. QED BY <1>1, <2>2, <3>1
  <2>4. \A d \in Edge(g) : d.u \in Vertices(g) /\ d.v \in Vertices(g) /\ d.w \in Nat
    BY GraphFacts
  <2>5. g.n \in Nat /\ S \in SUBSET Vertices(g) /\ g.source \in S
    BY GraphFacts DEF KnownIn
  <2>6. QED BY <2>1, <2>3, <2>4, <2>5
<1>3. k \in Nat /\ k + 2 <= g.n
  <2>1. S \cup {x} \in SUBSET Vertices(g) /\ e.v \in Vertices(g) \ (S \cup {x})
    BY <1>2
  <2>2. k \in Nat /\ Cardinality(S \cup {x}) = k + 1
    BY <1>2, UsedOnes
  <2>3. Cardinality(S \cup {x}) + 1 <= g.n
    BY <2>1, UsedOnes
  <2>4. QED BY <1>2, <2>2, <2>3
<1>4. PICK d \in Edge(g) : d.u = p[x] /\ d.v = x /\ c[x] = Dist(g, c, p[x]) + d.w
  BY <1>2 DEF Ranked
<1>5. p[x] \in S /\ r[p[x]] < k /\ r[p[x]] \in Nat
  BY <1>2 DEF Ranked
<1> DEFINE j == r[p[x]]
<1>6. Dist(g, c, p[x]) <= j * most
  <2>1. Reached(g, c, p[x])
    BY <1>5 DEF KnownIn
  <2>2. QED BY <1>2, <1>5, <2>1, CostBound
<1> HIDE DEF j, k
<1>7. j \in Nat /\ k \in Nat /\ j < k
  BY <1>3, <1>5 DEF j
<1>8. j * most \in Nat /\ k * most \in Nat /\ j * most + most <= k * most
  BY <1>2, <1>7, Times
<1>9. (k + 1) * most \in Nat /\ k * most + most <= (k + 1) * most
  <2>1. k + 1 \in Nat /\ k < k + 1
    BY <1>7
  <2>2. QED BY <1>2, <1>7, <2>1, Times
<1>10. (k + 1) * most <= (g.n - 1) * most /\ (g.n - 1) * most \in Nat
  <2>1. k + 1 \in Nat /\ g.n - 1 \in Nat /\ k + 1 <= g.n - 1
    BY <1>2, <1>3
  <2>2. QED BY <1>2, <2>1, Times
<1>11. d.w <= most /\ e.w <= most /\ d.w \in Nat /\ e.w \in Nat /\ Dist(g, c, p[x]) \in Nat
  BY <1>2, <1>5 DEF Dist
<1> DEFINE a1 == j * most
           a2 == k * most
           a3 == (k + 1) * most
           a4 == (g.n - 1) * most
           a5 == Dist(g, c, p[x])
<1>12. /\ a5 <= a1 /\ a1 + most <= a2 /\ a2 + most <= a3 /\ a3 <= a4 /\ a4 < INT_MAX /\ c[x] = a5 + d.w
       /\ a1 \in Nat /\ a2 \in Nat /\ a3 \in Nat /\ a4 \in Nat /\ a5 \in Nat
  BY <1>1, <1>4, <1>6, <1>8, <1>9, <1>10, <1>11
<1> HIDE DEF a1, a2, a3, a4, a5
<1>13. QED BY <1>2, <1>11, <1>12

\* The costs of the vertices that x leads to are better, where that is shorter.
Improved(g, c, p, S, x, c2, p2) ==
  /\ \A y \in S \cup {x} : c2[y] = c[y] /\ p2[y] = p[y]
  /\ \A y \in Vertices(g) \ (S \cup {x}) :
       \/ c2[y] = c[y] /\ p2[y] = p[y]
       \/ /\ p2[y] = x /\ c2[y] < c[y]
          /\ \E e \in Edge(g) : e.u = x /\ e.v = y /\ c2[y] = c[x] + e.w
  /\ \A e \in Edge(g) : e.u = x /\ e.v \notin S \cup {x} => c2[e.v] <= c[x] + e.w

LEMMA UseVertex ==
  ASSUME NEW g \in Graphs, NEW c \in [Vertices(g) -> 0..INT_MAX], NEW S, KnownIn(g, c, S),
         NEW p, NEW r, Ranked(g, c, p, S, r), Settled(g, c, S),
         NEW m, Between(g, c, S, m),
         NEW x \in Vertices(g) \ S, c[x] < INT_MAX, \A y \in Vertices(g) \ S : c[x] <= c[y],
         NEW c2 \in [Vertices(g) -> 0..INT_MAX], NEW p2, Improved(g, c, p, S, x, c2, p2)
  PROVE  /\ KnownIn(g, c2, S \cup {x})
         /\ Settled(g, c2, S \cup {x})
         /\ \E r2 : Ranked(g, c2, p2, S \cup {x}, r2)
         /\ Between(g, c2, S \cup {x}, c[x])
<1> DEFINE V == Vertices(g)
           T == S \cup {x}
<1>1. /\ INT_MAX \in Nat /\ g.n \in Nat \ {0} /\ g.source \in S /\ S \in SUBSET V /\ x # g.source
      /\ T \in SUBSET V /\ x \in V
      /\ \A y \in V : c[y] \in 0..INT_MAX /\ c2[y] \in 0..INT_MAX
      /\ \A e \in Edge(g) : e.u \in V /\ e.v \in V /\ e.w \in Nat
      /\ \A y \in S : Reached(g, c, y)
  BY GraphFacts DEF KnownIn
<1>2. /\ \A y \in T : c2[y] = c[y] /\ p2[y] = p[y]
      /\ \A y \in V \ T :
           \/ c2[y] = c[y] /\ p2[y] = p[y]
           \/ /\ p2[y] = x /\ c2[y] < c[y]
              /\ \E e \in Edge(g) : e.u = x /\ e.v = y /\ c2[y] = c[x] + e.w
      /\ \A e \in Edge(g) : e.u = x /\ e.v \notin T => c2[e.v] <= c[x] + e.w
  BY DEF Improved
<1>3. /\ \A y \in T : Dist(g, c2, y) = Dist(g, c, y)
      /\ \A y \in V : Dist(g, c2, y) <= Dist(g, c, y) /\ Dist(g, c, y) \in 0..INT_MAX
                      /\ Dist(g, c2, y) \in 0..INT_MAX
      /\ Dist(g, c, x) = c[x]
      /\ \A y \in V : Reached(g, c, y) => Reached(g, c2, y)
  <2> HIDE DEF V
  <2>1. \A y \in V : c2[y] <= c[y]
    BY <1>1, <1>2
  <2>2. QED BY <1>1, <1>2, <2>1 DEF Dist, Reached
<1>4. KnownIn(g, c2, T)
  <2>1. Reached(g, c, x)
    BY DEF Reached
  <2>2. QED BY <1>1, <1>3, <2>1 DEF KnownIn
<1>5. \A y \in S : Dist(g, c, y) <= c[x]
  <2>1. m \in 0..INT_MAX /\ (\A y \in S : Dist(g, c, y) <= m) /\ m <= c[x]
    BY DEF Between
  <2>2. QED BY <1>1, <1>3, <2>1
<1>6. Settled(g, c2, T)
  <2> SUFFICES ASSUME NEW e \in Edge(g), e.u \in T
               PROVE  Reached(g, c2, e.v) /\ Dist(g, c2, e.v) <= Dist(g, c2, e.u) + e.w
    BY DEF Settled
  <2>0. e.u \in V /\ e.v \in V /\ e.w \in Nat
    BY <1>1
  <2>1. CASE e.u \in S
    <3>1. Reached(g, c, e.v) /\ Dist(g, c, e.v) <= Dist(g, c, e.u) + e.w
      BY <2>1 DEF Settled
    <3>2. Dist(g, c2, e.u) = Dist(g, c, e.u) /\ Dist(g, c2, e.v) <= Dist(g, c, e.v)
      BY <1>3, <2>0, <2>1
    <3>3. QED BY <1>1, <1>3, <2>0, <3>1, <3>2
  <2>2. CASE e.u = x /\ e.v \in T
    <3>1. Dist(g, c2, e.u) = c[x] /\ Dist(g, c2, e.v) = Dist(g, c, e.v) /\ Dist(g, c, e.v) <= c[x]
      BY <1>1, <1>3, <1>5, <2>2
    <3>2. Reached(g, c2, e.v)
      BY <1>4, <2>2 DEF KnownIn
    <3>3. QED BY <1>1, <1>3, <2>0, <3>1, <3>2
  <2>3. CASE e.u = x /\ e.v \notin T
    <3>1. c2[e.v] <= c[x] + e.w
      BY <1>2, <2>3
    <3>2. c[x] + e.w < INT_MAX
      BY <2>3, StillShort
    <3>3. e.v # g.source /\ Dist(g, c2, e.v) = c2[e.v] /\ Dist(g, c2, e.u) = c[x]
      BY <1>1, <1>3, <2>3 DEF Dist
    <3>4. c2[e.v] < INT_MAX
      BY <1>1, <2>0, <3>1, <3>2
    <3>5. QED BY <3>1, <3>3, <3>4 DEF Reached
  <2>4. QED BY <2>1, <2>2, <2>3
<1>7. Between(g, c2, T, c[x])
  <2>1. \A y \in V \ T : c[x] <= c2[y]
    <3> SUFFICES ASSUME NEW y \in V \ T PROVE c[x] <= c2[y]
      OBVIOUS
    <3>1. c[x] <= c[y]
      OBVIOUS
    <3>2. QED BY <1>1, <1>2, <3>1
  <2>2. \A y \in T : Dist(g, c2, y) <= c[x]
    BY <1>1, <1>3, <1>5
  <2>3. QED BY <1>1, <2>1, <2>2 DEF Between
<1> DEFINE k == Cardinality(S)
           r2 == [y \in V |-> IF y \in S THEN r[y] ELSE IF y = x THEN k ELSE k + 1]
<1>8. k \in Nat /\ k + 1 <= g.n /\ Cardinality(T) = k + 1 /\ \A y \in V \ T : k + 2 <= g.n
  <2>1. k \in Nat /\ k + 1 <= g.n /\ Cardinality(T) = k + 1
    BY <1>1, UsedOnes
  <2>2. \A y \in V \ T : Cardinality(T) + 1 <= g.n
    <3> HIDE DEF T
    <3> QED BY <1>1, UsedOnes
  <2>3. \A y \in V \ T : k + 2 <= g.n
    <3> SUFFICES ASSUME NEW y \in V \ T PROVE k + 2 <= g.n
      OBVIOUS
    <3>1. Cardinality(T) + 1 <= g.n
      BY <2>2
    <3> HIDE DEF T, k
    <3>2. QED BY <1>1, <2>1, <3>1
  <2>4. QED BY <2>1, <2>3
<1>9. /\ r \in [V -> 0..g.n-1] /\ r[g.source] = 0 /\ \A y \in S : r[y] < k
      /\ \A y \in V \ {g.source} : c[y] < INT_MAX =>
           /\ p[y] \in S /\ r[p[y]] < r[y]
           /\ \E e \in Edge(g) : e.u = p[y] /\ e.v = y /\ c[y] = Dist(g, c, p[y]) + e.w
  BY DEF Ranked
<1> HIDE DEF k
<1>10. Ranked(g, c2, p2, T, r2)
  <2>1. r2 \in [V -> 0..g.n-1]
    <3>1. \A y \in V : (IF y \in S THEN r[y] ELSE IF y = x THEN k ELSE k + 1) \in 0..g.n-1
      BY <1>1, <1>8, <1>9
    <3>2. QED BY <3>1
  <2>2. r2[g.source] = 0
    BY <1>1, <1>9
  <2>3. \A y \in T : r2[y] < Cardinality(T) /\ r2[y] <= k /\ r2[y] \in Nat
    BY <1>1, <1>8, <1>9
  <2>4. ASSUME NEW y \in V \ {g.source}, c2[y] < INT_MAX
        PROVE  /\ p2[y] \in T /\ r2[p2[y]] < r2[y]
               /\ \E e \in Edge(g) : e.u = p2[y] /\ e.v = y /\ c2[y] = Dist(g, c2, p2[y]) + e.w
    <3>1. CASE y \in T
      <4>1. c2[y] = c[y] /\ p2[y] = p[y] /\ c[y] < INT_MAX
        BY <1>2, <2>4, <3>1
      <4>2. p[y] \in S /\ r[p[y]] < r[y] /\ r[p[y]] < k
        BY <1>9, <4>1
      <4>3. PICK e \in Edge(g) : e.u = p[y] /\ e.v = y /\ c[y] = Dist(g, c, p[y]) + e.w
        BY <1>9, <4>1
      <4>4. Dist(g, c2, p2[y]) = Dist(g, c, p[y])
        BY <1>3, <4>1, <4>2
      <4>5. r2[p[y]] = r[p[y]]
        BY <1>1, <4>2
      <4>6. r2[y] = IF y \in S THEN r[y] ELSE k
        BY <1>1, <3>1
      <4>7. QED BY <4>1, <4>2, <4>3, <4>4, <4>5, <4>6
    <3>2. CASE y \notin T /\ c2[y] = c[y] /\ p2[y] = p[y]
      <4>1. p[y] \in S
        BY <1>9, <2>4, <3>2
      <4>2. PICK e \in Edge(g) : e.u = p[y] /\ e.v = y /\ c[y] = Dist(g, c, p[y]) + e.w
        BY <1>9, <2>4, <3>2
      <4>3. Dist(g, c2, p2[y]) = Dist(g, c, p[y])
        BY <1>3, <3>2, <4>1
      <4>4. r2[y] = k + 1 /\ r2[p[y]] <= k /\ r2[p[y]] \in Nat
        BY <2>3, <3>2, <4>1
      <4>5. QED BY <1>8, <3>2, <4>1, <4>2, <4>3, <4>4
    <3>3. CASE y \notin T /\ p2[y] = x
      <4>1. CASE c2[y] = c[y] /\ p2[y] = p[y]
        BY <3>2, <3>3, <4>1
      <4>2. CASE ~ (c2[y] = c[y] /\ p2[y] = p[y])
        <5>1. PICK e \in Edge(g) : e.u = x /\ e.v = y /\ c2[y] = c[x] + e.w
          BY <1>2, <3>3, <4>2
        <5>2. Dist(g, c2, x) = c[x]
          BY <1>3
        <5>3. r2[y] = k + 1 /\ r2[x] <= k /\ r2[x] \in Nat
          BY <2>3, <3>3
        <5>4. QED BY <1>8, <3>3, <5>1, <5>2, <5>3
      <4>3. QED BY <4>1, <4>2
    <3>4. QED BY <1>2, <3>1, <3>2, <3>3
  <2> HIDE DEF r2
  <2>5. QED BY <2>1, <2>2, <2>3, <2>4 DEF Ranked
<1>11. QED BY <1>4, <1>6, <1>7, <1>10

-----------------------------------------------------------------------------
(* The start.                                                              *)

\* Only the edges of the source were considered.
Begun(g, c, p) ==
  /\ \A y \in Vertices(g) : c[y] < INT_MAX =>
       p[y] = g.source \/ y = g.source
  /\ \A y \in Vertices(g) : c[y] < INT_MAX =>
       \E e \in Edge(g) : e.u = g.source /\ e.v = y /\ c[y] = e.w
  /\ \A e \in Edge(g) : e.u = g.source => c[e.v] = e.w

LEMMA StartIsRight ==
  ASSUME NEW g \in Graphs, NEW c \in [Vertices(g) -> 0..INT_MAX], NEW p, Begun(g, c, p)
  PROVE  /\ KnownIn(g, c, {g.source})
         /\ Settled(g, c, {g.source})
         /\ \E r : Ranked(g, c, p, {g.source}, r)
         /\ Between(g, c, {g.source}, 0)
<1> DEFINE V == Vertices(g)
           r == [y \in V |-> IF y = g.source THEN 0 ELSE 1]
<1>1. /\ INT_MAX \in Nat \ {0} /\ g.n \in Nat \ {0} /\ g.source \in V
      /\ \A y \in V : y \in Nat /\ y <= g.n - 1
      /\ \A y \in V : c[y] \in 0..INT_MAX
      /\ \A e \in Edge(g) : e \in Edges(g) /\ e.u \in V /\ e.v \in V /\ e.w \in Nat
  BY GraphFacts
<1>2. \A e \in Edge(g) : e.w < INT_MAX
  BY <1>1 DEF Edges
<1>3. KnownIn(g, c, {g.source})
  BY <1>1 DEF KnownIn, Reached
<1>4. Settled(g, c, {g.source})
  <2> SUFFICES ASSUME NEW e \in Edge(g), e.u = g.source
               PROVE  Reached(g, c, e.v) /\ Dist(g, c, e.v) <= Dist(g, c, e.u) + e.w
    BY DEF Settled
  <2>1. c[e.v] = e.w
    BY DEF Begun
  <2>2. QED BY <1>1, <1>2, <2>1 DEF Reached, Dist
<1>5. Between(g, c, {g.source}, 0)
  BY <1>1 DEF Between, Dist
<1>6. Cardinality({g.source}) = 1
  BY FS_Singleton
<1>7. Ranked(g, c, p, {g.source}, r)
  <2>1. r \in [V -> 0..g.n-1]
    <3>1. \A y \in V : y # g.source => 1 <= g.n - 1
      BY <1>1
    <3>2. \A y \in V : (IF y = g.source THEN 0 ELSE 1) \in 0..g.n-1
      BY <1>1, <3>1
    <3>3. QED BY <3>2
  <2>2. r[g.source] = 0
    BY <1>1
  <2>3. \A y \in V \ {g.source} : c[y] < INT_MAX =>
          /\ p[y] \in {g.source} /\ r[p[y]] < r[y]
          /\ \E e \in Edge(g) : e.u = p[y] /\ e.v = y /\ c[y] = Dist(g, c, p[y]) + e.w
    <3> SUFFICES ASSUME NEW y \in V \ {g.source}, c[y] < INT_MAX
                 PROVE  /\ p[y] \in {g.source} /\ r[p[y]] < r[y]
                        /\ \E e \in Edge(g) : e.u = p[y] /\ e.v = y /\ c[y] = Dist(g, c, p[y]) + e.w
      OBVIOUS
    <3>1. p[y] = g.source
      BY DEF Begun
    <3>2. PICK e \in Edge(g) : e.u = g.source /\ e.v = y /\ c[y] = e.w
      BY DEF Begun
    <3>3. Dist(g, c, p[y]) = 0 /\ e.w \in Nat
      BY <1>1, <3>1 DEF Dist
    <3>4. r[p[y]] < r[y]
      BY <1>1, <3>1
    <3>5. QED BY <3>1, <3>2, <3>3, <3>4
  <2> HIDE DEF r
  <2>4. QED BY <1>6, <2>1, <2>2, <2>3 DEF Ranked
<1>8. QED BY <1>3, <1>4, <1>5, <1>7

-----------------------------------------------------------------------------
(* The turn over the edges of the source.                                  *)

Nothing(g) == [cost |-> [x \in Vertices(g) |-> INT_MAX], pre |-> [x \in Vertices(g) |-> x],
               assi |-> <<>>]

Turns(g) == [cost : [Vertices(g) -> 0..INT_MAX], pre : [Vertices(g) -> -1..g.n-1],
             assi : Seq(Vertices(g))]

\* What the turns make of r, the k-th of them from the k-th edge.
StartedAfter(g) ==
  CHOOSE f : f = [k \in 0..Len(g.edges) |->
    IF k = 0 THEN Nothing(g) ELSE Started(g, f[k - 1], g.edges[k])]

LEMMA FromSourceIs ==
  ASSUME NEW g \in Graphs
  PROVE  FromSource(g) = StartedAfter(g)[Len(g.edges)]
BY DEF FromSource, OverEdges, StartedAfter, Nothing

LEMMA StartedType ==
  ASSUME NEW g \in Graphs, NEW r \in Turns(g), NEW e \in Edge(g)
  PROVE  Started(g, r, e) \in Turns(g)
<1>1. e \in Edges(g) /\ e.u \in Vertices(g) /\ e.v \in Vertices(g) /\ g.n \in Nat \ {0} /\ INT_MAX \in Nat
  BY GraphFacts
<1>2. e.w \in 0..INT_MAX /\ e.u \in -1..g.n-1
  BY <1>1 DEF Edges, Vertices
<1>3. CASE e.u # g.source
  BY <1>3 DEF Started
<1>4. CASE e.u = g.source
  <2> DEFINE c == [r.cost EXCEPT ![e.v] = e.w]
             p == [r.pre EXCEPT ![e.v] = e.u]
             a == Append(r.assi, e.v)
  <2>1. Started(g, r, e) = [r EXCEPT !.cost = c, !.pre = p, !.assi = a]
    BY <1>4 DEF Started
  <2>2. r.cost \in [Vertices(g) -> 0..INT_MAX] /\ r.pre \in [Vertices(g) -> -1..g.n-1]
        /\ r.assi \in Seq(Vertices(g))
    BY DEF Turns
  <2>3. c \in [Vertices(g) -> 0..INT_MAX] /\ p \in [Vertices(g) -> -1..g.n-1]
        /\ a \in Seq(Vertices(g))
    BY <1>1, <1>2, <2>2
  <2> HIDE DEF c, p, a
  <2>4. QED BY <2>1, <2>3 DEF Turns
<1>5. QED BY <1>3, <1>4

LEMMA StartedAfterIs ==
  ASSUME NEW g \in Graphs
  PROVE  /\ \A k \in 0..Len(g.edges) : StartedAfter(g)[k] \in Turns(g)
         /\ StartedAfter(g)[0] = Nothing(g)
         /\ \A k \in 1..Len(g.edges) :
              StartedAfter(g)[k] = Started(g, StartedAfter(g)[k - 1], g.edges[k])
<1> DEFINE n == Len(g.edges)
           A == Turns(g)
           step == [k \in 1..n |-> [r \in A |-> Started(g, r, g.edges[k])]]
           Is(f) == f = [k \in 0..n |->
             IF k = 0 THEN Nothing(g) ELSE Started(g, f[k - 1], g.edges[k])]
<1>1. n \in Nat /\ \A k \in 1..n : g.edges[k] \in Edge(g)
  BY GraphFacts
<1>2. Nothing(g) \in A
  <2>1. g.n \in Nat /\ INT_MAX \in Nat /\ \A x \in Vertices(g) : x \in -1..g.n-1
    BY GraphFacts
  <2>2. <<>> \in Seq(Vertices(g))
    OBVIOUS
  <2>3. [x \in Vertices(g) |-> INT_MAX] \in [Vertices(g) -> 0..INT_MAX]
    BY <2>1
  <2>4. [x \in Vertices(g) |-> x] \in [Vertices(g) -> -1..g.n-1]
    BY <2>1
  <2>5. QED BY <2>2, <2>3, <2>4 DEF Nothing, Turns
<1>3. step \in [1..n -> [A -> A]]
  <2>1. \A k \in 1..n : \A r \in A : Started(g, r, g.edges[k]) \in A
    BY <1>1, StartedType
  <2>2. QED BY <2>1
<1>4. PICK f : Steps(f, n, A, Nothing(g), step)
  <2> HIDE DEF n, A, step
  <2> QED BY <1>1, <1>2, <1>3, StepsExist
<1>5. f \in [0..n -> A] /\ f[0] = Nothing(g) /\ \A k \in 1..n : f[k] = step[k][f[k - 1]]
  BY <1>4 DEF Steps
<1>6. \A k \in 0..n : k # 0 => k \in 1..n /\ k - 1 \in 0..n
  BY <1>1
<1>7. \A k \in 1..n : f[k] = Started(g, f[k - 1], g.edges[k])
  <2> SUFFICES ASSUME NEW k \in 1..n PROVE f[k] = Started(g, f[k - 1], g.edges[k])
    OBVIOUS
  <2>1. k - 1 \in 0..n
    BY <1>1
  <2>2. f[k - 1] \in A
    BY <1>5, <2>1
  <2>3. step[k][f[k - 1]] = Started(g, f[k - 1], g.edges[k])
    <3> HIDE DEF A
    <3> QED BY <2>2
  <2>4. f[k] = step[k][f[k - 1]]
    BY <1>5
  <2>5. QED BY <2>3, <2>4
<1>8. Is(f)
  <2> HIDE DEF A, step
  <2>1. f = [k \in 0..n |-> f[k]]
    BY <1>5
  <2>2. \A k \in 0..n : f[k] = IF k = 0 THEN Nothing(g) ELSE Started(g, f[k - 1], g.edges[k])
    BY <1>5, <1>6, <1>7
  <2>3. QED BY <2>1, <2>2
<1>9. StartedAfter(g) = CHOOSE k : Is(k)
  BY DEF StartedAfter
<1>10. Is(StartedAfter(g))
  <2> HIDE DEF Is
  <2> QED BY <1>8, <1>9
<1> DEFINE F == StartedAfter(g)
<1>11. F = [k \in 0..n |-> IF k = 0 THEN Nothing(g) ELSE Started(g, F[k - 1], g.edges[k])]
  BY <1>10
<1> HIDE DEF F
<1>12. F[0] = Nothing(g) /\ \A k \in 1..n : F[k] = Started(g, F[k - 1], g.edges[k])
  <2>1. 0 \in 0..n /\ \A k \in 1..n : k \in 0..n /\ k # 0
    BY <1>1
  <2> HIDE DEF n
  <2>2. F[0] = Nothing(g)
    BY <1>11, <2>1
  <2>3. ASSUME NEW k \in 1..n PROVE F[k] = Started(g, F[k - 1], g.edges[k])
    BY <1>11, <2>1
  <2>4. QED BY <2>2, <2>3
<1>13. \A k \in 0..n : F[k] \in A
  <2> DEFINE S == {k \in Nat : k <= n => F[k] \in A}
  <2>1. 0 \in S
    BY <1>2, <1>12
  <2>2. ASSUME NEW k \in S PROVE k + 1 \in S
    <3>1. SUFFICES ASSUME k + 1 <= n PROVE F[k + 1] \in A
      OBVIOUS
    <3>2. k \in Nat /\ k + 1 \in 1..n /\ (k + 1) - 1 = k /\ k <= n
      BY <1>1, <3>1
    <3>3. F[k] \in A
      BY <3>2
    <3>4. F[k + 1] = Started(g, F[k], g.edges[k + 1])
      BY <1>12, <3>2
    <3>5. g.edges[k + 1] \in Edge(g)
      BY <1>1, <3>2
    <3>6. QED BY <3>3, <3>4, <3>5, StartedType
  <2>3. S = Nat
    <3> HIDE DEF S
    <3>1. S \in SUBSET Nat
      BY DEF S
    <3>2. QED BY <2>1, <2>2, <3>1, Inductive
  <2>4. \A k \in 0..n : k \in Nat /\ k <= n
    BY <1>1
  <2>5. QED BY <2>3, <2>4
<1>14. QED BY <1>12, <1>13 DEF F

LEMMA FromSourceBegins ==
  ASSUME NEW g \in Graphs
  PROVE  /\ FromSource(g) \in Turns(g)
         /\ Begun(g, FromSource(g).cost, FromSource(g).pre)
         /\ \A y \in Vertices(g) : y \in ToSet(FromSource(g).assi) <=> FromSource(g).cost[y] < INT_MAX
<1> DEFINE n == Len(g.edges)
           V == Vertices(g)
           F == StartedAfter(g)
           E(j) == g.edges[j]
           Backed(k) == \A y \in V : F[k].cost[y] < INT_MAX =>
             /\ F[k].pre[y] = g.source
             /\ \E j \in 1..k : E(j).u = g.source /\ E(j).v = y /\ E(j).w = F[k].cost[y]
           Taken(k) == \A j \in 1..k : E(j).u = g.source => F[k].cost[E(j).v] = E(j).w
           Listed(k) == \A y \in V : y \in ToSet(F[k].assi) <=> F[k].cost[y] < INT_MAX
           S == {k \in Nat : k <= n => Backed(k) /\ Taken(k) /\ Listed(k)}
<1>1. /\ n \in Nat /\ INT_MAX \in Nat \ {0} /\ g.source \in V /\ DOMAIN g.edges = 1..n
      /\ \A k \in 1..n : E(k) \in Edge(g)
      /\ \A e \in Edge(g) : \E k \in 1..n : e = E(k)
  BY GraphFacts
<1>2. \A k \in 1..n : E(k).u \in V /\ E(k).v \in V /\ E(k).w \in 0..INT_MAX-1 /\ E(k) \in Edges(g)
  BY <1>1, GraphFacts DEF Edges
<1>3. /\ \A k \in 0..n : F[k] \in Turns(g)
      /\ F[0] = Nothing(g)
      /\ \A k \in 1..n : F[k] = Started(g, F[k - 1], E(k))
  BY StartedAfterIs
<1>4. \A q, j \in 1..n : E(q).u = g.source /\ E(j).u = g.source /\ E(q).v = E(j).v => q = j
  <2> SUFFICES ASSUME NEW q \in 1..n, NEW j \in 1..n,
                      E(q).u = g.source, E(j).u = g.source, E(q).v = E(j).v
               PROVE  q = j
    OBVIOUS
  <2>1. E(q) \in [u : 0..g.n-1, v : 0..g.n-1, w : 0..INT_MAX-1]
        /\ E(j) \in [u : 0..g.n-1, v : 0..g.n-1, w : 0..INT_MAX-1]
    BY <1>2 DEF Edges
  <2>2. E(j) = [E(q) EXCEPT !.w = E(j).w]
    BY <2>1
  <2>3. QED BY <1>1, <2>2, GraphsAssumption
<1> HIDE DEF V, F, n, E
<1>5. 0 \in S
  <2>1. \A y \in V : F[0].cost[y] = INT_MAX
    BY <1>3 DEF Nothing, V
  <2>2. F[0].assi = <<>>
    BY <1>3 DEF Nothing
  <2>3. ToSet(<<>>) = {}
    BY DEF ToSet
  <2>4. Backed(0) /\ Taken(0)
    BY <1>1, <2>1
  <2>5. Listed(0)
    BY <1>1, <2>1, <2>2, <2>3
  <2>6. QED BY <2>4, <2>5
<1>6. ASSUME NEW k \in S PROVE k + 1 \in S
  <2>1. SUFFICES ASSUME k + 1 <= n PROVE Backed(k + 1) /\ Taken(k + 1) /\ Listed(k + 1)
    OBVIOUS
  <2>2. k \in Nat /\ k + 1 \in 1..n /\ (k + 1) - 1 = k /\ k <= n /\ k \in 0..n
        /\ (\A j \in 1..k + 1 : j \in 1..k \/ j = k + 1) /\ (\A j \in 1..k : j \in 1..k + 1 /\ j \in 1..n /\ j # k + 1)
        /\ k + 1 \in 1..k + 1
    BY <1>1, <2>1
  <2>3. Backed(k) /\ Taken(k) /\ Listed(k)
    BY <2>2
  <2> DEFINE e == E(k + 1)
             r == F[k]
             r2 == F[k + 1]
  <2>4. /\ r \in Turns(g) /\ r2 = Started(g, r, e)
        /\ r.cost \in [V -> 0..INT_MAX] /\ r.pre \in [V -> -1..g.n-1] /\ r.assi \in Seq(V)
        /\ e.u \in V /\ e.v \in V /\ e.w \in 0..INT_MAX-1
    BY <1>2, <1>3, <2>2 DEF Turns, V
  <2>5. CASE e.u # g.source
    <3>1. r2 = r
      BY <2>4, <2>5 DEF Started
    <3> HIDE DEF e, r, r2
    <3>2. F[k + 1] = F[k]
      BY <3>1 DEF r, r2
    <3>3. Backed(k + 1)
      BY <2>2, <2>3, <3>2
    <3>4. Taken(k + 1)
      BY <2>2, <2>3, <2>5, <3>2 DEF e
    <3>5. Listed(k + 1)
      BY <2>3, <3>2
    <3>6. QED BY <3>3, <3>4, <3>5
  <2>6. CASE e.u = g.source
    <3>1. /\ r2.cost = [r.cost EXCEPT ![e.v] = e.w] /\ r2.pre = [r.pre EXCEPT ![e.v] = e.u]
          /\ r2.assi = Append(r.assi, e.v)
      <4>1. r2 = [r EXCEPT !.cost[e.v] = e.w, !.pre[e.v] = e.u, !.assi = Append(@, e.v)]
        BY <2>4, <2>6 DEF Started
      <4>2. r \in [cost : [V -> 0..INT_MAX], pre : [V -> -1..g.n-1], assi : Seq(V)]
        BY <2>4 DEF Turns, V
      <4> HIDE DEF r, r2, e
      <4>3. QED BY <4>1, <4>2
    <3>2. \A y \in V : /\ r2.cost[y] = IF y = e.v THEN e.w ELSE r.cost[y]
                       /\ r2.pre[y] = IF y = e.v THEN g.source ELSE r.pre[y]
      BY <2>4, <2>6, <3>1
    <3>3. \A y : y \in ToSet(r2.assi) <=> y \in ToSet(r.assi) \/ y = e.v
      <4>1. r.assi \in Seq(V) /\ e.v \in V /\ r2.assi = Append(r.assi, e.v)
        BY <2>4, <3>1
      <4> HIDE DEF r, r2, e
      <4>2. QED BY <4>1, AppendSet
    <3>4. e.w < INT_MAX
      BY <1>1, <2>4
    <3>5. \A y \in V : y \in ToSet(r.assi) <=> r.cost[y] < INT_MAX
      BY <2>3
    <3>6. Listed(k + 1)
      <4>1. \A y \in V : y \in ToSet(r2.assi) <=> r2.cost[y] < INT_MAX
        <5> HIDE DEF r, r2, e
        <5> QED BY <3>2, <3>3, <3>4, <3>5
      <4>2. QED BY <4>1
    <3>7. Backed(k + 1)
      <4> SUFFICES ASSUME NEW y \in V, r2.cost[y] < INT_MAX
                   PROVE  /\ r2.pre[y] = g.source
                          /\ \E j \in 1..k + 1 : E(j).u = g.source /\ E(j).v = y /\ E(j).w = r2.cost[y]
        OBVIOUS
      <4>1. CASE y = e.v
        BY <2>2, <2>6, <3>2, <4>1
      <4>2. CASE y # e.v
        <5>1. r2.cost[y] = r.cost[y] /\ r2.pre[y] = r.pre[y]
          BY <3>2, <4>2
        <5>2. r.pre[y] = g.source
              /\ \E j \in 1..k : E(j).u = g.source /\ E(j).v = y /\ E(j).w = r.cost[y]
          BY <2>3, <5>1
        <5>3. QED BY <2>2, <5>1, <5>2
      <4>3. QED BY <4>1, <4>2
    <3>8. Taken(k + 1)
      <4> SUFFICES ASSUME NEW j \in 1..k + 1, E(j).u = g.source PROVE r2.cost[E(j).v] = E(j).w
        OBVIOUS
      <4>1. CASE j = k + 1
        BY <2>4, <3>2, <4>1
      <4>2. CASE j # k + 1
        <5>1. j \in 1..k /\ j \in 1..n
          BY <2>2, <4>2
        <5>2. E(j).v # e.v
          BY <1>4, <2>2, <2>6, <4>2, <5>1
        <5>3. r.cost[E(j).v] = E(j).w /\ E(j).v \in V
          BY <1>2, <2>3, <5>1
        <5>4. QED BY <3>2, <5>2, <5>3
      <4>3. QED BY <4>1, <4>2
    <3>9. QED BY <3>6, <3>7, <3>8
  <2>7. QED BY <2>5, <2>6
<1>7. S = Nat
  <2> HIDE DEF S
  <2>1. S \in SUBSET Nat
    BY DEF S
  <2>2. QED BY <1>5, <1>6, <2>1, Inductive
<1>8. Backed(n) /\ Taken(n) /\ Listed(n) /\ FromSource(g) = F[n] /\ F[n] \in Turns(g)
  <2>1. n \in S /\ n \in 0..n /\ n <= n
    <3> HIDE DEF S
    <3> QED BY <1>1, <1>7
  <2>2. FromSource(g) = F[n]
    BY FromSourceIs DEF F, n
  <2>3. QED BY <1>3, <2>1, <2>2
<1> DEFINE c == F[n].cost
           p == F[n].pre
<1>9. Begun(g, c, p)
  <2>1. \A y \in V : c[y] < INT_MAX => p[y] = g.source
    BY <1>8
  <2>2. \A y \in V : c[y] < INT_MAX => \E e \in Edge(g) : e.u = g.source /\ e.v = y /\ c[y] = e.w
    BY <1>1, <1>8
  <2>3. \A e \in Edge(g) : e.u = g.source => c[e.v] = e.w
    BY <1>1, <1>8
  <2> HIDE DEF c, p
  <2>4. QED BY <2>1, <2>2, <2>3 DEF Begun, V
<1>10. QED BY <1>8, <1>9 DEF V

-----------------------------------------------------------------------------
(* The matrix.                                                             *)

LEMMA MapIs ==
  ASSUME NEW g \in Graphs, ~Parallel(g), NEW x \in Vertices(g), NEW y \in Vertices(g)
  PROVE  /\ map(g, x, y) \in 0..INT_MAX
         /\ map(g, x, y) < INT_MAX => \E e \in Edge(g) : e.u = x /\ e.v = y /\ map(g, x, y) = e.w
         /\ \A e \in Edge(g) : e.u = x /\ e.v = y => map(g, x, y) = e.w /\ e.w < INT_MAX
<1>1. /\ INT_MAX \in Nat \ {0} /\ DOMAIN g.edges = 1..Len(g.edges) /\ Len(g.edges) \in Nat
      /\ \A e \in Edge(g) : \E k \in 1..Len(g.edges) : e = g.edges[k]
      /\ \A e \in Edge(g) : e.w \in 0..INT_MAX-1
  <2>1. \A e \in Edge(g) : e \in Edges(g)
    BY GraphFacts
  <2>2. \A e \in Edge(g) : e.w \in 0..INT_MAX-1
    BY <2>1 DEF Edges
  <2>3. QED BY <2>2, GraphFacts
<1>2. ASSUME NEW d \in Edge(g), NEW e \in Edge(g), d.u = e.u, d.v = e.v PROVE d = e
  <2>1. PICK q \in 1..Len(g.edges) : d = g.edges[q]
    BY <1>1
  <2>2. PICK j \in 1..Len(g.edges) : e = g.edges[j]
    BY <1>1
  <2>3. ~ (q < j) /\ ~ (j < q)
    BY <1>1, <1>2, <2>1, <2>2 DEF Parallel
  <2>4. QED BY <2>1, <2>2, <2>3
<1>3. CASE \E e \in Edge(g) : e.u = x /\ e.v = y
  <2> DEFINE Is(e) == e \in Edge(g) /\ e.u = x /\ e.v = y
             d == CHOOSE e \in Edge(g) : e.u = x /\ e.v = y
  <2>1. d \in Edge(g) /\ d.u = x /\ d.v = y
    BY <1>3
  <2>2. map(g, x, y) = d.w
    BY <1>3 DEF map, Edge
  <2> HIDE DEF d
  <2>3. \A e \in Edge(g) : e.u = x /\ e.v = y => e = d
    BY <1>2, <2>1
  <2>4. QED BY <1>1, <2>1, <2>2, <2>3
<1>4. CASE ~ \E e \in Edge(g) : e.u = x /\ e.v = y
  <2>1. map(g, x, y) = INT_MAX
    BY <1>4 DEF map, Edge
  <2>2. QED BY <1>1, <1>4, <2>1
<1>5. QED BY <1>3, <1>4

LEMMA MatrixBegins ==
  ASSUME NEW g \in Graphs, ~Parallel(g), NEW c, c = [x \in Vertices(g) |-> map(g, g.source, x)],
         NEW p, p = [x \in Vertices(g) |->
                       IF x # g.source /\ map(g, g.source, x) < INT_MAX THEN g.source ELSE -1]
  PROVE  c \in [Vertices(g) -> 0..INT_MAX] /\ p \in [Vertices(g) -> -1..g.n-1] /\ Begun(g, c, p)
<1>1. /\ g.source \in Vertices(g) /\ g.n \in Nat /\ g.source \in -1..g.n-1 /\ -1 \in -1..g.n-1
      /\ \A e \in Edge(g) : e.v \in Vertices(g)
  BY GraphFacts
<1>2. \A x \in Vertices(g) : map(g, g.source, x) \in 0..INT_MAX
  BY <1>1, MapIs
<1>3. c \in [Vertices(g) -> 0..INT_MAX]
  BY <1>2
<1>4. p \in [Vertices(g) -> -1..g.n-1]
  BY <1>1
<1>5. \A y \in Vertices(g) : c[y] < INT_MAX => p[y] = g.source \/ y = g.source
  OBVIOUS
<1>6. \A y \in Vertices(g) : c[y] < INT_MAX =>
        \E e \in Edge(g) : e.u = g.source /\ e.v = y /\ c[y] = e.w
  <2> SUFFICES ASSUME NEW y \in Vertices(g), c[y] < INT_MAX
               PROVE  \E e \in Edge(g) : e.u = g.source /\ e.v = y /\ c[y] = e.w
    OBVIOUS
  <2>1. c[y] = map(g, g.source, y)
    OBVIOUS
  <2>2. QED BY <1>1, <2>1, MapIs
<1>7. \A e \in Edge(g) : e.u = g.source => c[e.v] = e.w
  <2> SUFFICES ASSUME NEW e \in Edge(g), e.u = g.source PROVE c[e.v] = e.w
    OBVIOUS
  <2>1. e.v \in Vertices(g) /\ c[e.v] = map(g, g.source, e.v)
    BY <1>1
  <2>2. QED BY <1>1, <2>1, MapIs
<1>8. QED BY <1>3, <1>4, <1>5, <1>6, <1>7 DEF Begun

-----------------------------------------------------------------------------
(* The turn over the edges of a candidate.                                 *)

RelaxedAfter(x, a) ==
  CHOOSE f : f = [k \in 0..Len(graph.edges) |->
    IF k = 0 THEN a ELSE Relaxed(f[k - 1], x, graph.edges[k])]

LEMMA RelaxedOver ==
  ASSUME NEW x, NEW a
  PROVE  OverEdges(graph, LAMBDA r, e : Relaxed(r, x, e), a) = RelaxedAfter(x, a)[Len(graph.edges)]
BY DEF OverEdges, RelaxedAfter

RelaxedTo(r, x, e, r2) ==
  /\ \A y \in Vertices(graph) :
       /\ r2.cost[y] = IF y = e.v /\ r.cost[e.v] > cost[x] + e.w THEN cost[x] + e.w ELSE r.cost[y]
       /\ r2.pre[y] = IF y = e.v /\ r.cost[e.v] > cost[x] + e.w THEN x ELSE r.pre[y]
  /\ r2.assi = IF r.cost[e.v] = INT_MAX THEN Append(r.assi, e.v) ELSE r.assi

LEMMA RelaxedIs ==
  ASSUME graph \in Graphs, cost \in [Vertices(graph) -> 0..INT_MAX], NEW x \in Vertices(graph),
         NEW r \in Turns(graph), NEW e \in Edge(graph)
  PROVE  /\ Relaxed(r, x, e) \in Turns(graph)
         /\ e.u # x \/ e.v \in used \cup {x} => Relaxed(r, x, e) = r
         /\ e.u = x /\ e.v \notin used \cup {x} => RelaxedTo(r, x, e, Relaxed(r, x, e))
<1> DEFINE V == Vertices(graph)
<1>1. /\ e.u \in V /\ e.v \in V /\ e.w \in Nat /\ graph.n \in Nat \ {0} /\ INT_MAX \in Nat
      /\ cost[x] \in Nat /\ x \in -1..graph.n-1
  BY GraphFacts
<1>2. r.cost \in [V -> 0..INT_MAX] /\ r.pre \in [V -> -1..graph.n-1] /\ r.assi \in Seq(V)
  BY DEF Turns
<1>3. CASE e.u # x \/ e.v \in used \cup {x}
  BY <1>3 DEF Relaxed
<1>4. CASE ~ (e.u # x \/ e.v \in used \cup {x})
  <2> DEFINE d == cost[x] + e.w
             shorter == r.cost[e.v] > d
             c2 == IF shorter THEN [r.cost EXCEPT ![e.v] = d] ELSE r.cost
             p2 == IF shorter THEN [r.pre EXCEPT ![e.v] = x] ELSE r.pre
             a2 == IF r.cost[e.v] = INT_MAX THEN Append(r.assi, e.v) ELSE r.assi
  <2>1. Relaxed(r, x, e) = [cost |-> c2, pre |-> p2, assi |-> a2]
    BY <1>4 DEF Relaxed, Via, Candidates
  <2>2. d \in Nat /\ r.cost[e.v] \in 0..INT_MAX
    <3>1. r.cost[e.v] \in 0..INT_MAX
      BY <1>1, <1>2
    <3>2. d \in Nat
      <4> HIDE DEF V
      <4> QED BY <1>1
    <3>3. QED BY <3>1, <3>2
  <2>3. shorter => d \in 0..INT_MAX
    BY <1>1, <2>2
  <2>4. c2 \in [V -> 0..INT_MAX]
    <3> HIDE DEF d
    <3> QED BY <1>1, <1>2, <2>3
  <2>5. p2 \in [V -> -1..graph.n-1]
    <3> HIDE DEF d, shorter
    <3> QED BY <1>1, <1>2
  <2>6. a2 \in Seq(V)
    BY <1>1, <1>2
  <2>7. [cost |-> c2, pre |-> p2, assi |-> a2] \in Turns(graph)
    <3> HIDE DEF c2, p2, a2
    <3> QED BY <2>4, <2>5, <2>6 DEF Turns
  <2>8. Relaxed(r, x, e).cost = c2 /\ Relaxed(r, x, e).pre = p2 /\ Relaxed(r, x, e).assi = a2
    <3> HIDE DEF c2, p2, a2
    <3> QED BY <2>1
  <2>9. \A y \in V : /\ c2[y] = IF y = e.v /\ shorter THEN d ELSE r.cost[y]
                     /\ p2[y] = IF y = e.v /\ shorter THEN x ELSE r.pre[y]
    <3> HIDE DEF d, shorter
    <3> QED BY <1>1, <1>2
  <2>10. RelaxedTo(r, x, e, Relaxed(r, x, e))
    <3> DEFINE r2 == Relaxed(r, x, e)
    <3>1. /\ \A y \in V : /\ r2.cost[y] = IF y = e.v /\ shorter THEN d ELSE r.cost[y]
                          /\ r2.pre[y] = IF y = e.v /\ shorter THEN x ELSE r.pre[y]
          /\ r2.assi = a2
      <4> HIDE DEF r2, c2, p2, a2
      <4> QED BY <2>8, <2>9 DEF r2
    <3> HIDE DEF r2
    <3>2. QED BY <3>1 DEF RelaxedTo, r2
  <2>11. QED BY <1>4, <2>1, <2>7, <2>10
<1>5. QED BY <1>3, <1>4

LEMMA RelaxedAfterIs ==
  ASSUME graph \in Graphs, cost \in [Vertices(graph) -> 0..INT_MAX], NEW x \in Vertices(graph),
         NEW a \in Turns(graph)
  PROVE  /\ \A k \in 0..Len(graph.edges) : RelaxedAfter(x, a)[k] \in Turns(graph)
         /\ RelaxedAfter(x, a)[0] = a
         /\ \A k \in 1..Len(graph.edges) :
              RelaxedAfter(x, a)[k] = Relaxed(RelaxedAfter(x, a)[k - 1], x, graph.edges[k])
<1> DEFINE g == graph
           n == Len(g.edges)
           A == Turns(g)
           step == [k \in 1..n |-> [r \in A |-> Relaxed(r, x, g.edges[k])]]
           Is(f) == f = [k \in 0..n |-> IF k = 0 THEN a ELSE Relaxed(f[k - 1], x, g.edges[k])]
<1>1. n \in Nat /\ \A k \in 1..n : g.edges[k] \in Edge(g)
  BY GraphFacts
<1>2. a \in A
  OBVIOUS
<1>3. \A k \in 1..n : \A r \in A : Relaxed(r, x, g.edges[k]) \in A
  BY <1>1, RelaxedIs
<1>4. step \in [1..n -> [A -> A]]
  BY <1>3
<1>5. PICK f : Steps(f, n, A, a, step)
  <2> HIDE DEF n, A, step
  <2> QED BY <1>1, <1>2, <1>4, StepsExist
<1>6. f \in [0..n -> A] /\ f[0] = a /\ \A k \in 1..n : f[k] = step[k][f[k - 1]]
  BY <1>5 DEF Steps
<1>7. \A k \in 0..n : k # 0 => k \in 1..n /\ k - 1 \in 0..n
  BY <1>1
<1>8. \A k \in 1..n : f[k] = Relaxed(f[k - 1], x, g.edges[k])
  <2> SUFFICES ASSUME NEW k \in 1..n PROVE f[k] = Relaxed(f[k - 1], x, g.edges[k])
    OBVIOUS
  <2>1. k - 1 \in 0..n
    BY <1>1
  <2>2. f[k - 1] \in A
    BY <1>6, <2>1
  <2>3. step[k][f[k - 1]] = Relaxed(f[k - 1], x, g.edges[k])
    <3> HIDE DEF A
    <3> QED BY <2>2
  <2>4. f[k] = step[k][f[k - 1]]
    BY <1>6
  <2>5. QED BY <2>3, <2>4
<1>9. Is(f)
  <2> HIDE DEF A, step
  <2>1. f = [k \in 0..n |-> f[k]]
    BY <1>6
  <2>2. \A k \in 0..n : f[k] = IF k = 0 THEN a ELSE Relaxed(f[k - 1], x, g.edges[k])
    BY <1>6, <1>7, <1>8
  <2>3. QED BY <2>1, <2>2
<1>10. RelaxedAfter(x, a) = CHOOSE k : Is(k)
  BY DEF RelaxedAfter
<1>11. Is(RelaxedAfter(x, a))
  <2> HIDE DEF Is
  <2> QED BY <1>9, <1>10
<1> DEFINE F == RelaxedAfter(x, a)
<1>12. F = [k \in 0..n |-> IF k = 0 THEN a ELSE Relaxed(F[k - 1], x, g.edges[k])]
  BY <1>11
<1> HIDE DEF F
<1>13. F[0] = a /\ \A k \in 1..n : F[k] = Relaxed(F[k - 1], x, g.edges[k])
  <2>1. 0 \in 0..n /\ \A k \in 1..n : k \in 0..n /\ k # 0
    BY <1>1
  <2> HIDE DEF n
  <2>2. F[0] = a
    BY <1>12, <2>1
  <2>3. ASSUME NEW k \in 1..n PROVE F[k] = Relaxed(F[k - 1], x, g.edges[k])
    BY <1>12, <2>1
  <2>4. QED BY <2>2, <2>3
<1>14. \A k \in 0..n : F[k] \in A
  <2> DEFINE S == {k \in Nat : k <= n => F[k] \in A}
  <2>1. 0 \in S
    BY <1>2, <1>13
  <2>2. ASSUME NEW k \in S PROVE k + 1 \in S
    <3>1. SUFFICES ASSUME k + 1 <= n PROVE F[k + 1] \in A
      OBVIOUS
    <3>2. k \in Nat /\ k + 1 \in 1..n /\ (k + 1) - 1 = k /\ k <= n
      BY <1>1, <3>1
    <3>3. F[k] \in A
      BY <3>2
    <3>4. F[k + 1] = Relaxed(F[k], x, g.edges[k + 1])
      BY <1>13, <3>2
    <3> HIDE DEF A, n
    <3>5. QED BY <1>3, <3>2, <3>3, <3>4
  <2>3. S = Nat
    <3> HIDE DEF S
    <3>1. S \in SUBSET Nat
      BY DEF S
    <3>2. QED BY <2>1, <2>2, <3>1, Inductive
  <2>4. \A k \in 0..n : k \in Nat /\ k <= n
    BY <1>1
  <2>5. QED BY <2>3, <2>4
<1>15. QED BY <1>13, <1>14 DEF F

\* The vertices that were not reached before.
NewOnes(S, c, c2) == {y \in Vertices(graph) \ S : c[y] = INT_MAX /\ c2[y] < INT_MAX}

\* The costs after the turn, and the candidates.
LEMMA RelaxedImproves ==
  ASSUME graph \in Graphs, cost \in [Vertices(graph) -> 0..INT_MAX], used \in SUBSET Vertices(graph),
         NEW x \in Vertices(graph), NEW a \in Turns(graph), a.cost = cost, a.pre = pre,
         \A e \in Edge(graph) : e.u = x /\ e.v \notin used \cup {x} =>
           cost[x] + e.w < INT_MAX \/ cost[e.v] < INT_MAX,
         NEW r, r = RelaxedAfter(x, a)[Len(graph.edges)]
  PROVE  /\ r \in Turns(graph)
         /\ Improved(graph, cost, pre, used, x, r.cost, r.pre)
         /\ ToSet(r.assi) = ToSet(a.assi) \cup NewOnes(used \cup {x}, cost, r.cost)
<1> DEFINE V == Vertices(graph)
           n == Len(graph.edges)
           T == used \cup {x}
           F == RelaxedAfter(x, a)
           E(j) == graph.edges[j]
           Kept(k) == \A y \in T : F[k].cost[y] = cost[y] /\ F[k].pre[y] = pre[y]
           Backed(k) == \A y \in V \ T :
             \/ F[k].cost[y] = cost[y] /\ F[k].pre[y] = pre[y]
             \/ /\ F[k].pre[y] = x /\ F[k].cost[y] < cost[y]
                /\ \E e \in Edge(graph) : e.u = x /\ e.v = y /\ F[k].cost[y] = cost[x] + e.w
           Taken(k) == \A j \in 1..k : E(j).u = x /\ E(j).v \notin T => F[k].cost[E(j).v] <= cost[x] + E(j).w
           Listed(k) == \A y : y \in ToSet(F[k].assi) <=>
              \/ y \in ToSet(a.assi)
              \/ y \in V \ T /\ cost[y] = INT_MAX /\ F[k].cost[y] < INT_MAX
           S == {k \in Nat : k <= n => Kept(k) /\ Backed(k) /\ Taken(k) /\ Listed(k)}
<1>1. /\ n \in Nat /\ INT_MAX \in Nat \ {0} /\ DOMAIN graph.edges = 1..n
      /\ \A k \in 1..n : E(k) \in Edge(graph)
      /\ \A e \in Edge(graph) : \E k \in 1..n : e = E(k)
      /\ \A e \in Edge(graph) : e.u \in V /\ e.v \in V /\ e.w \in Nat
      /\ \A y \in V : cost[y] \in 0..INT_MAX
      /\ T \in SUBSET V
  <2>1. \A y \in V : cost[y] \in 0..INT_MAX
    OBVIOUS
  <2>2. T \in SUBSET V
    OBVIOUS
  <2>3. n \in Nat /\ DOMAIN graph.edges = 1..n /\ INT_MAX \in Nat \ {0}
    BY GraphFacts
  <2>4. \A k \in 1..n : E(k) \in Edge(graph)
    BY GraphFacts
  <2>5. \A e \in Edge(graph) : \E k \in 1..n : e = E(k)
    BY GraphFacts
  <2>6. \A e \in Edge(graph) : e.u \in V /\ e.v \in V /\ e.w \in Nat
    BY GraphFacts
  <2>7. QED BY <2>1, <2>2, <2>3, <2>4, <2>5, <2>6
<1>2. /\ \A k \in 0..n : F[k] \in Turns(graph)
      /\ F[0] = a
      /\ \A k \in 1..n : F[k] = Relaxed(F[k - 1], x, E(k))
  BY RelaxedAfterIs
<1>3. \A k \in 0..n : /\ F[k].cost \in [V -> 0..INT_MAX] /\ F[k].pre \in [V -> -1..graph.n-1]
                      /\ F[k].assi \in Seq(V)
  BY <1>2 DEF Turns
<1>4. \A e \in Edge(graph) : e.u = x /\ e.v \notin T => cost[x] + e.w < INT_MAX \/ cost[e.v] < INT_MAX
  OBVIOUS
<1> HIDE DEF V, F, n, E
<1>5. 0 \in S
  <2>1. F[0].cost = cost /\ F[0].pre = pre /\ F[0].assi = a.assi
    BY <1>2
  <2>2. Kept(0) /\ Backed(0) /\ Taken(0)
    BY <1>1, <2>1
  <2>3. Listed(0)
    BY <1>1, <2>1
  <2>4. QED BY <2>2, <2>3
<1>6. ASSUME NEW k \in S PROVE k + 1 \in S
  <2>1. SUFFICES ASSUME k + 1 <= n
                 PROVE  Kept(k + 1) /\ Backed(k + 1) /\ Taken(k + 1) /\ Listed(k + 1)
    OBVIOUS
  <2>2. k \in Nat /\ k + 1 \in 1..n /\ (k + 1) - 1 = k /\ k <= n /\ k \in 0..n /\ k + 1 \in 0..n
        /\ (\A j \in 1..k + 1 : j \in 1..k \/ j = k + 1) /\ (\A j \in 1..k : j \in 1..n)
    BY <1>1, <2>1
  <2>3. Kept(k) /\ Backed(k) /\ Taken(k) /\ Listed(k)
    BY <2>2
  <2> HIDE DEF S
  <2> DEFINE e == E(k + 1)
             b == F[k]
             b2 == F[k + 1]
  <2>4. /\ b \in Turns(graph) /\ b2 = Relaxed(b, x, e) /\ e \in Edge(graph)
        /\ b.cost \in [V -> 0..INT_MAX] /\ b.pre \in [V -> -1..graph.n-1] /\ b.assi \in Seq(V)
        /\ b2.cost \in [V -> 0..INT_MAX]
        /\ e.u \in V /\ e.v \in V /\ e.w \in Nat
    BY <1>1, <1>2, <1>3, <2>2
  <2>5. CASE e.u # x \/ e.v \in T
    <3>1. b2 = b
      <4>1. e.u # x \/ e.v \in used \cup {x}
        BY <2>5
      <4> HIDE DEF e, b, b2, T
      <4>2. QED BY <2>4, <4>1, RelaxedIs
    <3> HIDE DEF e, b, b2
    <3>2. F[k + 1] = F[k]
      BY <3>1 DEF b, b2
    <3>3. Kept(k + 1) /\ Backed(k + 1)
      BY <2>3, <3>2
    <3>4. Taken(k + 1)
      BY <2>2, <2>3, <2>5, <3>2 DEF e
    <3>5. Listed(k + 1)
      BY <2>3, <3>2
    <3>6. QED BY <3>3, <3>4, <3>5
  <2>6. CASE ~ (e.u # x \/ e.v \in T)
    <3> DEFINE d == cost[x] + e.w
               shorter == b.cost[e.v] > d
    <3>1. /\ \A y \in V : b2.cost[y] = (IF y = e.v /\ shorter THEN d ELSE b.cost[y])
                          /\ b2.pre[y] = (IF y = e.v /\ shorter THEN x ELSE b.pre[y])
          /\ b2.assi = IF b.cost[e.v] = INT_MAX THEN Append(b.assi, e.v) ELSE b.assi
      <4>1. e.u = x /\ e.v \notin used \cup {x}
        BY <2>6
      <4>2. RelaxedTo(b, x, e, b2)
        <5> HIDE DEF e, b, b2, T
        <5> QED BY <2>4, <4>1, RelaxedIs
      <4> HIDE DEF e, b, b2
      <4>3. QED BY <4>2, Zenon DEF RelaxedTo, V
    <3>2. d \in Nat /\ e.u = x /\ e.v \in V \ T /\ (d < INT_MAX \/ cost[e.v] < INT_MAX)
      <4>1. e.u = x /\ e.v \in V \ T
        BY <2>4, <2>6
      <4>2. d < INT_MAX \/ cost[e.v] < INT_MAX
        <5> HIDE DEF e
        <5> QED BY <1>4, <2>4, <4>1 DEF d
      <4>3. x \in V
        BY DEF V
      <4>4. d \in Nat
        <5> HIDE DEF e
        <5>1. cost[x] \in Nat /\ e.w \in Nat
          BY <1>1, <2>4, <4>3
        <5>2. QED BY <5>1
      <4>5. QED BY <4>1, <4>2, <4>4
    <3>3. /\ \A y \in V : b2.cost[y] = (IF y = e.v /\ shorter THEN d ELSE b.cost[y])
                          /\ b2.pre[y] = (IF y = e.v /\ shorter THEN x ELSE b.pre[y])
          /\ \A y \in V : b.cost[y] \in 0..INT_MAX /\ b2.cost[y] \in 0..INT_MAX /\ b2.cost[y] <= b.cost[y]
      <4>1. \A y \in V : b2.cost[y] = (IF y = e.v /\ shorter THEN d ELSE b.cost[y])
                         /\ b2.pre[y] = (IF y = e.v /\ shorter THEN x ELSE b.pre[y])
        BY <3>1
      <4>2. \A y \in V : b.cost[y] \in 0..INT_MAX /\ b2.cost[y] \in 0..INT_MAX
        <5> HIDE DEF e, b, b2, d, shorter
        <5> QED BY <2>4
      <4>3. \A y \in V : b2.cost[y] <= b.cost[y]
        <5> HIDE DEF e, b, b2, d
        <5> QED BY <1>1, <3>2, <4>1, <4>2
      <4>4. QED BY <4>1, <4>2, <4>3
    <3>4. \A y : y \in ToSet(b2.assi) <=> y \in ToSet(b.assi) \/ (b.cost[e.v] = INT_MAX /\ y = e.v)
      <4> HIDE DEF e, b, b2, d, shorter
      <4> QED BY <2>4, <3>1, AppendSet
    <3>5. Kept(k) /\ Backed(k) /\ Taken(k) /\ Listed(k)
      BY <2>3
    <3>6. \A y \in V \ T : b.cost[y] <= cost[y]
      <4> SUFFICES ASSUME NEW y \in V \ T PROVE b.cost[y] <= cost[y]
        OBVIOUS
      <4>1. b.cost[y] = cost[y] \/ b.cost[y] < cost[y]
        BY <3>5
      <4> HIDE DEF b
      <4>2. QED BY <1>1, <3>3, <4>1
    <3>7. Kept(k + 1)
      <4>1. \A y \in T : y \in V /\ y # e.v
        BY <1>1, <3>2
      <4>2. \A y \in T : b.cost[y] = cost[y] /\ b.pre[y] = pre[y]
        BY <3>5
      <4>3. \A y \in T : b2.cost[y] = cost[y] /\ b2.pre[y] = pre[y]
        <5> HIDE DEF e, b, b2, d, shorter
        <5> QED BY <3>3, <4>1, <4>2
      <4>4. QED BY <4>3
    <3>8. Backed(k + 1)
      <4> SUFFICES ASSUME NEW y \in V \ T
                   PROVE  \/ b2.cost[y] = cost[y] /\ b2.pre[y] = pre[y]
                          \/ /\ b2.pre[y] = x /\ b2.cost[y] < cost[y]
                             /\ \E f \in Edge(graph) : f.u = x /\ f.v = y /\ b2.cost[y] = cost[x] + f.w
        OBVIOUS
      <4>1. CASE y = e.v /\ shorter
        <5>1. b2.cost[y] = d /\ b2.pre[y] = x /\ d < b.cost[y]
          BY <3>2, <3>3, <4>1
        <5>2. b2.cost[y] < cost[y]
          <6> HIDE DEF b, b2, d
          <6> QED BY <1>1, <3>2, <3>3, <3>6, <5>1
        <5>3. QED BY <2>4, <3>2, <4>1, <5>1, <5>2
      <4>2. CASE ~ (y = e.v /\ shorter)
        <5>1. b2.cost[y] = b.cost[y] /\ b2.pre[y] = b.pre[y]
          <6> HIDE DEF e, b, b2, d, shorter
          <6> QED BY <3>3, <4>2
        <5>2. \/ b.cost[y] = cost[y] /\ b.pre[y] = pre[y]
              \/ /\ b.pre[y] = x /\ b.cost[y] < cost[y]
                 /\ \E f \in Edge(graph) : f.u = x /\ f.v = y /\ b.cost[y] = cost[x] + f.w
          BY <3>5
        <5> HIDE DEF e, b, b2, d, shorter
        <5>3. QED BY <5>1, <5>2
      <4>3. QED BY <4>1, <4>2
    <3>9. Taken(k + 1)
      <4> SUFFICES ASSUME NEW j \in 1..k + 1, E(j).u = x, E(j).v \notin T
                   PROVE  b2.cost[E(j).v] <= cost[x] + E(j).w
        OBVIOUS
      <4>1. CASE j = k + 1
        <5>1. b2.cost[e.v] = (IF shorter THEN d ELSE b.cost[e.v]) /\ b.cost[e.v] \in 0..INT_MAX
          BY <3>2, <3>3
        <5>2. b2.cost[e.v] <= d
          <6> HIDE DEF e, b, b2, d
          <6> QED BY <1>1, <3>2, <5>1
        <5>3. QED BY <4>1, <5>2
      <4>2. CASE j # k + 1
        <5>1. j \in 1..k /\ j \in 1..n
          BY <2>2, <4>2
        <5>2. b.cost[E(j).v] <= cost[x] + E(j).w
          BY <3>5, <5>1
        <5>3. E(j).v \in V /\ E(j).w \in Nat /\ cost[x] \in Nat
          BY <1>1, <5>1
        <5>4. b2.cost[E(j).v] <= b.cost[E(j).v] /\ b2.cost[E(j).v] \in 0..INT_MAX /\ b.cost[E(j).v] \in 0..INT_MAX
          BY <3>3, <5>3
        <5> HIDE DEF b, b2
        <5>5. QED BY <1>1, <5>2, <5>3, <5>4
      <4>3. QED BY <4>1, <4>2
    <3>10. Listed(k + 1)
      <4>1. \A y : y \in ToSet(b.assi) <=>
              \/ y \in ToSet(a.assi)
              \/ y \in V \ T /\ cost[y] = INT_MAX /\ b.cost[y] < INT_MAX
        BY <3>5
      <4>2. \A y \in V \ T : y # e.v => b2.cost[y] = b.cost[y]
        <5> HIDE DEF e, b, b2, d, shorter
        <5> QED BY <3>3
      <4>3. CASE b.cost[e.v] = INT_MAX
        <5>1. cost[e.v] = INT_MAX
          <6> HIDE DEF e, b, b2, d
          <6> QED BY <1>1, <3>2, <3>6, <4>3
        <5>2. d < INT_MAX
          <6> HIDE DEF e, b, b2, d
          <6> QED BY <1>1, <3>2, <5>1
        <5>3. shorter
          BY <4>3, <5>2
        <5>4. b2.cost[e.v] < INT_MAX
          BY <3>2, <3>3, <5>2, <5>3
        <5>5. \A y : y \in ToSet(b2.assi) <=> y \in ToSet(b.assi) \/ y = e.v
          BY <3>4, <4>3
        <5>6. \A y : y \in ToSet(b2.assi) <=>
                \/ y \in ToSet(a.assi)
                \/ y \in V \ T /\ cost[y] = INT_MAX /\ b2.cost[y] < INT_MAX
          <6> HIDE DEF e, b, b2, d, shorter
          <6> QED BY <3>2, <4>1, <4>2, <5>1, <5>4, <5>5
        <5>7. QED BY <5>6
      <4>4. CASE b.cost[e.v] # INT_MAX
        <5>1. b2.cost[e.v] < INT_MAX /\ b.cost[e.v] < INT_MAX
          <6>1. e.v \in V
            BY <3>2
          <6> HIDE DEF e, b, b2, d
          <6>2. QED BY <1>1, <3>3, <4>4, <6>1
        <5>2. \A y : y \in ToSet(b2.assi) <=> y \in ToSet(b.assi)
          BY <3>4, <4>4
        <5>3. \A y : y \in ToSet(b2.assi) <=>
                \/ y \in ToSet(a.assi)
                \/ y \in V \ T /\ cost[y] = INT_MAX /\ b2.cost[y] < INT_MAX
          <6> HIDE DEF e, b, b2, d, shorter
          <6> QED BY <4>1, <4>2, <5>1, <5>2
        <5>4. QED BY <5>3
      <4>5. QED BY <4>3, <4>4
    <3>11. QED BY <3>7, <3>8, <3>9, <3>10
  <2>7. QED BY <2>5, <2>6
<1>7. S = Nat
  <2> HIDE DEF S
  <2>1. S \in SUBSET Nat
    BY DEF S
  <2>2. QED BY <1>5, <1>6, <2>1, Inductive
<1>8. Kept(n) /\ Backed(n) /\ Taken(n) /\ Listed(n) /\ r = F[n] /\ F[n] \in Turns(graph)
  <2>1. n \in S /\ n \in 0..n /\ n <= n
    <3> HIDE DEF S
    <3> QED BY <1>1, <1>7
  <2>2. r = F[n]
    BY DEF F, n
  <2>3. QED BY <1>2, <2>1, <2>2
<1>9. Improved(graph, cost, pre, used, x, r.cost, r.pre)
  <2>1. \A e \in Edge(graph) : e.u = x /\ e.v \notin T => r.cost[e.v] <= cost[x] + e.w
    BY <1>1, <1>8
  <2>2. QED BY <1>8, <2>1 DEF Improved, V
<1>10. \A y : y \in ToSet(r.assi) <=> y \in ToSet(a.assi) \/ y \in NewOnes(T, cost, r.cost)
  BY <1>8 DEF NewOnes, V
<1>11. QED BY <1>8, <1>9, <1>10

-----------------------------------------------------------------------------
(* The choice of the next vertex.                                          *)

LEMMA RemoveAtSet ==
  ASSUME NEW A, NEW s \in Seq(A), NEW q \in 1..Len(s)
  PROVE  /\ RemoveAt(s, q) \in Seq(A)
         /\ \A y : y \in ToSet(RemoveAt(s, q)) => y \in ToSet(s)
         /\ \A y : y \in ToSet(s) => y \in ToSet(RemoveAt(s, q)) \/ y = s[q]
<1> DEFINE a == RemoveAt(s, q)
           n == Len(s)
<1>1. n \in Nat /\ DOMAIN s = 1..n /\ q \in Nat /\ 1 <= q /\ q <= n
  OBVIOUS
<1>2. a \in Seq(A) /\ Len(a) = n - 1 /\ \A j \in 1..n - 1 : a[j] = IF j < q THEN s[j] ELSE s[j + 1]
  BY RemoveAtIs
<1> HIDE DEF a
<1>3. a \in Seq(A) /\ Len(a) = n - 1 /\ DOMAIN a = 1..n - 1
  <2> HIDE DEF n
  <2> QED BY <1>2
<1>4. \A j \in 1..n - 1 : a[j] = IF j < q THEN s[j] ELSE s[j + 1]
  BY <1>2
<1> HIDE DEF n
<1>5. \A y : /\ y \in ToSet(a) <=> \E j \in 1..n - 1 : y = a[j]
             /\ y \in ToSet(s) <=> \E j \in 1..n : y = s[j]
  BY <1>1, <1>3, Zenon DEF ToSet
<1>6. \A j \in 1..n - 1 : j \in 1..n /\ j + 1 \in 1..n
  BY <1>1
<1>7. \A y : y \in ToSet(a) => y \in ToSet(s)
  BY <1>4, <1>5, <1>6
<1>8. ASSUME NEW j \in 1..n PROVE s[j] \in ToSet(a) \/ s[j] = s[q]
  <2>1. CASE j < q
    <3>1. j \in 1..n - 1
      BY <1>1, <2>1
    <3>2. QED BY <1>4, <1>5, <2>1, <3>1
  <2>2. CASE j > q
    <3>1. j - 1 \in 1..n - 1 /\ ~ (j - 1 < q) /\ (j - 1) + 1 = j
      BY <1>1, <2>2
    <3>2. a[j - 1] = s[j]
      BY <1>4, <3>1
    <3>3. QED BY <1>5, <3>1, <3>2
  <2>3. CASE j = q
    BY <2>3
  <2>4. QED BY <1>1, <2>1, <2>2, <2>3
<1>9. \A y : y \in ToSet(s) => y \in ToSet(a) \/ y = s[q]
  BY <1>5, <1>8
<1>10. QED BY <1>3, <1>7, <1>9 DEF a

LEMMA CheapestIs ==
  ASSUME NEW V, cost \in [V -> 0..INT_MAX], INT_MAX \in Nat, assi \in Seq(V), assi # <<>>
  PROVE  /\ Cheapest \in 1..Len(assi) /\ assi[Cheapest] \in V /\ assi[Cheapest] \in ToSet(assi)
         /\ \A y \in ToSet(assi) : cost[assi[Cheapest]] <= cost[y]
<1> DEFINE n == Len(assi)
           C == {cost[assi[q]] : q \in 1..n}
<1>1. n \in Nat /\ n # 0 /\ DOMAIN assi = 1..n /\ \A q \in 1..n : assi[q] \in V /\ cost[assi[q]] \in Nat
  OBVIOUS
<1>2. C \in SUBSET Nat /\ C # {}
  BY <1>1
<1>3. PICK m \in C : \A j \in C : m <= j
  <2> HIDE DEF C
  <2> QED BY <1>2, Least
<1> DEFINE I == {q \in 1..n : cost[assi[q]] = m}
<1>4. I \in SUBSET Nat /\ I # {} /\ I \in SUBSET (1..n)
  BY <1>1, <1>3
<1>5. PICK q \in I : \A j \in I : q <= j
  <2> HIDE DEF I
  <2> QED BY <1>4, Least
<1> DEFINE Is(k) == /\ k \in 1..n
                    /\ \A j \in 1..n : \/ cost[assi[k]] < cost[assi[j]]
                                       \/ cost[assi[k]] = cost[assi[j]] /\ k <= j
<1>6. Is(q)
  <2>1. q \in 1..n /\ cost[assi[q]] = m
    BY <1>5
  <2>2. \A j \in 1..n : m <= cost[assi[j]]
    BY <1>3
  <2>3. \A j \in 1..n : cost[assi[j]] = m => q <= j
    BY <1>5
  <2>4. m \in Nat
    BY <1>2, <1>3
  <2>5. \A j \in 1..n : m < cost[assi[j]] \/ m = cost[assi[j]]
    BY <1>1, <2>2, <2>4
  <2>6. QED BY <2>1, <2>3, <2>5
<1>7. Cheapest = CHOOSE k : Is(k)
  <2>1. Cheapest = CHOOSE k \in 1..n :
                     \A j \in 1..n : \/ cost[assi[k]] < cost[assi[j]]
                                     \/ cost[assi[k]] = cost[assi[j]] /\ k <= j
    BY <1>1, Zenon DEF Cheapest
  <2>2. QED BY <2>1
<1>8. Is(Cheapest)
  <2> HIDE DEF Is
  <2> QED BY <1>6, <1>7
<1>9. Cheapest \in 1..n /\ \A j \in 1..n : cost[assi[Cheapest]] <= cost[assi[j]]
  <2>1. Cheapest \in 1..n
    BY <1>8
  <2>2. ASSUME NEW j \in 1..n PROVE cost[assi[Cheapest]] <= cost[assi[j]]
    <3>1. \/ cost[assi[Cheapest]] < cost[assi[j]]
          \/ cost[assi[Cheapest]] = cost[assi[j]]
      BY <1>8
    <3>2. cost[assi[Cheapest]] \in Nat /\ cost[assi[j]] \in Nat
      BY <1>1, <2>1
    <3>3. QED BY <3>1, <3>2
  <2>3. QED BY <2>1, <2>2
<1>10. \A y \in ToSet(assi) : \E j \in 1..n : y = assi[j]
  BY <1>1, Zenon DEF ToSet
<1>11. assi[Cheapest] \in ToSet(assi)
  BY <1>1, <1>9, Zenon DEF ToSet
<1>12. QED BY <1>1, <1>9, <1>10, <1>11

LEMMA NearestIs ==
  ASSUME graph \in Graphs, cost \in [Vertices(graph) -> 0..INT_MAX], Unused # {}
  PROVE  /\ Nearest \in Vertices(graph) \ used /\ cost[Nearest] < INT_MAX
         /\ \A y \in Vertices(graph) \ used : cost[Nearest] <= cost[y]
<1> DEFINE U == Unused
           C == {cost[y] : y \in U}
<1>1. /\ INT_MAX \in Nat /\ \A y \in U : y \in Vertices(graph) \ used /\ cost[y] < INT_MAX /\ y \in Nat /\ cost[y] \in Nat
      /\ \A y \in Vertices(graph) \ used : y \notin U => cost[y] = INT_MAX
  <2>1. INT_MAX \in Nat /\ \A y \in Vertices(graph) : y \in Nat /\ cost[y] \in 0..INT_MAX
    BY GraphFacts
  <2>2. QED BY <2>1 DEF Unused
<1> HIDE DEF U
<1>2. U # {}
  BY DEF U
<1>3. C \in SUBSET Nat /\ C # {}
  BY <1>1, <1>2
<1>4. PICK m \in C : \A j \in C : m <= j
  <2> HIDE DEF C
  <2> QED BY <1>3, Least
<1> DEFINE I == {y \in U : cost[y] = m}
<1>5. I \in SUBSET Nat /\ I # {}
  BY <1>1, <1>4
<1>6. PICK q \in I : \A j \in I : q <= j
  <2> HIDE DEF I
  <2> QED BY <1>5, Least
<1> DEFINE Is(k) == /\ k \in U
                    /\ \A y \in U : cost[k] < cost[y] \/ (cost[k] = cost[y] /\ k <= y)
<1>7. Is(q)
  <2>1. q \in U /\ cost[q] = m
    BY <1>6
  <2>2. \A j \in U : m <= cost[j]
    BY <1>4
  <2>3. \A j \in U : cost[j] = m => q <= j
    BY <1>6
  <2>4. m \in Nat
    BY <1>3, <1>4
  <2>5. \A j \in U : m < cost[j] \/ m = cost[j]
    BY <1>1, <2>2, <2>4
  <2>6. QED BY <2>1, <2>3, <2>5
<1>8. Nearest = CHOOSE k : Is(k)
  <2>1. Nearest = CHOOSE k \in U : \A y \in U : cost[k] < cost[y] \/ (cost[k] = cost[y] /\ k <= y)
    BY Zenon DEF Nearest, U
  <2>2. QED BY <2>1
<1>9. Is(Nearest)
  <2> HIDE DEF Is
  <2> QED BY <1>7, <1>8
<1> DEFINE x == Nearest
<1>10. x \in U /\ \A y \in U : cost[x] < cost[y] \/ cost[x] = cost[y]
  BY <1>9
<1> HIDE DEF x
<1>11. \A y \in U : cost[x] <= cost[y]
  BY <1>1, <1>10
<1>12. \A y \in Vertices(graph) \ used : cost[x] <= cost[y]
  BY <1>1, <1>10, <1>11
<1>13. QED BY <1>1, <1>10, <1>12 DEF x

-----------------------------------------------------------------------------
(* The invariant.                                                          *)

CandidatesOK ==
  program = "Dijkstra.cpp" =>
    /\ \A x \in Vertices(graph) \ used : cost[x] < INT_MAX <=> x \in ToSet(assi)
    /\ \A x \in ToSet(assi) : cost[x] < INT_MAX

TurnsOK ==
  program = "Dijkstra2.cpp" =>
    ~Parallel(graph) /\ (Cardinality(used) = turn \/ Unused = {})

LeadsBack == \E r \in [Vertices(graph) -> 0..graph.n-1] : Ranked(graph, cost, pre, used, r)

NearestUsed == \E m \in 0..INT_MAX : Between(graph, cost, used, m)

PathInv ==
  /\ graph \in Graphs /\ PathTypeOK
  /\ KnownIn(graph, cost, used) /\ Settled(graph, cost, used)
  /\ LeadsBack /\ NearestUsed
  /\ CandidatesOK /\ TurnsOK

LEMMA ListInit ==
  ASSUME NEW g \in Graphs, ListStart(g)
  PROVE  PathInv
<1> DEFINE r == FromSource(g)
<1>1. /\ program = "Dijkstra.cpp" /\ graph = g /\ used = {g.source} /\ turn = 1
      /\ cost = r.cost /\ pre = r.pre /\ assi = r.assi
  BY Zenon DEF ListStart
<1>2. /\ r \in Turns(g) /\ Begun(g, r.cost, r.pre)
      /\ \A y \in Vertices(g) : y \in ToSet(r.assi) <=> r.cost[y] < INT_MAX
  BY FromSourceBegins
<1> HIDE DEF r
<1>3. /\ cost \in [Vertices(g) -> 0..INT_MAX] /\ pre \in [Vertices(g) -> -1..g.n-1]
      /\ assi \in Seq(Vertices(g))
  BY <1>1, <1>2 DEF Turns
<1>4. g.source \in Vertices(g) /\ g.n \in Nat \ {0} /\ INT_MAX \in Nat
  BY GraphFacts
<1>5. PathTypeOK
  BY <1>1, <1>3, <1>4 DEF PathTypeOK
<1>6. /\ KnownIn(g, cost, {g.source}) /\ Settled(g, cost, {g.source})
      /\ \E d : Ranked(g, cost, pre, {g.source}, d)
      /\ Between(g, cost, {g.source}, 0)
  BY <1>1, <1>2, <1>3, StartIsRight
<1>7. LeadsBack
  <2>1. PICK d : Ranked(g, cost, pre, {g.source}, d)
    BY <1>6
  <2>2. d \in [Vertices(g) -> 0..g.n-1]
    BY <2>1 DEF Ranked
  <2>3. QED BY <1>1, <2>1, <2>2 DEF LeadsBack
<1>8. NearestUsed
  <2>1. 0 \in 0..INT_MAX
    BY <1>4
  <2>2. QED BY <1>1, <1>6, <2>1 DEF NearestUsed
<1>9. CandidatesOK
  <2>1. \A y \in Vertices(g) : y \in ToSet(assi) <=> cost[y] < INT_MAX
    BY <1>1, <1>2
  <2>2. \A y \in ToSet(assi) : y \in Vertices(g)
    BY <1>3 DEF ToSet
  <2>3. QED BY <1>1, <2>1, <2>2 DEF CandidatesOK
<1>10. TurnsOK
  BY <1>1 DEF TurnsOK
<1>11. QED BY <1>1, <1>5, <1>6, <1>7, <1>8, <1>9, <1>10 DEF PathInv

LEMMA MatrixInit ==
  ASSUME NEW g \in Graphs, MatrixStart(g)
  PROVE  PathInv
<1>1. /\ program = "Dijkstra2.cpp" /\ graph = g /\ used = {g.source} /\ turn = 1 /\ assi = <<>>
      /\ ~Parallel(g)
      /\ cost = [x \in Vertices(g) |-> map(g, g.source, x)]
      /\ pre = [x \in Vertices(g) |->
                  IF x # g.source /\ map(g, g.source, x) < INT_MAX THEN g.source ELSE -1]
  BY Zenon DEF MatrixStart
<1>2. cost \in [Vertices(g) -> 0..INT_MAX] /\ pre \in [Vertices(g) -> -1..g.n-1] /\ Begun(g, cost, pre)
  BY <1>1, MatrixBegins
<1>3. g.source \in Vertices(g) /\ g.n \in Nat \ {0} /\ INT_MAX \in Nat /\ <<>> \in Seq(Vertices(g))
  BY GraphFacts
<1>4. PathTypeOK
  <2>1. program \in {"Dijkstra.cpp", "Dijkstra2.cpp"}
    BY <1>1
  <2>2. assi \in Seq(Vertices(graph)) /\ used \in SUBSET Vertices(graph) /\ turn \in 1..graph.n
    BY <1>1, <1>3
  <2>3. cost \in [Vertices(graph) -> 0..INT_MAX] /\ pre \in [Vertices(graph) -> -1..graph.n-1]
    BY <1>1, <1>2
  <2>4. QED BY <2>1, <2>2, <2>3 DEF PathTypeOK
<1>5. /\ KnownIn(g, cost, {g.source}) /\ Settled(g, cost, {g.source})
      /\ \E d : Ranked(g, cost, pre, {g.source}, d)
      /\ Between(g, cost, {g.source}, 0)
  BY <1>2, StartIsRight
<1>6. LeadsBack
  <2>1. PICK d : Ranked(g, cost, pre, {g.source}, d)
    BY <1>5
  <2>2. d \in [Vertices(g) -> 0..g.n-1]
    BY <2>1 DEF Ranked
  <2>3. graph = g /\ used = {g.source}
    BY <1>1
  <2>4. QED BY <2>1, <2>2, <2>3 DEF LeadsBack
<1>7. NearestUsed
  <2>1. 0 \in 0..INT_MAX
    BY <1>3
  <2>2. graph = g /\ used = {g.source}
    BY <1>1
  <2>3. QED BY <1>5, <2>1, <2>2 DEF NearestUsed
<1>8. CandidatesOK
  BY <1>1 DEF CandidatesOK
<1>9. TurnsOK
  <2>1. Cardinality(used) = turn /\ ~Parallel(graph)
    BY <1>1, FS_Singleton
  <2>2. QED BY <2>1 DEF TurnsOK
<1>10. KnownIn(graph, cost, used) /\ Settled(graph, cost, used) /\ graph \in Graphs
  <2>1. graph = g /\ used = {g.source}
    BY <1>1
  <2>2. QED BY <1>5, <2>1
<1>11. QED BY <1>4, <1>6, <1>7, <1>8, <1>9, <1>10 DEF PathInv

\* A candidate that was used before changes nothing.
LEMMA UsedAgain ==
  ASSUME NEW g \in Graphs, NEW c \in [Vertices(g) -> 0..INT_MAX], NEW S, KnownIn(g, c, S),
         Settled(g, c, S), NEW x \in S,
         NEW c2 \in [Vertices(g) -> 0..INT_MAX], NEW p \in [Vertices(g) -> -1..g.n-1],
         NEW p2 \in [Vertices(g) -> -1..g.n-1], Improved(g, c, p, S, x, c2, p2)
  PROVE  c2 = c /\ p2 = p
<1>1. /\ INT_MAX \in Nat /\ S \in SUBSET Vertices(g) /\ g.source \in S /\ S \cup {x} = S
      /\ \A e \in Edge(g) : e.u \in Vertices(g) /\ e.v \in Vertices(g) /\ e.w \in Nat
      /\ \A y \in Vertices(g) : c[y] \in 0..INT_MAX
  BY GraphFacts DEF KnownIn
<1>2. \A e \in Edge(g) : e.u = x /\ e.v \notin S => c[e.v] <= c[x] + e.w
  <2> SUFFICES ASSUME NEW e \in Edge(g), e.u = x, e.v \notin S PROVE c[e.v] <= c[x] + e.w
    OBVIOUS
  <2>1. Dist(g, c, e.v) <= Dist(g, c, x) + e.w
    BY DEF Settled
  <2>2. Dist(g, c, e.v) = c[e.v] /\ Dist(g, c, x) <= c[x] /\ Dist(g, c, x) \in Nat
    BY <1>1 DEF Dist
  <2>3. e.w \in Nat /\ c[e.v] \in Nat /\ c[x] \in Nat
    BY <1>1
  <2>4. QED BY <2>1, <2>2, <2>3
<1>3. \A y \in Vertices(g) : c2[y] = c[y] /\ p2[y] = p[y]
  <2> SUFFICES ASSUME NEW y \in Vertices(g) PROVE c2[y] = c[y] /\ p2[y] = p[y]
    OBVIOUS
  <2>1. CASE y \in S
    BY <1>1, <2>1 DEF Improved
  <2>2. CASE y \notin S
    <3>1. SUFFICES ASSUME c2[y] < c[y], NEW e \in Edge(g), e.u = x, e.v = y, c2[y] = c[x] + e.w
                   PROVE  FALSE
      BY <1>1, <2>2 DEF Improved
    <3>2. c[y] <= c[x] + e.w
      BY <1>2, <2>2, <3>1
    <3>3. c[y] \in Nat /\ c2[y] \in Nat
      BY <1>1
    <3>4. QED BY <3>1, <3>2, <3>3
  <2>3. QED BY <2>1, <2>2
<1>4. QED BY <1>3

LEMMA DijkstraStep ==
  ASSUME PathInv, Dijkstra
  PROVE  PathInv'
<1> DEFINE x == assi[Cheapest]
           a == [cost |-> cost, pre |-> pre, assi |-> RemoveAt(assi, Cheapest)]
           r == RelaxedAfter(x, a)[Len(graph.edges)]
<1>1. program = "Dijkstra.cpp" /\ assi # <<>> /\ UNCHANGED <<program, graph, turn>>
  BY DEF Dijkstra
<1>2. cost' = r.cost /\ pre' = r.pre /\ assi' = r.assi /\ used' = used \cup {x}
  BY RelaxedOver, Zenon DEF Dijkstra
<1>3. /\ graph \in Graphs /\ PathTypeOK /\ KnownIn(graph, cost, used) /\ Settled(graph, cost, used)
      /\ LeadsBack /\ NearestUsed /\ CandidatesOK
  BY DEF PathInv
<1>4. /\ cost \in [Vertices(graph) -> 0..INT_MAX] /\ pre \in [Vertices(graph) -> -1..graph.n-1]
      /\ used \in SUBSET Vertices(graph) /\ assi \in Seq(Vertices(graph)) /\ turn \in 1..graph.n
  BY <1>3 DEF PathTypeOK
<1>5. INT_MAX \in Nat \ {0} /\ graph.n \in Nat
  BY <1>3, GraphFacts
<1>6. /\ Cheapest \in 1..Len(assi) /\ x \in Vertices(graph) /\ x \in ToSet(assi)
      /\ \A y \in ToSet(assi) : cost[x] <= cost[y]
  BY <1>1, <1>4, <1>5, CheapestIs
<1>7. /\ RemoveAt(assi, Cheapest) \in Seq(Vertices(graph))
      /\ \A y : y \in ToSet(RemoveAt(assi, Cheapest)) => y \in ToSet(assi)
      /\ \A y : y \in ToSet(assi) => y \in ToSet(RemoveAt(assi, Cheapest)) \/ y = x
  BY <1>4, <1>6, RemoveAtSet
<1>8. a \in Turns(graph) /\ a.cost = cost /\ a.pre = pre /\ a.assi = RemoveAt(assi, Cheapest)
  BY <1>4, <1>7 DEF Turns
<1>9. /\ \A y \in Vertices(graph) \ used : cost[y] < INT_MAX <=> y \in ToSet(assi)
      /\ \A y \in ToSet(assi) : cost[y] < INT_MAX
  BY <1>1, <1>3 DEF CandidatesOK
<1> HIDE DEF x, a, r
<1>10. cost[x] < INT_MAX /\ \A y \in Vertices(graph) \ used : cost[x] <= cost[y]
  <2>1. cost[x] < INT_MAX
    BY <1>6, <1>9
  <2>2. ASSUME NEW y \in Vertices(graph) \ used PROVE cost[x] <= cost[y]
    <3>1. CASE y \in ToSet(assi)
      BY <1>6, <3>1
    <3>2. CASE y \notin ToSet(assi)
      BY <1>4, <1>5, <1>6, <1>9, <2>1, <3>2
    <3>3. QED BY <3>1, <3>2
  <2>3. QED BY <2>1, <2>2
<1>11. PICK d \in [Vertices(graph) -> 0..graph.n-1] : Ranked(graph, cost, pre, used, d)
  BY <1>3 DEF LeadsBack
<1>12. PICK m \in 0..INT_MAX : Between(graph, cost, used, m)
  BY <1>3 DEF NearestUsed
<1>13. \A e \in Edge(graph) : e.u = x /\ e.v \notin used \cup {x} =>
         cost[x] + e.w < INT_MAX \/ cost[e.v] < INT_MAX
  <2> SUFFICES ASSUME NEW e \in Edge(graph), e.u = x, e.v \notin used \cup {x}
               PROVE  cost[x] + e.w < INT_MAX \/ cost[e.v] < INT_MAX
    OBVIOUS
  <2>1. CASE x \notin used
    BY <1>3, <1>4, <1>6, <1>10, <1>11, <2>1, StillShort
  <2>2. CASE x \in used
    <3>1. Reached(graph, cost, e.v)
      BY <1>3, <2>2 DEF Settled
    <3>2. e.v # graph.source
      BY <1>3 DEF KnownIn
    <3>3. QED BY <3>1, <3>2 DEF Reached
  <2>3. QED BY <2>1, <2>2
<1>14. /\ r \in Turns(graph)
       /\ Improved(graph, cost, pre, used, x, r.cost, r.pre)
       /\ \A y : y \in ToSet(r.assi) <=>
              \/ y \in ToSet(a.assi)
              \/ y \in Vertices(graph) \ (used \cup {x}) /\ cost[y] = INT_MAX /\ r.cost[y] < INT_MAX
  <2>1. r = RelaxedAfter(x, a)[Len(graph.edges)]
    BY DEF r
  <2>2. graph \in Graphs
    BY <1>3
  <2>3. r \in Turns(graph)
    BY <1>4, <1>6, <1>8, <1>13, <2>1, <2>2, RelaxedImproves
  <2>4. Improved(graph, cost, pre, used, x, r.cost, r.pre)
    BY <1>4, <1>6, <1>8, <1>13, <2>1, <2>2, RelaxedImproves
  <2>5. ToSet(r.assi) = ToSet(a.assi) \cup NewOnes(used \cup {x}, cost, r.cost)
    BY <1>4, <1>6, <1>8, <1>13, <2>1, <2>2, RelaxedImproves
  <2>6. QED BY <2>3, <2>4, <2>5 DEF NewOnes
<1>15. /\ r.cost \in [Vertices(graph) -> 0..INT_MAX] /\ r.pre \in [Vertices(graph) -> -1..graph.n-1]
       /\ r.assi \in Seq(Vertices(graph))
  BY <1>14 DEF Turns
<1>16. \/ x \in used /\ used \cup {x} = used /\ r.cost = cost /\ r.pre = pre
       \/ x \notin used
  <2>1. CASE x \in used
    <3>1. r.cost = cost /\ r.pre = pre
      BY <1>3, <1>4, <1>14, <1>15, <2>1, UsedAgain
    <3>2. QED BY <2>1, <3>1
  <2>2. QED BY <2>1
<1> DEFINE T == used \cup {x}
<1>17. /\ KnownIn(graph, r.cost, T) /\ Settled(graph, r.cost, T)
       /\ \E d2 : Ranked(graph, r.cost, r.pre, T, d2)
       /\ \E m2 \in 0..INT_MAX : Between(graph, r.cost, T, m2)
  <2>1. CASE x \in used
    <3>1. T = used /\ r.cost = cost /\ r.pre = pre
      BY <1>16, <2>1
    <3> HIDE DEF T
    <3>2. QED BY <1>3, <1>11, <1>12, <3>1
  <2>2. CASE x \notin used
    <3>1. x \in Vertices(graph) \ used
      BY <1>6, <2>2
    <3>2. /\ KnownIn(graph, r.cost, T) /\ Settled(graph, r.cost, T)
          /\ \E d2 : Ranked(graph, r.cost, r.pre, T, d2)
          /\ Between(graph, r.cost, T, cost[x])
      BY <1>3, <1>4, <1>10, <1>11, <1>12, <1>14, <1>15, <3>1, UseVertex
    <3>3. cost[x] \in 0..INT_MAX
      BY <1>4, <1>6
    <3>4. QED BY <3>2, <3>3
  <2>3. QED BY <2>1, <2>2
<1>18. \A y \in Vertices(graph) \ T : r.cost[y] < INT_MAX <=> y \in ToSet(r.assi)
  <2> SUFFICES ASSUME NEW y \in Vertices(graph) \ T
               PROVE  r.cost[y] < INT_MAX <=> y \in ToSet(r.assi)
    OBVIOUS
  <2>1. y \in ToSet(a.assi) <=> cost[y] < INT_MAX
    BY <1>7, <1>8, <1>9
  <2>2. r.cost[y] = cost[y] \/ r.cost[y] < cost[y]
    BY <1>14 DEF Improved
  <2>3. cost[y] \in 0..INT_MAX /\ r.cost[y] \in 0..INT_MAX
    BY <1>4, <1>15
  <2>4. y \in ToSet(r.assi) <=> cost[y] < INT_MAX \/ (cost[y] = INT_MAX /\ r.cost[y] < INT_MAX)
    BY <1>14, <2>1
  <2>5. QED BY <1>5, <2>2, <2>3, <2>4
<1>19. \A y \in ToSet(r.assi) : r.cost[y] < INT_MAX
  <2> SUFFICES ASSUME NEW y \in ToSet(r.assi) PROVE r.cost[y] < INT_MAX
    OBVIOUS
  <2>1. CASE y \in Vertices(graph) \ T
    BY <1>18, <2>1
  <2>2. CASE y \in T
    <3>1. r.cost[y] = cost[y] /\ y \in ToSet(assi)
      BY <1>7, <1>8, <1>14, <2>2 DEF Improved
    <3>2. QED BY <1>9, <3>1
  <2>3. y \in Vertices(graph)
    BY <1>15 DEF ToSet
  <2>4. QED BY <2>1, <2>2, <2>3
<1>20. graph' = graph /\ program' = program /\ turn' = turn
  BY <1>1
<1>21. PathTypeOK'
  <2>1. T \in SUBSET Vertices(graph)
    BY <1>4, <1>6
  <2>2. program \in {"Dijkstra.cpp", "Dijkstra2.cpp"}
    BY <1>1
  <2>3. QED BY <1>2, <1>4, <1>15, <1>20, <2>1, <2>2 DEF PathTypeOK, Vertices
<1>22. LeadsBack'
  <2>1. PICK d2 : Ranked(graph, r.cost, r.pre, T, d2)
    BY <1>17
  <2>2. d2 \in [Vertices(graph) -> 0..graph.n-1]
    BY <2>1 DEF Ranked
  <2>3. \E d3 \in [Vertices(graph) -> 0..graph.n-1] : Ranked(graph, r.cost, r.pre, T, d3)
    BY <2>1, <2>2
  <2>4. QED BY <1>2, <1>20, <2>3, Zenon DEF LeadsBack
<1>23. NearestUsed'
  BY <1>2, <1>17, <1>20, Zenon DEF NearestUsed
<1>24. CandidatesOK'
  <2>1. \A y \in Vertices(graph') \ used' : cost'[y] < INT_MAX <=> y \in ToSet(assi')
    BY <1>2, <1>18, <1>20
  <2>2. \A y \in ToSet(assi') : cost'[y] < INT_MAX
    BY <1>2, <1>19
  <2>3. QED BY <2>1, <2>2 DEF CandidatesOK
<1>25. TurnsOK'
  <2>1. program' # "Dijkstra2.cpp"
    BY <1>1, <1>20
  <2>2. QED BY <2>1 DEF TurnsOK
<1>26. (graph \in Graphs)' /\ KnownIn(graph, cost, used)' /\ Settled(graph, cost, used)'
  <2>1. graph' \in Graphs
    BY <1>3, <1>20
  <2>2. KnownIn(graph', cost', used') /\ Settled(graph', cost', used')
    BY <1>2, <1>17, <1>20
  <2>3. QED BY <2>1, <2>2
<1>27. QED BY <1>21, <1>22, <1>23, <1>24, <1>25, <1>26 DEF PathInv

LEMMA Dijkstra2Step ==
  ASSUME PathInv, Dijkstra2
  PROVE  PathInv'
<1> DEFINE x == Nearest
           shorter == {y \in Vertices(graph) \ (used \cup {x}) :
                         map(graph, x, y) < INT_MAX /\ cost[x] + map(graph, x, y) < cost[y]}
           T == used \cup {x}
<1>1. /\ program = "Dijkstra2.cpp" /\ turn < graph.n /\ turn' = turn + 1
      /\ UNCHANGED <<program, graph, assi>>
      /\ Unused = {} => UNCHANGED <<cost, pre, used>>
      /\ Unused # {} =>
           /\ used' = used \cup {x}
           /\ cost' = [y \in Vertices(graph) |->
                         IF y \in shorter THEN cost[x] + map(graph, x, y) ELSE cost[y]]
           /\ pre' = [y \in Vertices(graph) |-> IF y \in shorter THEN x ELSE pre[y]]
  BY Zenon DEF Dijkstra2
<1>2. /\ graph \in Graphs /\ PathTypeOK /\ KnownIn(graph, cost, used) /\ Settled(graph, cost, used)
      /\ LeadsBack /\ NearestUsed /\ TurnsOK
  BY DEF PathInv
<1>3. /\ cost \in [Vertices(graph) -> 0..INT_MAX] /\ pre \in [Vertices(graph) -> -1..graph.n-1]
      /\ used \in SUBSET Vertices(graph) /\ assi \in Seq(Vertices(graph)) /\ turn \in 1..graph.n
  BY <1>2 DEF PathTypeOK
<1>4. INT_MAX \in Nat \ {0} /\ graph.n \in Nat
  BY <1>2, GraphFacts
<1>5. graph' = graph /\ program' = program /\ assi' = assi
  BY <1>1
<1>6. turn' \in 1..graph.n
  BY <1>1, <1>3, <1>4
<1>7. CandidatesOK'
  BY <1>1, <1>5 DEF CandidatesOK
<1>8. ~Parallel(graph) /\ (Cardinality(used) = turn \/ Unused = {})
  BY <1>1, <1>2 DEF TurnsOK
<1>9. CASE Unused = {}
  <2>1. cost' = cost /\ pre' = pre /\ used' = used
    BY <1>1, <1>9
  <2>2. PathTypeOK'
    BY <1>1, <1>3, <1>5, <1>6, <2>1 DEF PathTypeOK, Vertices
  <2>3. LeadsBack' /\ NearestUsed'
    BY <1>2, <1>5, <2>1, Zenon DEF LeadsBack, NearestUsed
  <2>4. Unused' = {}
    BY <1>5, <1>9, <2>1 DEF Unused, Vertices
  <2>5. TurnsOK'
    <3>1. ~Parallel(graph')
      BY <1>5, <1>8
    <3>2. QED BY <2>4, <3>1 DEF TurnsOK
  <2>6. (graph \in Graphs)' /\ KnownIn(graph, cost, used)' /\ Settled(graph, cost, used)'
    <3>1. graph' \in Graphs /\ KnownIn(graph', cost', used') /\ Settled(graph', cost', used')
      BY <1>2, <1>5, <2>1
    <3>2. QED BY <3>1
  <2>7. QED BY <1>7, <2>2, <2>3, <2>5, <2>6 DEF PathInv
<1>10. CASE Unused # {}
  <2>1. /\ used' = T
        /\ cost' = [y \in Vertices(graph) |->
                      IF y \in shorter THEN cost[x] + map(graph, x, y) ELSE cost[y]]
        /\ pre' = [y \in Vertices(graph) |-> IF y \in shorter THEN x ELSE pre[y]]
    BY <1>1, <1>10
  <2>2. /\ x \in Vertices(graph) \ used /\ cost[x] < INT_MAX
        /\ \A y \in Vertices(graph) \ used : cost[x] <= cost[y]
    BY <1>2, <1>3, <1>10, NearestIs
  <2> HIDE DEF x
  <2>3. /\ \A y \in Vertices(graph) : map(graph, x, y) \in 0..INT_MAX
        /\ \A y \in Vertices(graph) : map(graph, x, y) < INT_MAX =>
             \E e \in Edge(graph) : e.u = x /\ e.v = y /\ map(graph, x, y) = e.w
        /\ \A e \in Edge(graph) : e.u = x => map(graph, x, e.v) = e.w /\ e.w < INT_MAX
    <3>1. \A e \in Edge(graph) : e.v \in Vertices(graph)
      BY <1>2, GraphFacts
    <3>2. QED BY <1>2, <1>8, <2>2, <3>1, MapIs
  <2> DEFINE c2 == [y \in Vertices(graph) |->
                      IF y \in shorter THEN cost[x] + map(graph, x, y) ELSE cost[y]]
             p2 == [y \in Vertices(graph) |-> IF y \in shorter THEN x ELSE pre[y]]
  <2>4. c2 \in [Vertices(graph) -> 0..INT_MAX]
    <3>1. \A y \in shorter : cost[x] + map(graph, x, y) \in 0..INT_MAX
      BY <1>3, <1>4, <2>2, <2>3
    <3> HIDE DEF shorter
    <3>2. QED BY <1>3, <3>1
  <2>5. p2 \in [Vertices(graph) -> -1..graph.n-1]
    <3>1. x \in -1..graph.n-1
      BY <1>2, <2>2, GraphFacts
    <3> HIDE DEF shorter
    <3>2. QED BY <1>3, <3>1
  <2>6. Improved(graph, cost, pre, used, x, c2, p2)
    <3>1. \A y \in T : c2[y] = cost[y] /\ p2[y] = pre[y]
      BY <1>3, <2>2
    <3>2. ASSUME NEW y \in Vertices(graph) \ T
          PROVE  \/ c2[y] = cost[y] /\ p2[y] = pre[y]
                 \/ /\ p2[y] = x /\ c2[y] < cost[y]
                    /\ \E e \in Edge(graph) : e.u = x /\ e.v = y /\ c2[y] = cost[x] + e.w
      <4>1. CASE y \in shorter
        <5>1. c2[y] = cost[x] + map(graph, x, y) /\ p2[y] = x /\ c2[y] < cost[y]
              /\ map(graph, x, y) < INT_MAX
          BY <4>1
        <5>2. PICK e \in Edge(graph) : e.u = x /\ e.v = y /\ map(graph, x, y) = e.w
          BY <2>3, <5>1
        <5>3. QED BY <5>1, <5>2
      <4>2. CASE y \notin shorter
        BY <4>2
      <4>3. QED BY <4>1, <4>2
    <3>3. ASSUME NEW e \in Edge(graph), e.u = x, e.v \notin T PROVE c2[e.v] <= cost[x] + e.w
      <4>1. map(graph, x, e.v) = e.w /\ e.w < INT_MAX /\ e.v \in Vertices(graph) \ T /\ e.w \in Nat
        BY <1>2, <2>3, <3>3, GraphFacts
      <4>2. cost[e.v] \in 0..INT_MAX /\ cost[x] \in 0..INT_MAX
        BY <1>3, <2>2, <4>1
      <4>3. CASE e.v \in shorter
        <5>1. c2[e.v] = cost[x] + e.w
          BY <4>1, <4>3
        <5>2. QED BY <1>4, <4>1, <4>2, <5>1
      <4>4. CASE e.v \notin shorter
        <5>1. ~ (cost[x] + e.w < cost[e.v])
          BY <4>1, <4>4
        <5>2. c2[e.v] = cost[e.v]
          BY <4>1, <4>4
        <5>3. QED BY <1>4, <4>1, <4>2, <5>1, <5>2
      <4>5. QED BY <4>3, <4>4
    <3> HIDE DEF c2, p2, shorter
    <3>4. QED BY <3>1, <3>2, <3>3 DEF Improved
  <2>7. PICK d \in [Vertices(graph) -> 0..graph.n-1] : Ranked(graph, cost, pre, used, d)
    BY <1>2 DEF LeadsBack
  <2>8. PICK m \in 0..INT_MAX : Between(graph, cost, used, m)
    BY <1>2 DEF NearestUsed
  <2>9. cost' = c2 /\ pre' = p2 /\ used' = T
    BY <2>1
  <2> HIDE DEF c2, p2, shorter
  <2>10. /\ KnownIn(graph, c2, T) /\ Settled(graph, c2, T)
         /\ \E d2 : Ranked(graph, c2, p2, T, d2)
         /\ Between(graph, c2, T, cost[x])
    BY <1>2, <1>3, <2>2, <2>4, <2>6, <2>7, <2>8, UseVertex
  <2>11. PathTypeOK'
    <3>1. T \in SUBSET Vertices(graph)
      BY <1>3, <2>2
    <3>2. program \in {"Dijkstra.cpp", "Dijkstra2.cpp"}
      BY <1>1
    <3>3. QED BY <1>3, <1>5, <1>6, <2>4, <2>5, <2>9, <3>1, <3>2 DEF PathTypeOK, Vertices
  <2>12. LeadsBack'
    <3>1. PICK d2 : Ranked(graph, c2, p2, T, d2)
      BY <2>10
    <3>2. d2 \in [Vertices(graph) -> 0..graph.n-1]
      BY <3>1 DEF Ranked
    <3>3. \E d3 \in [Vertices(graph) -> 0..graph.n-1] : Ranked(graph, c2, p2, T, d3)
      BY <3>1, <3>2
    <3>4. QED BY <1>5, <2>9, <3>3, Zenon DEF LeadsBack
  <2>13. NearestUsed'
    <3>1. cost[x] \in 0..INT_MAX
      BY <1>3, <2>2
    <3>2. \E m2 \in 0..INT_MAX : Between(graph, c2, T, m2)
      BY <2>10, <3>1
    <3>3. QED BY <1>5, <2>9, <3>2, Zenon DEF NearestUsed
  <2>14. TurnsOK'
    <3>1. Cardinality(T) = turn + 1
      BY <1>2, <1>3, <1>8, <1>10, <2>2, UsedOnes
    <3>2. Cardinality(used') = turn' /\ ~Parallel(graph')
      BY <1>1, <1>5, <1>8, <2>9, <3>1
    <3>3. QED BY <3>2 DEF TurnsOK
  <2>15. (graph \in Graphs)' /\ KnownIn(graph, cost, used)' /\ Settled(graph, cost, used)'
    <3>1. graph' \in Graphs /\ KnownIn(graph', cost', used') /\ Settled(graph', cost', used')
      BY <1>2, <1>5, <2>9, <2>10
    <3>2. QED BY <3>1
  <2>16. QED BY <1>7, <2>11, <2>12, <2>13, <2>14, <2>15 DEF PathInv
<1>11. QED BY <1>9, <1>10

-----------------------------------------------------------------------------
(* What the invariant says of a vertex.                                    *)

Back(g, p) ==
  CHOOSE f : f = [k \in Nat |->
    IF k = 0 THEN {g.source}
    ELSE f[k - 1] \cup {x \in Vertices(g) \ {g.source} : p[x] \in f[k - 1]}]

LEMMA BackIs ==
  ASSUME NEW g \in Graphs, NEW p
  PROVE  /\ Back(g, p)[0] = {g.source}
         /\ \A k \in Nat : Back(g, p)[k + 1] =
              Back(g, p)[k] \cup {x \in Vertices(g) \ {g.source} : p[x] \in Back(g, p)[k]}
<1> DEFINE A == SUBSET Vertices(g)
           Beginning(b) == b \cup {x \in Vertices(g) \ {g.source} : p[x] \in b}
           step == [b \in A |-> Beginning(b)]
           Is(f) == f = [k \in Nat |-> IF k = 0 THEN {g.source} ELSE Beginning(f[k - 1])]
<1>1. {g.source} \in A /\ step \in [A -> A]
  BY GraphFacts
<1>2. PICK f \in [Nat -> A] : f = [k \in Nat |-> IF k = 0 THEN {g.source} ELSE step[f[k - 1]]]
  <2> HIDE DEF A, step
  <2> QED BY <1>1, IterationExists
<1>3. \A k \in Nat : k # 0 => f[k - 1] \in A
  <2>1. \A k \in Nat : k # 0 => k - 1 \in Nat
    OBVIOUS
  <2> HIDE DEF A
  <2>2. QED BY <1>2, <2>1
<1>4. \A k \in Nat : k # 0 => step[f[k - 1]] = Beginning(f[k - 1])
  <2> HIDE DEF A, Beginning
  <2> QED BY <1>3
<1>5. Is(f)
  <2> HIDE DEF A, step, Beginning
  <2> QED BY <1>2, <1>4
<1>6. Back(g, p) = CHOOSE k : Is(k)
  BY DEF Back
<1>7. Is(Back(g, p))
  <2> HIDE DEF Is
  <2> QED BY <1>5, <1>6
<1> DEFINE B == Back(g, p)
<1>8. B = [k \in Nat |-> IF k = 0 THEN {g.source} ELSE Beginning(B[k - 1])]
  BY <1>7
<1> HIDE DEF B, Beginning
<1>9. B[0] = {g.source}
  BY <1>8
<1>10. ASSUME NEW k \in Nat PROVE B[k + 1] = Beginning(B[k])
  <2>1. k + 1 \in Nat /\ k + 1 # 0 /\ (k + 1) - 1 = k
    OBVIOUS
  <2>2. B[k + 1] = Beginning(B[(k + 1) - 1])
    BY <1>8, <2>1
  <2>3. QED BY <2>1, <2>2
<1>11. QED BY <1>9, <1>10 DEF B, Beginning

LEMMA RankLeadsBack ==
  ASSUME NEW g \in Graphs, NEW c \in [Vertices(g) -> 0..INT_MAX], NEW S, KnownIn(g, c, S),
         NEW p, NEW r, Ranked(g, c, p, S, r)
  PROVE  \A y \in Vertices(g) : Reached(g, c, y) => y \in Back(g, p)[g.n - 1]
<1> DEFINE V == Vertices(g)
           B == Back(g, p)
           L(k) == \A y \in V : Reached(g, c, y) /\ r[y] <= k => y \in B[k]
           N == {k \in Nat : L(k)}
<1>1. /\ g.source \in V /\ S \in SUBSET V /\ g.n \in Nat \ {0}
      /\ \A x \in V : r[x] \in 0..g.n-1
      /\ \A x \in S : Reached(g, c, x)
  BY GraphFacts DEF KnownIn, Ranked
<1>2. \A y \in V \ {g.source} : c[y] < INT_MAX => p[y] \in S /\ r[p[y]] < r[y]
  BY DEF Ranked
<1>3. /\ B[0] = {g.source}
      /\ \A k \in Nat : B[k + 1] = B[k] \cup {x \in V \ {g.source} : p[x] \in B[k]}
  BY BackIs
<1> HIDE DEF V, B
<1>4. \A k \in Nat : g.source \in B[k]
  <2> DEFINE M == {k \in Nat : g.source \in B[k]}
  <2>1. 0 \in M
    BY <1>3
  <2>2. \A k \in M : k + 1 \in M
    BY <1>3
  <2>3. M = Nat
    <3> HIDE DEF M
    <3>1. M \in SUBSET Nat
      BY DEF M
    <3>2. QED BY <2>1, <2>2, <3>1, Inductive
  <2>4. QED BY <2>3
<1>5. 0 \in N
  <2>1. ASSUME NEW y \in V, Reached(g, c, y), r[y] <= 0 PROVE y \in B[0]
    <3>1. y = g.source
      <4>1. SUFFICES ASSUME c[y] < INT_MAX, y # g.source PROVE FALSE
        BY <2>1 DEF Reached
      <4>2. p[y] \in V /\ r[p[y]] < r[y]
        BY <1>1, <1>2, <4>1
      <4>3. QED BY <1>1, <2>1, <4>2
    <3>2. QED BY <1>3, <3>1
  <2>2. QED BY <2>1
<1>6. ASSUME NEW k \in N PROVE k + 1 \in N
  <2>1. k \in Nat /\ k + 1 \in Nat /\ L(k)
    OBVIOUS
  <2>2. ASSUME NEW y \in V, Reached(g, c, y), r[y] <= k + 1 PROVE y \in B[k + 1]
    <3>1. CASE y = g.source
      BY <1>4, <2>1, <3>1
    <3>2. CASE y # g.source
      <4>1. p[y] \in S /\ r[p[y]] < r[y]
        BY <1>2, <2>2, <3>2 DEF Reached
      <4>2. p[y] \in V /\ Reached(g, c, p[y]) /\ r[p[y]] <= k
        BY <1>1, <2>1, <2>2, <4>1
      <4>3. p[y] \in B[k]
        BY <2>1, <4>2
      <4>4. QED BY <1>3, <2>1, <3>2, <4>3
    <3>3. QED BY <3>1, <3>2
  <2>3. L(k + 1)
    BY <2>2
  <2>4. QED BY <2>1, <2>3
<1>7. N = Nat
  <2> HIDE DEF N
  <2>1. N \in SUBSET Nat
    BY DEF N
  <2>2. QED BY <1>5, <1>6, <2>1, Inductive
<1>8. g.n - 1 \in N /\ \A y \in V : r[y] <= g.n - 1
  <2>1. g.n - 1 \in Nat
    BY <1>1
  <2> HIDE DEF N
  <2>2. QED BY <1>1, <1>7, <2>1
<1>9. QED BY <1>8 DEF V, B

LEMMA UsedIsShortestHolds ==
  ASSUME PathInv
  PROVE  UsedIsShortest
<1> DEFINE k == graph.n - 1
<1>1. /\ graph \in Graphs /\ PathTypeOK /\ KnownIn(graph, cost, used) /\ Settled(graph, cost, used)
      /\ LeadsBack /\ NearestUsed /\ CandidatesOK /\ TurnsOK
  BY DEF PathInv
<1>2. /\ cost \in [Vertices(graph) -> 0..INT_MAX]
      /\ used \in SUBSET Vertices(graph) /\ turn \in 1..graph.n
      /\ program \in {"Dijkstra.cpp", "Dijkstra2.cpp"}
  BY <1>1 DEF PathTypeOK
<1>3. INT_MAX \in Nat \ {0} /\ graph.n \in Nat \ {0} /\ k \in Nat
  BY <1>1, GraphFacts
<1>4. PICK r \in [Vertices(graph) -> 0..graph.n-1] : Ranked(graph, cost, pre, used, r)
  BY <1>1 DEF LeadsBack
<1>5. PICK m \in 0..INT_MAX : Between(graph, cost, used, m)
  BY <1>1 DEF NearestUsed
<1>6. SUFFICES ASSUME NEW x \in Vertices(graph) \ {graph.source}, x \in used \/ Done
               PROVE  cost[x] = Within(graph)[k][x]
  BY ShortestIsWithin DEF UsedIsShortest
<1>7. cost[x] \in 0..INT_MAX /\ Dist(graph, cost, x) = cost[x] /\ r[x] \in 0..graph.n-1
  BY <1>2, <1>4, <1>6 DEF Dist
<1>8. Within(graph)[k][x] \in Nat
  BY <1>1, <1>3, WithinIs
<1>9. /\ Reached(graph, cost, x) /\ r[x] <= k => Within(graph)[k][x] <= Dist(graph, cost, x)
      /\ Within(graph)[k][x] <= IF x = graph.source THEN 0 ELSE INT_MAX
  BY <1>1, <1>2, <1>3, <1>4, PathIsWithin
<1>10. r[x] <= k
  BY <1>3, <1>7
<1>11. CASE x \in used
  <2>1. cost[x] <= Within(graph)[k][x]
    BY <1>1, <1>2, <1>3, <1>5, <1>7, <1>11, NoneIsShorter
  <2>2. Reached(graph, cost, x)
    BY <1>1, <1>11 DEF KnownIn
  <2> HIDE DEF k
  <2>3. QED BY <1>3, <1>7, <1>8, <1>9, <1>10, <2>1, <2>2
<1>12. CASE x \notin used
  <2>1. Done
    BY <1>6, <1>12
  <2>2. \A y \in Vertices(graph) \ used : cost[y] = INT_MAX
    <3>1. CASE program = "Dijkstra.cpp"
      <4>1. assi = <<>>
        BY <2>1, <3>1 DEF Done
      <4>2. ToSet(assi) = {}
        BY <4>1 DEF ToSet
      <4>3. \A y \in Vertices(graph) \ used : ~ (cost[y] < INT_MAX)
        BY <1>1, <3>1, <4>2 DEF CandidatesOK
      <4>4. QED BY <1>2, <1>3, <4>3
    <3>2. CASE program = "Dijkstra2.cpp"
      <4>1. turn = graph.n
        BY <1>2, <1>3, <2>1, <3>2 DEF Done
      <4>2. Cardinality(used) = turn \/ Unused = {}
        BY <1>1, <3>2 DEF TurnsOK
      <4>3. Cardinality(used) # graph.n
        <5>1. Cardinality(used) = graph.n => used = Vertices(graph)
          BY <1>1, <1>2, UsedOnes
        <5>2. QED BY <1>6, <1>12, <5>1
      <4>4. Unused = {}
        BY <4>1, <4>2, <4>3
      <4>5. \A y \in Vertices(graph) \ used : ~ (cost[y] < INT_MAX)
        BY <4>4 DEF Unused
      <4>6. QED BY <1>2, <1>3, <4>5
    <3>3. QED BY <1>2, <3>1, <3>2
  <2>3. Between(graph, cost, used, INT_MAX)
    <3>1. \A y \in used : Dist(graph, cost, y) <= INT_MAX
      BY <1>2, <1>3 DEF Dist
    <3>2. \A y \in Vertices(graph) \ used : INT_MAX <= cost[y]
      BY <1>3, <2>2
    <3>3. INT_MAX \in 0..INT_MAX
      BY <1>3
    <3>4. QED BY <3>1, <3>2, <3>3 DEF Between
  <2>4. INT_MAX <= Within(graph)[k][x]
    <3>1. INT_MAX \in 0..INT_MAX
      BY <1>3
    <3>2. QED BY <1>1, <1>2, <1>3, <1>6, <1>12, <2>3, NoneIsShorter
  <2>5. cost[x] = INT_MAX /\ Within(graph)[k][x] <= INT_MAX
    BY <1>6, <1>9, <1>12, <2>2
  <2> HIDE DEF k
  <2>6. QED BY <1>3, <1>8, <2>4, <2>5
<1>13. QED BY <1>11, <1>12

LEMMA PreLeadsToSourceHolds ==
  ASSUME PathInv
  PROVE  PreLeadsToSource
<1>1. /\ graph \in Graphs /\ KnownIn(graph, cost, used) /\ LeadsBack
      /\ cost \in [Vertices(graph) -> 0..INT_MAX]
  BY DEF PathInv, PathTypeOK
<1>2. PICK r \in [Vertices(graph) -> 0..graph.n-1] : Ranked(graph, cost, pre, used, r)
  BY <1>1 DEF LeadsBack
<1>3. SUFFICES ASSUME NEW x \in Vertices(graph) \ {graph.source}, cost[x] < INT_MAX
               PROVE  /\ x \in Back(graph, pre)[graph.n - 1]
                      /\ \E e \in ToSet(graph.edges) :
                           /\ e.u = pre[x] /\ e.v = x
                           /\ cost[x] = e.w + IF pre[x] = graph.source THEN 0 ELSE cost[pre[x]]
  BY DEF PreLeadsToSource, Back
<1>4. x \in Back(graph, pre)[graph.n - 1]
  BY <1>1, <1>2, <1>3, RankLeadsBack DEF Reached
<1>5. PICK e \in Edge(graph) : e.u = pre[x] /\ e.v = x /\ cost[x] = Dist(graph, cost, pre[x]) + e.w
  BY <1>2, <1>3 DEF Ranked
<1>6. pre[x] \in Vertices(graph)
  BY <1>1, <1>2, <1>3 DEF Ranked, KnownIn
<1>7. Dist(graph, cost, pre[x]) \in Nat /\ e.w \in Nat
  BY <1>1, <1>6, GraphFacts DEF Dist
<1>8. cost[x] = e.w + Dist(graph, cost, pre[x])
  BY <1>5, <1>7
<1>9. e \in ToSet(graph.edges) /\ e.u = pre[x] /\ e.v = x
  BY <1>5 DEF Edge
<1>10. cost[x] = e.w + IF pre[x] = graph.source THEN 0 ELSE cost[pre[x]]
  BY <1>8, Zenon DEF Dist
<1>11. QED BY <1>4, <1>9, <1>10

LEMMA PathStep ==
  ASSUME PathInv, [PathNext]_pathVars
  PROVE  PathInv'
<1>1. CASE Dijkstra
  BY <1>1, DijkstraStep
<1>2. CASE Dijkstra2
  BY <1>2, Dijkstra2Step
<1>3. CASE UNCHANGED pathVars
  <2>1. /\ program' = program /\ graph' = graph /\ cost' = cost /\ pre' = pre /\ used' = used
        /\ assi' = assi /\ turn' = turn
    BY <1>3 DEF pathVars
  <2>2. PathTypeOK' /\ LeadsBack' /\ NearestUsed' /\ CandidatesOK'
    BY <2>1, Zenon DEF PathInv, PathTypeOK, LeadsBack, NearestUsed, CandidatesOK, Vertices
  <2>3. TurnsOK'
    BY <2>1, Zenon DEF PathInv, TurnsOK, Unused, Vertices
  <2>4. (graph \in Graphs)' /\ KnownIn(graph, cost, used)' /\ Settled(graph, cost, used)'
    <3>1. graph' \in Graphs /\ KnownIn(graph', cost', used') /\ Settled(graph', cost', used')
      BY <2>1, Zenon DEF PathInv
    <3>2. QED BY <3>1
  <2>5. QED BY <2>2, <2>3, <2>4 DEF PathInv
<1>4. QED BY <1>1, <1>2, <1>3 DEF PathNext

\* Both programs find the shortest paths in every graph without parallel edges
\* from the source whose paths are all shorter than INT_MAX: what has been used
\* is final at every turn (Dijkstra.cpp 60, Dijkstra2.cpp 51), the predecessors
\* lead back to the source at the cost that is kept, and no candidate is lost.
THEOREM PathsAreShortest == PathSpec => []PathsCorrect
<1>1. PathInit => PathInv
  BY ListInit, MatrixInit DEF PathInit
<1>2. PathInv /\ [PathNext]_pathVars => PathInv'
  BY PathStep
<1>3. PathInv => PathsCorrect
  <2>1. PathInv => PathTypeOK
    BY DEF PathInv
  <2>2. PathInv => NoneForgotten
    BY Zenon DEF PathInv, CandidatesOK, NoneForgotten
  <2>3. QED BY <2>1, <2>2, UsedIsShortestHolds, PreLeadsToSourceHolds DEF PathsCorrect
<1>4. QED BY <1>1, <1>2, <1>3, PTL DEF PathSpec
=============================================================================
