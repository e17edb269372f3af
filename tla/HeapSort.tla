------------------------------ MODULE HeapSort ------------------------------
(***************************************************************************)
(* heap_sort of algo/headsort.c: the array is made a heap from its middle  *)
(* down, then its greatest element goes to the end of what is left.        *)
(***************************************************************************)
EXTENDS ArraySort

VARIABLES
  loop,    \* "build", "extract": the loop that is run; "done"
  i,       \* of that loop
  dad      \* of max_heapify while it runs, or -1

heapVars == <<arrayVars, loop, i, dad>>

\* Variant with a bug: the last father is left out.
LastFather_Before(n) == n \div 2 - 2

\* The last node that has a son.
LastFather(n) == n \div 2 - 1

HeapStart(n, a) ==
  /\ Called(n, a)
  /\ loop = "build" /\ i = LastFather(n) /\ dad = -1

\* The end of the heap, which the running call of max_heapify was given.
last == IF loop = "build" THEN len - 1 ELSE IF dad = -1 THEN i ELSE i - 1

\* Variant with a bug: the first son is taken always.
Son_First(d) == 2 * d + 1

\* The greater son of d.
Son(d) == LET s == 2 * d + 1 IN IF s + 1 <= last /\ arr[s] < arr[s + 1] THEN s + 1 ELSE s

build ==
  /\ loop = "build" /\ dad = -1 /\ i >= 0
  /\ dad' = i
  /\ UNCHANGED <<arrayVars, loop, i>>

built ==
  /\ loop = "build" /\ dad = -1 /\ i < 0
  /\ loop' = "extract" /\ i' = len - 1
  /\ UNCHANGED <<arrayVars, dad>>

extract ==
  /\ loop = "extract" /\ dad = -1 /\ i > 0
  /\ swap(0, i) /\ dad' = 0
  /\ UNCHANGED <<loop, i>>

\* max_heapify: dad changes places with its greater son, or is where it belongs.
max_heapify_sinks ==
  /\ dad # -1 /\ 2 * dad + 1 <= last /\ arr[dad] <= arr[Son(dad)]
  /\ swap(dad, Son(dad)) /\ dad' = Son(dad)
  /\ UNCHANGED <<loop, i>>

max_heapify_returns ==
  /\ dad # -1 /\ ~(2 * dad + 1 <= last /\ arr[dad] <= arr[Son(dad)])
  /\ dad' = -1 /\ i' = i - 1
  /\ UNCHANGED <<arrayVars, loop>>

extracted ==
  /\ loop = "extract" /\ dad = -1 /\ i <= 0
  /\ loop' = "done"
  /\ UNCHANGED <<arrayVars, i, dad>>

heap_sort == build \/ built \/ extract \/ max_heapify_sinks \/ max_heapify_returns \/ extracted

HeapInit == \E n \in Lengths : \E a \in [0..n-1 -> Values] : HeapStart(n, a)

HeapSpec == HeapInit /\ [][heap_sort]_heapVars

-----------------------------------------------------------------------------

HeapTypeOK ==
  /\ len \in Nat /\ arr \in [0..len-1 -> Int]
  /\ loop \in {"build", "extract", "done"}
  /\ i \in -1..len-1 /\ dad \in -1..len-1

Dad(s) == (s - 1) \div 2

\* From lowest on the array is a heap.
lowest == IF loop # "build" THEN 0 ELSE IF dad = -1 THEN i + 1 ELSE i

\* No node of the heap is greater than its father, but for the sons of the one
\* that is sinking; those are not greater than its father (headsort.c 10).
HeapOrder ==
  \A s \in 1..last : Dad(s) >= lowest =>
    IF Dad(s) # dad THEN arr[s] <= arr[Dad(s)]
    ELSE (dad > 0 /\ Dad(dad) >= lowest) => arr[s] <= arr[Dad(dad)]

\* What was taken out is sorted, and not less than anything that is left
\* (headsort.c 31).
TailSorted ==
  loop # "build" => \A j, k \in 0..len-1 : (j < k /\ last < k) => arr[j] <= arr[k]

\* At the end the array is sorted.
HeapSorts == loop = "done" => Ordered

\* heap_sort is correct at every step: no index leaves the array, no element is
\* lost, the heap is one but for the node that sinks, what was taken out of it
\* is sorted, and at the end all of the array is (headsort.c 8 to 36).
HeapSortCorrect ==
  /\ HeapTypeOK
  /\ KeepsElements
  /\ HeapOrder
  /\ TailSorted
  /\ HeapSorts
=============================================================================
