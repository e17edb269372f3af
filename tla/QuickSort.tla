----------------------------- MODULE QuickSort -----------------------------
(***************************************************************************)
(* quick_sort of algo/qsort.c.  calls is the stack: the ranges that are    *)
(* still to be sorted, the running call of quick_sort_recursive first.     *)
(***************************************************************************)
EXTENDS ArraySort, Sequences

VARIABLES
  calls,          \* start and end of each call
  left, right,    \* of the running call
  at              \* where the running call is

quickVars == <<arrayVars, calls, left, right, at>>

QuickStart(n, a) ==
  /\ Called(n, a)
  /\ calls = <<[start |-> 0, end |-> n - 1]>>
  /\ left = 0 /\ right = 0 /\ at = "enter"

start == calls[1].start
end == calls[1].end

\* The pivot: nothing is swapped with end before the loop has ended.
mid == arr[end]

\* A range of one element, or none, is sorted.
returns ==
  /\ at = "enter" /\ calls # <<>> /\ start >= end
  /\ calls' = Tail(calls)
  /\ UNCHANGED <<arrayVars, left, right, at>>

enters ==
  /\ at = "enter" /\ calls # <<>> /\ start < end
  /\ left' = start /\ right' = end - 1
  /\ at' = IF start < end - 1 THEN "left" ELSE "split"
  /\ UNCHANGED <<arrayVars, calls>>

left_goes_on ==
  /\ at = "left" /\ arr[left] < mid /\ left < right
  /\ left' = left + 1
  /\ UNCHANGED <<arrayVars, calls, right, at>>

left_stops ==
  /\ at = "left" /\ ~(arr[left] < mid /\ left < right)
  /\ at' = "right"
  /\ UNCHANGED <<arrayVars, calls, left, right>>

right_goes_on ==
  /\ at = "right" /\ arr[right] >= mid /\ left < right
  /\ right' = right - 1
  /\ UNCHANGED <<arrayVars, calls, left, at>>

\* The two are swapped, met or not.
right_stops ==
  /\ at = "right" /\ ~(arr[right] >= mid /\ left < right)
  /\ swap(left, right)
  /\ at' = IF left < right THEN "left" ELSE "split"
  /\ UNCHANGED <<calls, left, right>>

\* Variant with a bug: both calls work on the pivot.
Recurses_With(l) ==
  <<[start |-> start, end |-> l]>> \o <<[start |-> l, end |-> end]>> \o Tail(calls)

\* Variant with a bug: the end is a length.
Recurses_Length(l) ==
  (IF l # 0 THEN <<[start |-> start, end |-> l - 1]>> ELSE <<>>)
  \o <<[start |-> l + 1, end |-> end + 1]>> \o Tail(calls)

\* The two calls that quick_sort_recursive ends with.
Recurses(l) ==
  (IF l # 0 THEN <<[start |-> start, end |-> l - 1]>> ELSE <<>>)
  \o <<[start |-> l + 1, end |-> end]>> \o Tail(calls)

\* Variant with a bug: an element is taken for a smaller one.
Belongs_Not(l) == arr[l] > arr[end] + 1

\* The element at l belongs behind the pivot.
Belongs(l) == arr[l] >= arr[end]

splits ==
  /\ at = "split"
  /\ \/ /\ Belongs(left)
        /\ swap(left, end)
        /\ calls' = Recurses(left) /\ left' = left
     \/ /\ ~Belongs(left)
        /\ left' = left + 1 /\ calls' = Recurses(left + 1)
        /\ UNCHANGED arrayVars
  /\ at' = "enter" /\ UNCHANGED right

quick_sort ==
  \/ returns \/ enters \/ left_goes_on \/ left_stops \/ right_goes_on \/ right_stops
  \/ splits

QuickInit == \E n \in Lengths : \E a \in [0..n-1 -> Values] : QuickStart(n, a)

QuickSpec == QuickInit /\ [][quick_sort]_quickVars

-----------------------------------------------------------------------------

\* Every index is one of the array, in the whole of its run.
QuickTypeOK ==
  /\ len \in Nat /\ arr \in [0..len-1 -> Int]
  /\ calls \in Seq([start : 0..len, end : -1..len-1])
  /\ left \in 0..len /\ right \in 0..len /\ at \in {"enter", "left", "right", "split"}
  /\ at # "enter" =>
       /\ calls # <<>> /\ 0 <= start /\ start < end /\ end < len
       /\ start <= left /\ left <= right /\ right < end

InCall(k, i) == calls[k].start <= i /\ i <= calls[k].end

\* Two elements that no call will compare any more are in their order: also the
\* one that a call leaves out when it did not swap it with the pivot
\* (qsort.c 22), which then has to be the pivot.
ApartIsOrdered ==
  \A i, j \in 0..len-1 :
    i < j => \/ \E k \in 1..Len(calls) : InCall(k, i) /\ InCall(k, j)
             \/ arr[i] <= arr[j]

\* No two calls work on the same element.
CallsApart ==
  \A k, l \in 1..Len(calls) : k # l => \A i \in 0..len-1 : ~(InCall(k, i) /\ InCall(l, i))

\* When the last call has returned the array is sorted.
QuickSorts == calls = <<>> => Ordered

\* quick_sort is correct at every step: no index leaves the array, no element
\* is lost, the calls under way do not overlap, what none of them will compare
\* is in order, and at the end all of the array is (qsort.c 7 to 30).
QuickSortCorrect ==
  /\ QuickTypeOK
  /\ KeepsElements
  /\ CallsApart
  /\ ApartIsOrdered
  /\ QuickSorts

=============================================================================
