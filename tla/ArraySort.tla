----------------------------- MODULE ArraySort -----------------------------
(***************************************************************************)
(* What algo/headsort.c and algo/qsort.c have in common: an array of int,  *)
(* indexed from 0, whose elements change their places only by swap.        *)
(***************************************************************************)
EXTENDS Integers

CONSTANTS
  Lengths,    \* the lengths of the arrays a sort is called with
  Values      \* and their elements

ASSUME ArraysAssumption == Lengths \subseteq Nat /\ Values \subseteq Int

VARIABLES
  arr,      \* arr[]
  len,      \* len
  input,    \* observation: the array as it was
  from      \* observation: where the element that is now here was then

arrayVars == <<arr, len, input, from>>

Called(n, a) ==
  /\ arr = a /\ len = n /\ input = a
  /\ from = [x \in 0..n-1 |-> x]

\* Variant with a bug: the element of x is lost.
Exchanged_Lost(f, x, y) == [f EXCEPT ![x] = f[y], ![y] = @]

Exchanged(f, x, y) == [f EXCEPT ![x] = f[y], ![y] = f[x]]

swap(x, y) ==
  /\ arr' = Exchanged(arr, x, y)
  /\ from' = [from EXCEPT ![x] = from[y], ![y] = from[x]]
  /\ UNCHANGED <<len, input>>

\* The elements are those that the array was called with, each as often as it
\* was there: from is one to one, and arr is the input through it.
KeepsElements ==
  /\ DOMAIN arr = 0..len-1 /\ from \in [0..len-1 -> 0..len-1]
  /\ \A i \in 0..len-1 : arr[i] = input[from[i]]
  /\ \A i, j \in 0..len-1 : from[i] = from[j] => i = j

Ordered == \A i, j \in 0..len-1 : i < j => arr[i] <= arr[j]
=============================================================================
