------------------------------- MODULE Walks -------------------------------
(***************************************************************************)
(* What a loop over a linked structure meets, as a sequence: it starts at  *)
(* x and follows the pointers n as long as they lead to nodes of C.        *)
(***************************************************************************)
EXTENDS Integers, Sequences

Walk(x, n, C) ==
  LET from[e \in C] == <<e>> \o (IF n[e] \in C THEN from[n[e]] ELSE <<>>)
  IN  IF x \in C THEN from[x] ELSE <<>>

(* The nodes C stand in a line s: the walk from x meets each of them once. *)
Line(s, x, n, C) ==
  /\ s \in Seq(C) /\ \A e \in C : \E i \in 1..Len(s) : e = s[i]
  /\ \A i, j \in 1..Len(s) : s[i] = s[j] => i = j
  /\ IF s = <<>> THEN x \notin C ELSE x = s[1] /\ n[s[Len(s)]] \notin C
  /\ \A i \in 1..Len(s)-1 : n[s[i]] = s[i + 1]

=============================================================================
