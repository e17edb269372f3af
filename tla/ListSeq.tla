------------------------------ MODULE ListSeq ------------------------------
(***************************************************************************)
(* What list.h promises: every head stands for a sequence of entries, and  *)
(* each call changes the sequences as its name says.                       *)
(***************************************************************************)
EXTENDS SequencesExt

CONSTANTS Heads, Entries, NULL

VARIABLES
  lists,   \* the sequence of each head, or NULL: spliced away, not yet renewed
  call     \* the last call: its name and its arguments

seqVars == <<lists, call>>

SeqInit == lists = [h \in Heads |-> <<>>] /\ call = <<>>

Within(s, x) == s # NULL /\ x \in ToSet(s)

Held(x) == \E h \in Heads : Within(lists[h], x)

\* No entry is twice in a sequence.
Place(s, x) == SelectInSeq(s, LAMBDA y : y = x)

Without(x) ==
  [h \in Heads |-> IF lists[h] = NULL THEN NULL ELSE RemoveFirst(lists[h], x)]

\* e stands behind x, or first in the list of x.
After(ls, e, x) ==
  [h \in Heads |->
     IF h = x THEN <<e>> \o ls[h]
     ELSE IF Within(ls[h], x) THEN InsertAt(ls[h], Place(ls[h], x) + 1, e) ELSE ls[h]]

\* e stands before x, or last in the list of x.
Before(ls, e, x) ==
  [h \in Heads |->
     IF h = x THEN Append(ls[h], e)
     ELSE IF Within(ls[h], x) THEN InsertAt(ls[h], Place(ls[h], x), e) ELSE ls[h]]

Add(e, x) ==
  \/ call' = <<"list_add", e, x>> /\ ~Held(e) /\ lists' = After(lists, e, x)
  \/ call' = <<"list_add_tail", e, x>> /\ ~Held(e) /\ lists' = Before(lists, e, x)

Del(e) == call' \in {<<"list_del", e>>, <<"list_del_init", e>>} /\ lists' = Without(e)

Move(e, x) ==
  \/ call' = <<"list_move", e, x>> /\ Held(e) /\ lists' = After(Without(e), e, x)
  \/ call' = <<"list_move_tail", e, x>> /\ Held(e) /\ lists' = Before(Without(e), e, x)

Swapped(s, d, e) ==
  [k \in DOMAIN s |-> IF s[k] = d THEN e ELSE IF s[k] = e THEN d ELSE s[k]]

Swap(d, e) ==
  /\ call' = <<"list_swap", d, e>>
  /\ lists' = [h \in Heads |-> IF lists[h] = NULL THEN NULL ELSE Swapped(lists[h], d, e)]

\* The entries of h come first in g.
Splice(h, g) ==
  \/ /\ call' = <<"list_splice", h, g>> /\ lists[h] # NULL
     /\ lists' = [lists EXCEPT ![g] = lists[h] \o @,
                               ![h] = IF @ = <<>> THEN <<>> ELSE NULL]
  \/ /\ call' = <<"list_splice_init", h, g>> /\ lists[h] # NULL
     /\ lists' = [lists EXCEPT ![g] = lists[h] \o @, ![h] = <<>>]

Renew(h) ==
  call' = <<"INIT_LIST_HEAD", h>> /\ lists' = [lists EXCEPT ![h] = <<>>]

SeqNext ==
  /\ call' # <<>>
  /\ \/ \E e \in Entries : Del(e) \/ \E x \in Heads \cup Entries : Add(e, x) \/ Move(e, x)
     \/ \E d, e \in Entries : Swap(d, e)
     \/ \E h \in Heads : Renew(h) \/ \E g \in Heads \ {h} : Splice(h, g)

SeqSpec == SeqInit /\ [][SeqNext]_seqVars
=============================================================================
