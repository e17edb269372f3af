------------------------------ MODULE FlashOps ------------------------------
(***************************************************************************)
(* What nandflash_4740.c promises to its callers: each call acts on one    *)
(* page or block, at once.  shown is what a read of a page returns, block  *)
(* of 512 bytes by block of 512 bytes; good tells whether a page looks     *)
(* unmarked.  A page may decay between two calls.                          *)
(***************************************************************************)
EXTENDS Integers, Sequences

CONSTANTS Blocks, ppb, Contents

VARIABLES
  shown, good,
  result       \* the last call, its page or block, and what it returned

opsVars == <<shown, good, result>>

Pages == {b * ppb + p : b \in Blocks, p \in 0..ppb-1}

All(v, page) == [i \in DOMAIN page |-> <<v, 0>>]
PagesOf(b)   == {b * ppb + p : p \in 0..ppb-1}
LastPage(b)  == (b + 1) * ppb - 1

OpsInit ==
  /\ \A pg \in Pages : shown[pg] = All("ff", shown[pg])
  /\ \A pg \in Pages : ~good[pg] => \E b \in Blocks : pg = LastPage(b)
  /\ result = <<>>

Read(pg) == result' = <<"read", pg, shown[pg]>> /\ UNCHANGED <<shown, good>>

Check(b) ==
  /\ result' = <<"check", b, IF good[LastPage(b)] THEN 0 ELSE 1>>
  /\ UNCHANGED <<shown, good>>

\* A page that was not erased holds rubbish afterwards; no program takes a
\* mark away.
Program(pg, v) ==
  /\ UNCHANGED good
  /\ \/ result' = <<"program", pg, 0>>
        /\ shown' = [shown EXCEPT ![pg] =
                       IF @ = All("ff", @) THEN [i \in DOMAIN @ |-> <<v, i>>] ELSE All("??", @)]
     \/ result' = <<"program", pg, 1>> /\ shown' = [shown EXCEPT ![pg] = All("??", @)]

Erase(b) ==
  \/ /\ result' = <<"erase", b, 0>>
     /\ shown' = [pg \in Pages |-> IF pg \in PagesOf(b) THEN All("ff", shown[pg]) ELSE shown[pg]]
     /\ good' = [pg \in Pages |-> good[pg] \/ pg \in PagesOf(b)]
  \/ result' = <<"erase", b, 1>> /\ UNCHANGED <<shown, good>>

\* A block that could be marked is bad, and nothing but its last page changes.
Mark(b) ==
  \/ /\ result' = <<"mark", b, 0>>
     /\ shown' = [shown EXCEPT ![LastPage(b)] = All("00", @)]
     /\ good' = [good EXCEPT ![LastPage(b)] = FALSE]
  \/ /\ result' = <<"mark", b, 1>>
     /\ shown' = [shown EXCEPT ![LastPage(b)] = All("??", @)]
     /\ good' \in {good, [good EXCEPT ![LastPage(b)] = FALSE]}

Query == result' = <<"query", 0, <<"vid", "did">>>> /\ UNCHANGED <<shown, good>>

\* More than four wrong symbols in a block of 512 bytes cannot be corrected.
Decay ==
  \E pg \in Pages : \E i \in DOMAIN shown[pg] :
    shown' = [shown EXCEPT ![pg][i] = <<"??", 0>>] /\ UNCHANGED <<good, result>>

OpsNext ==
  \/ Decay \/ Query
  \/ \E pg \in Pages : Read(pg) \/ \E v \in Contents : Program(pg, v)
  \/ \E b \in Blocks : Check(b) \/ Erase(b) \/ Mark(b)

OpsSpec == OpsInit /\ [][OpsNext]_opsVars
=============================================================================
