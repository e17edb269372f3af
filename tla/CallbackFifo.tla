---------------------------- MODULE CallbackFifo ----------------------------
(***************************************************************************)
(* What the callback list promises: every call of append puts a callback   *)
(* with the next id behind the ones that wait; the callbacks are run one   *)
(* at a time, each at most once, in that order; deleting one takes it out  *)
(* of the order and disturbs no other.                                     *)
(***************************************************************************)
EXTENDS Integers, SequencesExt

CONSTANTS IntMin, IntMax, NULL

VARIABLES pending, num_callbacks, ran

fifoVars == <<pending, num_callbacks, ran>>

Members(s) == {s[i] : i \in 1 .. Len(s)}

FifoInit == pending = <<>> /\ num_callbacks = 0 /\ ran = NULL

FifoAppend ==
  /\ num_callbacks \notin Members(pending)
  /\ pending' = Append(pending, num_callbacks)
  /\ num_callbacks' = IF num_callbacks = IntMax THEN IntMin ELSE num_callbacks + 1
  /\ UNCHANGED ran

FifoDelete(id) ==
  /\ \E i \in 1 .. Len(pending) : pending[i] = id /\ pending' = RemoveAt(pending, i)
  /\ UNCHANGED <<num_callbacks, ran>>

FifoRun ==
  /\ pending # <<>>
  /\ ran' = Head(pending)
  /\ pending' = Tail(pending)
  /\ UNCHANGED num_callbacks

FifoNext == FifoAppend \/ FifoRun \/ \E id \in IntMin .. IntMax : FifoDelete(id)

FifoSpec == FifoInit /\ [][FifoNext]_fifoVars
=============================================================================
