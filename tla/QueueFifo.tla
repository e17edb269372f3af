----------------------------- MODULE QueueFifo -----------------------------
(***************************************************************************)
(* What queue.h promises: values leave in the order they came, except for  *)
(* the ones that an iteration removes from somewhere in between.           *)
(***************************************************************************)
EXTENDS SequencesExt

CONSTANTS Value, NULL

VARIABLES items, out, freed

fifoVars == <<items, out, freed>>

FifoInit == items = <<>> /\ out = NULL /\ freed = FALSE

Enque == \E v \in Value : items' = Append(items, v) /\ UNCHANGED <<out, freed>>

Deque ==
  /\ items # <<>>
  /\ out' = Head(items) /\ items' = Tail(items)
  /\ UNCHANGED freed

RemoveOne ==
  /\ \E i \in 1 .. Len(items) : items' = RemoveAt(items, i)
  /\ UNCHANGED <<out, freed>>

FreeAll == items' = <<>> /\ freed' = TRUE /\ UNCHANGED out

FifoNext == ~freed /\ (Enque \/ Deque \/ RemoveOne \/ FreeAll)

FifoSpec == FifoInit /\ [][FifoNext]_fifoVars
=============================================================================
