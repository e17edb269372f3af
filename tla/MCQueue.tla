------------------------------ MODULE MCQueue ------------------------------
(***************************************************************************)
(* The queue under TLC, and the refinement of QueueFifo: the items are the *)
(* data of the elements a walk from head to NULL meets.                    *)
(***************************************************************************)
EXTENDS Queue, Walks

Items == LET w == Walk(head, next, live) IN [i \in 1..Len(w) |-> data[w[i]]]

Fifo == INSTANCE QueueFifo WITH items <- Items

(* The linked queue behaves as a first-in first-out queue with removal     *)
(* (queue.h:108-188).                                                      *)
ImplementsFifo == Fifo!FifoSpec
=============================================================================
