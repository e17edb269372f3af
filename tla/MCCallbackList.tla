--------------------------- MODULE MCCallbackList ---------------------------
(***************************************************************************)
(* The callback list under TLC, and the refinement of CallbackFifo: the    *)
(* pending callbacks are the nodes a walk from first meets, in the order   *)
(* it meets them.                                                          *)
(***************************************************************************)
EXTENDS CallbackList, Walks

MCIntMin == -2

Fifo == INSTANCE CallbackFifo WITH pending <- Walk(first, next, live)

(* The linked list behaves as a first-in first-out queue of callbacks with *)
(* deletion (event-loop.c:157-217).                                        *)
ImplementsFifo == Fifo!FifoSpec
=============================================================================
