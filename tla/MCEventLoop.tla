---------------------------- MODULE MCEventLoop ----------------------------
(***************************************************************************)
(* The event loop with the most general client under TLC.                  *)
(***************************************************************************)
EXTENDS EventLoop
=============================================================================
