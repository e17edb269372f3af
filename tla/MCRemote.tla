------------------------------ MODULE MCRemote ------------------------------
(***************************************************************************)
(* The server under TLC.                                                   *)
(***************************************************************************)
EXTENDS Remote

MCIntMin == -2
=============================================================================
