---------------------------- MODULE MCNetDaemon ----------------------------
(***************************************************************************)
(* One client and up to two daemons at a time.  Either the client calls    *)
(* once and no daemon is followed that waits for a helper, or one is, and  *)
(* a turn may begin while another daemon runs.                             *)
(***************************************************************************)
EXTENDS NetDaemon

\* A buffer that happens to claim everything, with a status that is neither 0
\* nor 1.
MCRubbish == {[iStatus_Wire |-> 2, iStatus_Wireless |-> 1, iDhcp_Wire |-> 1,
               iDhcp_Wireless |-> 1, iConnect_Format |-> 1, iAction_Flag |-> 1]}

MCBounds == {[hangs |-> 0, turns |-> 0, calls |-> 1],
             [hangs |-> 1, turns |-> 1, calls |-> 0]}
=============================================================================
