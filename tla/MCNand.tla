------------------------------- MODULE MCNand -------------------------------
(***************************************************************************)
(* The two sides of nand_prog, one at a time: the programmer, for which a  *)
(* call of the driver is one step, and the driver, which shows that it is. *)
(***************************************************************************)
EXTENDS NandProg, NandFlash

VARIABLE side

mcVars == <<side, nandVars, nandFlashVars>>

\* The programmer after an image of one page.
NoProgrammer ==
  /\ flash = [b \in Block |-> [q \in Page |-> Erased]] /\ flen = 1 /\ check_only = TRUE
  /\ pc = "returned" /\ curblk = StartBlock + 1 /\ curblk_done = TRUE
  /\ copyblks = 1 /\ checkerr = 0 /\ offset = Ppb /\ programmed = 1
  /\ nand_buf = [q \in Page |-> Zeros] /\ actual_pages = 1 /\ p = 0

NoDriver ==
  /\ Powered /\ pagesize = 512 /\ budget = 0
  /\ cells = [pg \in FlashPages |-> AllOf("ff", TRUE)]

MCNandInit ==
  \/ side = "programmer" /\ NandInit /\ NoDriver
  \/ side = "driver" /\ FlashInit /\ NoProgrammer

MCNandNext ==
  \/ side = "programmer" /\ NandNext /\ UNCHANGED <<side, nandFlashVars>>
  \/ side = "driver" /\ FlashNext /\ UNCHANGED <<side, nandVars>>

MCNandSpec == MCNandInit /\ [][MCNandNext]_mcVars /\ NandFairness
=============================================================================
