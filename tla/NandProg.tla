------------------------------ MODULE NandProg ------------------------------
(***************************************************************************)
(* do_prog_part of nand_prog/main.c: an image is copied to a partition of  *)
(* a NAND flash, around its bad blocks.  A block that does not read back   *)
(* as written is erased and marked bad, and its pages go to the next       *)
(* block.  A second run of the program, with check_only set, compares the  *)
(* partition with the image and writes nothing.                            *)
(*                                                                         *)
(* A page is the number of a page of the image, or one of the values       *)
(* below, with the look of its spare bytes: nand_program_page overwrites   *)
(* those up to the end of the ECC, in its caller's buffer as well, with    *)
(* 0xff and then the ECC.  So no page of an image looks like a bad mark,   *)
(* and none keeps the tags it may have had there.                          *)
(***************************************************************************)
EXTENDS Integers, FiniteSets

CONSTANTS
  StartBlock, LastBlock,  \* start_block and last_block of the partition
  Ppb,                    \* pages per block
  Images,                 \* the lengths of images, in pages
  Tagged,                 \* the pages of the image whose spare bytes up to the
                          \* end of the ECC are not all 0xff
  EccBytes                \* the ECC of a page: 9 bytes for each 512 of data

ASSUME PartitionAssumption ==
  /\ StartBlock \in Nat /\ LastBlock \in Nat /\ StartBlock <= LastBlock
  /\ Ppb \in Nat \ {0}
  /\ Images \subseteq Nat /\ Tagged \subseteq Nat /\ EccBytes \in Nat

Block == StartBlock..LastBlock
Page  == 0..(Ppb - 1)

\* The first spare bytes of a page: all 0xff; 0xff and then the ECC of the
\* page; or anything else.
Content == [page : Int, spare : {"blank", "ecc", "other"}]

Erased   == [page |-> -1, spare |-> "blank"]  \* all bytes 0xff
Garbled  == [page |-> -2, spare |-> "other"]  \* what a failed page reads as
BadMark  == [page |-> -3, spare |-> "other"]  \* the zeros of nand_mark_badblock,
                                              \* or a mark of the factory
Zeros    == [page |-> -4, spare |-> "other"]  \* nand_buf before it is read into

\* A page as it stands in the image.
FilePage(n) == [page |-> n, spare |-> IF n \in Tagged THEN "other" ELSE "blank"]

VARIABLES
  flash,        \* the pages of each block
  flen,         \* the length of the image, in pages
  check_only,
  pc,           \* where the loop of do_prog_part is
  curblk, curblk_done, copyblks, checkerr,
  offset,       \* in pages
  nand_buf, actual_pages,
  p,
  programmed    \* observation: the blocks that the programming run copied

nandVars == <<flash, flen, check_only, pc, curblk, curblk_done, copyblks, checkerr,
              offset, nand_buf, actual_pages, p, programmed>>

fblk  == flen \div Ppb   \* whole blocks of the image
fpage == flen % Ppb      \* pages that are left over

(***************************************************************************)
(* The partition has been erased; some blocks are bad from the factory.    *)
(***************************************************************************)
FactoryBlock(bad) == [q \in Page |-> IF bad /\ q = Ppb - 1 THEN BadMark ELSE Erased]

NandInit ==
  /\ \E bad \in SUBSET Block : flash = [b \in Block |-> FactoryBlock(b \in bad)]
  /\ flen \in Images /\ check_only = FALSE /\ programmed = 0
  /\ pc = "loop" /\ curblk = StartBlock /\ curblk_done = TRUE
  /\ copyblks = 0 /\ checkerr = 0 /\ offset = 0
  /\ nand_buf = [q \in Page |-> Zeros] /\ actual_pages = Ppb /\ p = 0

-----------------------------------------------------------------------------

\* nand_check_badblock looks at the last page of the block.
\* Variant with a bug: it looks at the first page.
IsBad_FirstPage(b) == flash[b][0] = BadMark

IsBad(b) == flash[b][Ppb - 1] = BadMark

(***************************************************************************)
(* Lines 83 to 96: the pages of the next block are read from the image     *)
(* once the previous block is done.  A short read leaves the rest of       *)
(* nand_buf as it was.                                                     *)
(***************************************************************************)
Partial == copyblks = fblk /\ fpage > 0

PageFromFile(q, past_end) == IF offset + q < flen THEN FilePage(offset + q) ELSE past_end

read_block ==
  /\ pc = "loop" /\ curblk <= LastBlock /\ curblk_done
  /\ nand_buf' = [q \in Page |->
                    PageFromFile(q, IF Partial THEN Erased ELSE nand_buf[q])]
  /\ actual_pages' = IF Partial THEN fpage ELSE actual_pages
  /\ curblk_done' = FALSE
  /\ UNCHANGED <<flash, flen, check_only, pc, curblk, copyblks, checkerr, offset,
                 p, programmed>>

\* Variant with a bug: the bad block is tried again.
PastBad_Again(b) == b

\* Variant with a bug: the block is stepped over twice.
PastBad_Twice(b) == b + 2

PastBad(b) == b + 1

skip_badblock ==
  /\ pc = "loop" /\ curblk <= LastBlock /\ ~curblk_done /\ IsBad(curblk)
  /\ curblk' = PastBad(curblk)
  /\ UNCHANGED <<flash, flen, check_only, pc, curblk_done, copyblks, checkerr,
                 offset, nand_buf, actual_pages, p, programmed>>

good_block ==
  /\ pc = "loop" /\ curblk <= LastBlock /\ ~curblk_done /\ ~IsBad(curblk)
  /\ pc' = IF check_only THEN "check" ELSE "program"
  /\ p' = 0
  /\ UNCHANGED <<flash, flen, check_only, curblk, curblk_done, copyblks, checkerr,
                 offset, nand_buf, actual_pages, programmed>>

MorePages == p < actual_pages

\* The spare bytes that nand_program_page writes, in nand_buf as well.
Overwritten(c) == [c EXCEPT !.spare = "ecc"]

\* The page may fail; the result of nand_program_page is not looked at.
program_page ==
  /\ pc = "program" /\ MorePages
  /\ nand_buf' = [nand_buf EXCEPT ![p] = Overwritten(@)]
  /\ \E c \in {Overwritten(nand_buf[p]), Garbled} :
       flash' = [flash EXCEPT ![curblk][p] = c]
  /\ p' = p + 1
  /\ UNCHANGED <<flen, check_only, pc, curblk, curblk_done, copyblks, checkerr,
                 offset, actual_pages, programmed>>

pages_programmed ==
  /\ pc = "program" /\ ~MorePages
  /\ pc' = "check"
  /\ UNCHANGED <<flash, flen, check_only, curblk, curblk_done, copyblks, checkerr,
                 offset, nand_buf, actual_pages, p, programmed>>

-----------------------------------------------------------------------------

\* The check run puts 0xff back where the ECC is, into 36 bytes of what it
\* has read.
\* Variant with a bug: it leaves the ECC there.
Restored_Not(c) == c

Restored(c) ==
  IF check_only /\ c.spare = "ecc" /\ EccBytes <= 36
  THEN [c EXCEPT !.spare = "blank"] ELSE c

\* nand_check of the pages that nand_read_page brings back.
\* Variant with a bug: the length is that of one page.
ReadsBack_FirstPage == Restored(flash[curblk][0]) = nand_buf[0]

ReadsBack ==
  \A q \in 0..(actual_pages - 1) : Restored(flash[curblk][q]) = nand_buf[q]

\* Variant with a bug: the block is erased and not marked.
Marked_Forgotten(pages) == pages

Marked(pages) == [pages EXCEPT ![Ppb - 1] = BadMark]

\* nand_erase_block may fail; its result is not looked at.
block_fails ==
  /\ pc = "check" /\ ~ReadsBack /\ ~check_only
  /\ checkerr' = checkerr + 1
  /\ \E pages \in {flash[curblk], [q \in Page |-> Erased]} :
       flash' = [flash EXCEPT ![curblk] = Marked(pages)]
  /\ curblk' = curblk + 1 /\ pc' = "loop"
  /\ UNCHANGED <<flen, check_only, curblk_done, copyblks, offset, nand_buf,
                 actual_pages, p, programmed>>

\* Variant with a bug: the block of the left over pages is forgotten.
AllCopied_WholeBlocks(n) == n = fblk \/ n > fblk

\* Variant with a bug: without left over pages one block more is copied.
AllCopied_OneMore(n) == n > fblk

AllCopied(n) == (n = fblk /\ fpage = 0) \/ (n > fblk /\ fpage > 0)

block_done ==
  /\ pc = "check" /\ (ReadsBack \/ check_only)
  /\ checkerr' = IF ReadsBack THEN checkerr ELSE checkerr + 1
  /\ curblk_done' = TRUE
  /\ offset' = offset + Ppb /\ curblk' = curblk + 1 /\ copyblks' = copyblks + 1
  /\ pc' = IF AllCopied(copyblks + 1) THEN "returned" ELSE "loop"
  /\ UNCHANGED <<flash, flen, check_only, nand_buf, actual_pages, p, programmed>>

out_of_blocks ==
  /\ pc = "loop" /\ curblk > LastBlock
  /\ pc' = "returned"
  /\ UNCHANGED <<flash, flen, check_only, curblk, curblk_done, copyblks, checkerr,
                 offset, nand_buf, actual_pages, p, programmed>>

do_prog_part ==
  \/ read_block \/ skip_badblock \/ good_block
  \/ program_page \/ pages_programmed
  \/ block_fails \/ block_done \/ out_of_blocks

\* The program is started again with an argument: check_only = 1.
check_run ==
  /\ pc = "returned" /\ ~check_only
  /\ check_only' = TRUE /\ programmed' = copyblks
  /\ pc' = "loop" /\ curblk' = StartBlock /\ curblk_done' = TRUE
  /\ copyblks' = 0 /\ checkerr' = 0 /\ offset' = 0
  /\ nand_buf' = [q \in Page |-> Zeros] /\ actual_pages' = Ppb /\ p' = 0
  /\ UNCHANGED <<flash, flen>>

Returned == pc = "returned" /\ check_only /\ UNCHANGED nandVars

NandNext == do_prog_part \/ check_run \/ Returned

NandSpec == NandInit /\ [][NandNext]_nandVars

\* The program is a process that gets the processor.
NandFairness == WF_nandVars(do_prog_part) /\ WF_nandVars(check_run)

-----------------------------------------------------------------------------

Needed == fblk + (IF fpage > 0 THEN 1 ELSE 0)

\* Block k of the image, as it stands in the image and as it is on the flash.
FileBlock(k) ==
  [q \in Page |-> IF k * Ppb + q < flen THEN FilePage(k * Ppb + q) ELSE Erased]

ImageBlock(k) ==
  [q \in Page |-> IF k * Ppb + q < flen THEN Overwritten(FilePage(k * Ppb + q))
                                       ELSE Erased]

\* Block k of the image does not look like what the check run makes of it.
LooksWrong(k) ==
  \E q \in Page : k * Ppb + q < flen /\ (k * Ppb + q \in Tagged \/ EccBytes > 36)

GoodBefore(b) == {c \in StartBlock..(b - 1) : flash[c][Ppb - 1] # BadMark}

\* Every variable keeps its type; curblk never runs more than one past the
\* partition and the page counter stays inside a block (lines 80 and 109).
NandTypeOK ==
  /\ flash \in [Block -> [Page -> Content]]
  /\ flen \in Images /\ check_only \in BOOLEAN
  /\ pc \in {"loop", "program", "check", "returned"}
  /\ curblk \in StartBlock..(LastBlock + 1) /\ curblk_done \in BOOLEAN
  /\ copyblks \in Nat /\ checkerr \in Nat /\ offset \in Nat /\ programmed \in Nat
  /\ nand_buf \in [Page -> Content]
  /\ actual_pages \in 1..Ppb /\ p \in 0..Ppb

\* Who reads the partition and skips the blocks that are marked bad finds the
\* image, in order, without a hole and without a block twice: the n-th good
\* block that was passed holds the data of the n-th block of the image, with
\* the ECC in the spare bytes, however many blocks failed on the way and
\* whether their erase worked or not (lines 80 to 151).
ImageInOrder ==
  ~check_only =>
    /\ Cardinality(GoodBefore(curblk)) = copyblks
    /\ \A b \in GoodBefore(curblk) :
         flash[b] = ImageBlock(Cardinality(GoodBefore(b)))

\* do_prog_part returns when it has copied all of the image and not before,
\* unless the good blocks of the partition are too few (lines 153 to 166).
StopsWhenCopied ==
  pc = "returned" =>
    \/ copyblks = Needed
    \/ copyblks < Needed /\ Cardinality(GoodBefore(LastBlock + 1)) < Needed

\* fblk is the "total blocks needed" (line 70): no more are copied than those
\* and one for the pages that are left over.
CopiesNeededOnly == copyblks <= Needed

\* do_prog_part stays inside its partition and its buffers, and it copies the
\* blocks the image needs: not one more, and not one less as long as there are
\* good blocks (lines 80 to 166).
NandStateOK ==
  /\ NandTypeOK
  /\ StopsWhenCopied
  /\ CopiesNeededOnly

\* The check run that follows the programming run goes through the same number
\* of blocks.  It finds an error in exactly the blocks of the image that have
\* tags where nand_program_page writes 0xff or ECC, and in every block if a page
\* has more ECC than the 36 bytes of line 122; so it finds none in a plain
\* image (lines 115 to 157; nandflash_4740.c 424 to 431).
CheckAgrees ==
  check_only =>
    /\ checkerr = Cardinality({k \in 0..(copyblks - 1) : LooksWrong(k)})
    /\ pc = "returned" => copyblks = programmed

\* A block that is marked bad is neither programmed nor erased nor marked
\* again (lines 99 to 104).
BadStaysBad ==
  [][\A b \in Block : flash[b][Ppb - 1] = BadMark => flash'[b] = flash[b]]_nandVars

\* The programming run and the check run both come to an end.
BothRunsEnd == <>(pc = "returned" /\ check_only)
=============================================================================
