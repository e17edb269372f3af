----------------------------- MODULE NandProofs -----------------------------
(***************************************************************************)
(* The NAND programmer and the NAND driver.                                *)
(*                                                                         *)
(* do_prog_part, for every partition, block size and set of images without *)
(* the empty one.  The invariant NandInv has four parts.  Control: offset  *)
(* goes with copyblks, and the loop goes on only while a block is missing. *)
(* Buffer: nand_buf holds the block that is missing, each page as it was   *)
(* read or with its ECC, and with it once it is programmed.  Work: the     *)
(* block in work is not marked, and the pages past actual_pages are        *)
(* erased.                                                                 *)
(* Blocks: the blocks ahead are as the factory left them, and the good     *)
(* blocks behind hold the image.                                           *)
(*                                                                         *)
(* The driver, for every set of blocks and pages, every number of address  *)
(* bytes and every time the ready pin takes to fall: whatever call runs,   *)
(* its cycles reach a chip that is at rest, the pages keep their layout,   *)
(* and a call that is over leaves the chip disabled.  The invariant        *)
(* FlashInv says it of the cycles that are still to come: each command     *)
(* that starts work is followed by a wait, each address the chip reads on  *)
(* its own ends before one, and the data come with their spare bytes.      *)
(* Every script is built of pieces for which that is true.                 *)
(*                                                                         *)
(* The driver implements FlashOps.  InCall says what each place of a       *)
(* script means: which address the chip has latched, which items are in    *)
(* its register or still to come, which answer was read, and which page or *)
(* block differs from what it was when the call began.  Honest says of a   *)
(* page that it is erased if it reads so.  At the end of a script these    *)
(* give one step of FlashOps, and each step before leaves its state alone; *)
(* a page that decays between two calls is a step of FlashOps too.         *)
(***************************************************************************)
EXTENDS NandProg, NandFlash, Iteration, FiniteSetTheorems, SequenceTheorems, TLAPS

\* What the theorems need to know of the images.
Nonempty == 0 \notin Images

Good(f, b) == {c \in StartBlock..(b - 1) : f[c][Ppb - 1] # BadMark}

PagesOf(k) == IF k = fblk THEN fpage ELSE Ppb

Missing == copyblks < fblk \/ (copyblks = fblk /\ fpage > 0)

Control ==
  /\ offset = copyblks * Ppb
  /\ pc = "returned" => \/ copyblks = Needed
                        \/ copyblks < Needed /\ curblk = LastBlock + 1
  /\ pc # "returned" => Missing

Buffer ==
  /\ ~curblk_done =>
       /\ actual_pages = PagesOf(copyblks)
       /\ \A q \in Page : \/ nand_buf[q] = FileBlock(copyblks)[q]
                          \/ nand_buf[q] = ImageBlock(copyblks)[q] /\ ~check_only
       /\ pc = "program" => \A q \in Page : q < p => nand_buf[q] = ImageBlock(copyblks)[q]
       /\ pc = "check" /\ ~check_only => nand_buf = ImageBlock(copyblks)
  /\ curblk_done /\ pc # "returned" => actual_pages = Ppb

Work ==
  pc \in {"program", "check"} =>
    /\ ~curblk_done /\ curblk <= LastBlock
    /\ pc = "program" => ~check_only
    /\ flash[curblk][Ppb - 1] # BadMark
    /\ ~check_only => \A q \in Page : q >= actual_pages => flash[curblk][q] = Erased

Fresh ==
  \A b \in Block :
    ~check_only /\ (b > curblk \/ (b = curblk /\ pc = "loop")) =>
      \A q \in Page : \/ flash[b][q] = Erased
                      \/ q = Ppb - 1 /\ flash[b][q] = BadMark

Counted == Cardinality(Good(flash, curblk)) = copyblks

InOrder ==
  \A b \in StartBlock..(curblk - 1) :
    ~check_only /\ flash[b][Ppb - 1] # BadMark =>
      flash[b] = ImageBlock(Cardinality(Good(flash, b)))

NandInv ==
  NandTypeOK /\ Control /\ Buffer /\ Work /\ Fresh /\ Counted /\ InOrder

-----------------------------------------------------------------------------

LEMMA Division ==
  ASSUME NEW n \in Nat, NEW d \in Nat \ {0}
  PROVE  /\ n \div d \in Nat /\ n % d \in 0..(d - 1)
         /\ n = d * (n \div d) + (n % d)
  OBVIOUS

LEMMA Multiples ==
  ASSUME NEW a \in Nat, NEW b \in Nat, NEW d \in Nat \ {0}
  PROVE  /\ a * d \in Nat
         /\ (a + 1) * d = a * d + d
         /\ a < b => a * d + d <= b * d
         /\ d * b = b * d
<1>1. a * d \in Nat /\ (a + 1) * d = a * d + d /\ d * b = b * d
  OBVIOUS
<1>2. ASSUME a < b PROVE a * d + d <= b * d
  <2> DEFINE e == b - a - 1
  <2>1. e \in Nat /\ b = a + 1 + e
    BY <1>2
  <2>2. e * d >= 0 /\ b * d = a * d + d + e * d
    <3> HIDE DEF e
    <3> QED BY <2>1
  <2> QED BY <2>2, <1>1
<1> QED BY <1>1, <1>2

LEMMA GoodFinite ==
  ASSUME NEW f, NEW b \in Nat, StartBlock \in Nat
  PROVE  IsFiniteSet(Good(f, b)) /\ Cardinality(Good(f, b)) \in Nat
<1>1. IsFiniteSet(StartBlock..(b - 1))
  BY FS_Interval
<1>2. Good(f, b) \subseteq StartBlock..(b - 1)
  BY DEF Good
<1> QED BY <1>1, <1>2, FS_Subset, FS_CardinalityType

LEMMA GoodStep ==
  ASSUME NEW f, NEW b \in Nat, StartBlock \in Nat, StartBlock <= b
  PROVE  Cardinality(Good(f, b + 1)) =
           IF f[b][Ppb - 1] = BadMark THEN Cardinality(Good(f, b))
                                      ELSE Cardinality(Good(f, b)) + 1
<1>1. IsFiniteSet(Good(f, b)) /\ b \notin Good(f, b)
  BY GoodFinite DEF Good
<1>2. StartBlock..(b + 1 - 1) = (StartBlock..(b - 1)) \cup {b}
  OBVIOUS
<1>3. CASE f[b][Ppb - 1] = BadMark
  <2>1. Good(f, b + 1) = Good(f, b)
    BY <1>2, <1>3 DEF Good
  <2> QED BY <2>1, <1>3
<1>4. CASE f[b][Ppb - 1] # BadMark
  <2>1. Good(f, b + 1) = Good(f, b) \cup {b}
    BY <1>2, <1>4 DEF Good
  <2> QED BY <2>1, <1>1, <1>4, FS_AddElement
<1> QED BY <1>3, <1>4

LEMMA GoodSame ==
  ASSUME NEW f, NEW g, NEW b,
         \A c \in StartBlock..(b - 1) : f[c][Ppb - 1] = g[c][Ppb - 1]
  PROVE  Good(f, b) = Good(g, b)
  BY DEF Good

\* The numbers of the image: whole blocks and left over pages.
LEMMA Lengths ==
  ASSUME NandTypeOK
  PROVE  /\ Ppb \in Nat \ {0} /\ flen \in Nat
         /\ fblk \in Nat /\ fpage \in 0..(Ppb - 1) /\ flen = fblk * Ppb + fpage
         /\ flen' = flen => fblk' = fblk /\ fpage' = fpage
<1>1. Ppb \in Nat \ {0} /\ flen \in Nat
  BY PartitionAssumption DEF NandTypeOK
<1>2. fblk \in Nat /\ fpage \in 0..(Ppb - 1) /\ flen = Ppb * fblk + fpage
  BY <1>1, Division DEF fblk, fpage
<1>3. Ppb * fblk = fblk * Ppb
  BY <1>1, <1>2, Multiples
<1> QED BY <1>1, <1>2, <1>3 DEF fblk, fpage

LEMMA ContentTypes ==
  /\ Erased \in Content /\ Garbled \in Content /\ BadMark \in Content /\ Zeros \in Content
  /\ Erased # BadMark /\ Garbled # BadMark
  /\ \A n \in Nat : /\ FilePage(n) \in Content /\ Overwritten(FilePage(n)) \in Content
                    /\ FilePage(n) # BadMark /\ Overwritten(FilePage(n)) # BadMark
                    /\ Overwritten(FilePage(n)) = [page |-> n, spare |-> "ecc"]
  /\ \A c \in Content : /\ Overwritten(c) \in Content
                        /\ Overwritten(Overwritten(c)) = Overwritten(c)
<1>1. /\ Erased \in Content /\ Garbled \in Content /\ BadMark \in Content /\ Zeros \in Content
      /\ Erased # BadMark /\ Garbled # BadMark
  BY DEF Content, Erased, Garbled, BadMark, Zeros
<1>2. ASSUME NEW c \in Content
      PROVE  /\ Overwritten(c) = [page |-> c.page, spare |-> "ecc"]
             /\ Overwritten(c) \in Content
             /\ Overwritten(Overwritten(c)) = Overwritten(c)
  <2>1. c = [page |-> c.page, spare |-> c.spare] /\ c.page \in Int
    BY DEF Content
  <2>2. Overwritten(c) = [page |-> c.page, spare |-> "ecc"]
    BY <2>1 DEF Overwritten
  <2>3. Overwritten(c) \in Content
    BY <2>1, <2>2 DEF Content
  <2>4. Overwritten([page |-> c.page, spare |-> "ecc"]) = [page |-> c.page, spare |-> "ecc"]
    BY DEF Overwritten
  <2> QED BY <2>2, <2>3, <2>4
<1>3. ASSUME NEW n \in Nat
      PROVE  /\ FilePage(n) \in Content /\ FilePage(n).page = n
             /\ FilePage(n) # BadMark
  BY DEF Content, FilePage, BadMark
<1>4. ASSUME NEW n \in Nat
      PROVE  /\ Overwritten(FilePage(n)) = [page |-> n, spare |-> "ecc"]
             /\ Overwritten(FilePage(n)) \in Content
             /\ Overwritten(FilePage(n)) # BadMark
  <2>1. Overwritten(FilePage(n)) = [page |-> n, spare |-> "ecc"]
    BY <1>2, <1>3
  <2> QED BY <1>2, <1>3, <2>1 DEF BadMark
<1> QED BY <1>1, <1>2, <1>3, <1>4

\* The pages of a block of the image; those past its end are erased.
LEMMA ImageBlockType ==
  ASSUME NandTypeOK, NEW k \in Nat
  PROVE  /\ ImageBlock(k) \in [Page -> Content] /\ FileBlock(k) \in [Page -> Content]
         /\ \A q \in Page :
              /\ ImageBlock(k)[q] # BadMark
              /\ k * Ppb + q \in Nat
              /\ IF k * Ppb + q < flen
                 THEN /\ FileBlock(k)[q] = FilePage(k * Ppb + q)
                      /\ ImageBlock(k)[q] = Overwritten(FilePage(k * Ppb + q))
                 ELSE FileBlock(k)[q] = Erased /\ ImageBlock(k)[q] = Erased
<1>1. k * Ppb \in Nat
  BY Lengths, Multiples
<1>2. \A q \in Page : q \in Nat
  BY Lengths DEF Page
<1>3. \A q \in Page : k * Ppb + q \in Nat
  BY <1>1, <1>2
<1>4. ASSUME NEW q \in Page
      PROVE  /\ FileBlock(k)[q] =
                  IF k * Ppb + q < flen THEN FilePage(k * Ppb + q) ELSE Erased
             /\ ImageBlock(k)[q] = IF k * Ppb + q < flen
                                   THEN Overwritten(FilePage(k * Ppb + q)) ELSE Erased
  BY DEF FileBlock, ImageBlock
<1>5. ASSUME NEW q \in Page
      PROVE  /\ FileBlock(k)[q] \in Content
             /\ ImageBlock(k)[q] \in Content /\ ImageBlock(k)[q] # BadMark
  BY <1>3, <1>4, ContentTypes
<1>6. FileBlock(k) \in [Page -> Content] /\ ImageBlock(k) \in [Page -> Content]
  BY <1>5 DEF FileBlock, ImageBlock
<1> QED BY <1>3, <1>4, <1>5, <1>6

\* The pages that are left over when a block is in work, and those past them.
LEMMA PagesPast ==
  ASSUME NandTypeOK, Missing, NEW q \in Page
  PROVE  (copyblks * Ppb + q < flen) <=> (q < PagesOf(copyblks))
<1>1. /\ q \in Nat /\ q < Ppb /\ copyblks \in Nat /\ Ppb \in Nat \ {0} /\ fblk \in Nat
      /\ fpage \in Nat
  BY Lengths DEF NandTypeOK, Page
<1> DEFINE x == copyblks * Ppb
           y == fblk * Ppb
<1>2. x \in Nat /\ y \in Nat /\ flen = y + fpage /\ (copyblks < fblk => x + Ppb <= y)
  BY <1>1, Lengths, Multiples
<1>3. CASE copyblks < fblk
  <2> HIDE DEF x, y
  <2>1. x + q < flen /\ PagesOf(copyblks) = Ppb
    BY <1>1, <1>2, <1>3 DEF PagesOf
  <2> QED BY <2>1, <1>1 DEF x
<1>4. CASE copyblks = fblk
  <2>1. x = y /\ PagesOf(copyblks) = fpage
    BY <1>4 DEF PagesOf
  <2> HIDE DEF x, y
  <2>2. (x + q < flen) <=> (q < fpage)
    BY <2>1, <1>1, <1>2
  <2> QED BY <2>1, <2>2 DEF x
<1> QED BY <1>1, <1>3, <1>4 DEF Missing

\* What read_block puts into nand_buf is the missing block, as it is in the
\* image.
LEMMA ReadsMissing ==
  ASSUME NandTypeOK, Control, Missing, pc = "loop",
         curblk_done => actual_pages = Ppb, read_block
  PROVE  /\ nand_buf' = FileBlock(copyblks)
         /\ actual_pages' = PagesOf(copyblks)
<1>1. offset = copyblks * Ppb /\ copyblks \in Nat
  BY DEF Control, NandTypeOK
<1>2. CASE Partial
  <2>1. nand_buf' = [q \in Page |-> IF offset + q < flen THEN FilePage(offset + q) ELSE Erased]
    BY <1>2 DEF read_block, PageFromFile
  <2> QED BY <2>1, <1>1, <1>2 DEF FileBlock, read_block, Partial, PagesOf
<1>3. CASE ~Partial
  <2>1. copyblks < fblk
    BY <1>3 DEF Missing, Partial
  <2>2. copyblks # fblk /\ PagesOf(copyblks) = Ppb
    BY <2>1, <1>1, Lengths DEF PagesOf
  <2>3. \A q \in Page : q < PagesOf(copyblks)
    BY <2>2, Lengths DEF Page
  <2>4. \A q \in Page : copyblks * Ppb + q < flen
    BY <2>3, PagesPast
  <2>5. nand_buf' = [q \in Page |-> FilePage(copyblks * Ppb + q)]
    BY <2>4, <1>1, <1>3 DEF read_block, PageFromFile
  <2>6. FileBlock(copyblks) = [q \in Page |-> FilePage(copyblks * Ppb + q)]
    BY <2>4 DEF FileBlock
  <2>7. actual_pages' = Ppb
    BY <1>3 DEF read_block
  <2> QED BY <2>2, <2>5, <2>6, <2>7
<1> QED BY <1>2, <1>3

-----------------------------------------------------------------------------

LEMMA InitInv ==
  ASSUME Nonempty, NandInit
  PROVE  NandInv
<1>1. NandTypeOK
  <2>1. \A bad : FactoryBlock(bad) \in [Page -> Content]
    BY ContentTypes DEF FactoryBlock
  <2>2. flash \in [Block -> [Page -> Content]]
    BY <2>1 DEF NandInit
  <2>3. nand_buf \in [Page -> Content]
    BY ContentTypes DEF NandInit
  <2>4. StartBlock \in StartBlock..(LastBlock + 1) /\ Ppb \in 1..Ppb /\ 0 \in 0..Ppb
    BY PartitionAssumption
  <2> QED BY <2>2, <2>3, <2>4, Zenon DEF NandInit, NandTypeOK
<1>2. Control
  <2>1. offset = copyblks * Ppb
    BY PartitionAssumption DEF NandInit
  <2>2. flen # 0 /\ copyblks = 0 /\ pc = "loop"
    BY DEF Nonempty, NandInit
  <2>3. fblk > 0 \/ (fblk = 0 /\ fpage > 0)
    BY <1>1, <2>2, Lengths
  <2> QED BY <2>1, <2>2, <2>3 DEF Control, Missing
<1>3. Buffer /\ Work
  BY DEF NandInit, Buffer, Work
<1>4. Fresh
  <2>1. \A bad : \A q \in Page : \/ FactoryBlock(bad)[q] = Erased
                                 \/ q = Ppb - 1 /\ FactoryBlock(bad)[q] = BadMark
    BY DEF FactoryBlock
  <2> QED BY <2>1 DEF NandInit, Fresh
<1>5. Good(flash, curblk) = {}
  BY PartitionAssumption DEF NandInit, Good
<1>6. Counted
  BY <1>5, FS_EmptySet DEF NandInit, Counted
<1>7. InOrder
  BY PartitionAssumption DEF NandInit, InOrder
<1> QED BY <1>1, <1>2, <1>3, <1>4, <1>6, <1>7 DEF NandInv

-----------------------------------------------------------------------------

LEMMA StepTypes ==
  ASSUME NandInv, NandNext
  PROVE  NandTypeOK'
<1>0. Work /\ PartitionAssumption
  BY PartitionAssumption DEF NandInv
<1>a. NandTypeOK
  BY DEF NandInv
<1> USE <1>a DEF NandTypeOK
<1>1. CASE read_block
  <2>1. \A q \in Page : q \in Nat
    BY Lengths DEF Page
  <2>2. nand_buf' \in [Page -> Content]
    <3>1. \A q \in Page : offset + q \in Nat
      BY <2>1
    <3>2. \A q \in Page : nand_buf[q] \in Content
      OBVIOUS
    <3>3. \A q \in Page :
            PageFromFile(q, IF Partial THEN Erased ELSE nand_buf[q]) \in Content
      BY <3>1, <3>2, ContentTypes DEF PageFromFile
    <3> QED BY <1>1, <3>3 DEF read_block
  <2>3. actual_pages' \in 1..Ppb
    BY <1>1, Lengths DEF read_block, Partial
  <2> QED BY <1>1, <2>2, <2>3 DEF read_block
<1>2. CASE skip_badblock
  <2>1. curblk' \in StartBlock..(LastBlock + 1)
    BY <1>2, <1>0 DEF skip_badblock, PastBad, PartitionAssumption
  <2> QED BY <1>2, <2>1 DEF skip_badblock
<1>3. CASE good_block
  <2>1. p' \in 0..Ppb
    BY <1>3, <1>0 DEF good_block, PartitionAssumption
  <2> QED BY <1>3, <2>1 DEF good_block
<1>4. CASE program_page
  <2>1. curblk \in Block
    BY <1>4, <1>0 DEF Work, program_page, Block, PartitionAssumption
  <2>2. p \in Page /\ p' \in 0..Ppb
    BY <1>4, <1>0 DEF program_page, MorePages, Page, PartitionAssumption
  <2>3. /\ Overwritten(nand_buf[p]) \in Content
        /\ \A c \in {Overwritten(nand_buf[p]), Garbled} : c \in Content
    BY <2>2, ContentTypes
  <2>4. flash' \in [Block -> [Page -> Content]]
    <3>1. PICK c \in {Overwritten(nand_buf[p]), Garbled} :
            flash' = [flash EXCEPT ![curblk][p] = c]
      BY <1>4 DEF program_page
    <3>2. c \in Content
      BY <2>3
    <3> QED BY <3>1, <3>2, <2>1, <2>2
  <2>5. nand_buf' \in [Page -> Content]
    BY <1>4, <2>2, <2>3 DEF program_page
  <2> QED BY <1>4, <2>2, <2>4, <2>5 DEF program_page
<1>5. CASE pages_programmed
  BY <1>5 DEF pages_programmed
<1>6. CASE block_fails
  <2>1. curblk \in Block
    BY <1>6, <1>0 DEF Work, block_fails, Block, PartitionAssumption
  <2>2. flash' \in [Block -> [Page -> Content]]
    <3>1. PICK pages \in {flash[curblk], [q \in Page |-> Erased]} :
            flash' = [flash EXCEPT ![curblk] = Marked(pages)]
      BY <1>6 DEF block_fails
    <3>2. pages \in [Page -> Content]
      BY <2>1, ContentTypes
    <3>3. Marked(pages) \in [Page -> Content]
      BY <3>2, ContentTypes DEF Marked
    <3> QED BY <3>1, <3>3
  <2>3. curblk' \in StartBlock..(LastBlock + 1) /\ checkerr' \in Nat
    BY <1>6, <2>1, <1>0 DEF block_fails, Block, PartitionAssumption
  <2> QED BY <1>6, <2>2, <2>3 DEF block_fails
<1>7. CASE block_done
  <2>1. curblk' \in StartBlock..(LastBlock + 1)
    BY <1>7, <1>0 DEF block_done, Work, PartitionAssumption
  <2>2. checkerr' \in Nat /\ copyblks' \in Nat /\ offset' \in Nat
    BY <1>7, <1>0 DEF block_done, PartitionAssumption
  <2> QED BY <1>7, <2>1, <2>2 DEF block_done
<1>8. CASE out_of_blocks
  BY <1>8 DEF out_of_blocks
<1>9. CASE check_run
  <2>1. StartBlock \in StartBlock..(LastBlock + 1) /\ Ppb \in 1..Ppb /\ 0 \in 0..Ppb
    BY PartitionAssumption
  <2>2. nand_buf' \in [Page -> Content]
    BY <1>9, ContentTypes DEF check_run
  <2> QED BY <1>9, <2>1, <2>2 DEF check_run
<1>10. CASE Returned
  BY <1>10 DEF Returned, nandVars
<1> QED BY <1>1, <1>2, <1>3, <1>4, <1>5, <1>6, <1>7, <1>8, <1>9, <1>10
        DEF NandNext, do_prog_part

\* A block that was missing is copied: another one is missing, or none.
LEMMA NextMissing ==
  ASSUME NandTypeOK, Missing
  PROVE  /\ AllCopied(copyblks + 1) => copyblks + 1 = Needed
         /\ ~AllCopied(copyblks + 1) =>
              \/ copyblks + 1 < fblk
              \/ copyblks + 1 = fblk /\ fpage > 0
         /\ copyblks < Needed
  BY Lengths DEF NandTypeOK, Missing, AllCopied, Needed

LEMMA StepControl ==
  ASSUME Nonempty, NandInv, NandNext
  PROVE  Control' /\ Buffer'
<1>0. NandTypeOK /\ Control /\ Buffer /\ Work
  BY DEF NandInv
<1>1. copyblks \in Nat /\ Ppb \in Nat \ {0} /\ flen \in Nat /\ flen # 0
      /\ curblk \in StartBlock..(LastBlock + 1) /\ LastBlock \in Nat /\ StartBlock \in Nat
  BY <1>0, PartitionAssumption DEF NandTypeOK, Nonempty
<1>2. /\ flen' = flen
      /\ fblk' = fblk /\ fpage' = fpage /\ Needed' = Needed
  <2>1. flen' = flen
    BY DEF NandNext, do_prog_part, read_block, skip_badblock, good_block, program_page,
           pages_programmed, block_fails, block_done, out_of_blocks, check_run,
           Returned, nandVars
  <2> QED BY <2>1 DEF fblk, fpage, Needed, ImageBlock
<1>3. ASSUME copyblks' = copyblks, offset' = offset, pc' # "returned", pc # "returned"
      PROVE  Control'
  BY <1>0, <1>2, <1>3 DEF Control, Missing
<1>4. ASSUME copyblks' = copyblks, nand_buf' = nand_buf, actual_pages' = actual_pages,
             curblk_done' = curblk_done, check_only' = check_only,
             pc # "returned", pc' \notin {"program", "check"}
      PROVE  Buffer'
  BY <1>0, <1>2, <1>4 DEF Buffer, ImageBlock, FileBlock, PagesOf
<1>5. CASE read_block
  <2>1. pc = "loop" /\ Missing /\ (curblk_done => actual_pages = Ppb)
    BY <1>0, <1>5 DEF Control, Buffer, read_block
  <2>2. nand_buf' = FileBlock(copyblks) /\ actual_pages' = PagesOf(copyblks)
    BY <1>0, <1>5, <2>1, ReadsMissing
  <2>3. Buffer'
    BY <1>2, <1>5, <2>1, <2>2 DEF Buffer, read_block, FileBlock, PagesOf
  <2>4. Control'
    BY <1>3, <1>5 DEF read_block
  <2> QED BY <2>3, <2>4
<1>6. CASE skip_badblock \/ block_fails
  <2>1. Control'
    BY <1>3, <1>6 DEF skip_badblock, block_fails
  <2>2. Buffer'
    BY <1>4, <1>6 DEF skip_badblock, block_fails
  <2> QED BY <2>1, <2>2
<1>6a. CASE good_block
  <2>1. Control'
    BY <1>3, <1>6a DEF good_block
  <2>2. ~curblk_done /\ p' = 0 /\ (pc' = "check" => check_only)
        /\ \A q \in Page : ~(q < 0)
    BY <1>1, <1>6a DEF good_block, Page
  <2>3. Buffer'
    BY <1>0, <1>2, <1>6a, <2>2 DEF Buffer, good_block, ImageBlock, FileBlock, PagesOf
  <2> QED BY <2>1, <2>3
<1>6b. CASE program_page
  <2>1. Control'
    BY <1>3, <1>6b DEF program_page
  <2>2. /\ ~curblk_done /\ ~check_only /\ pc = "program" /\ Missing
        /\ p \in Page /\ actual_pages = PagesOf(copyblks) /\ p < actual_pages
    BY <1>0, <1>1, <1>6b DEF Work, Control, Buffer, program_page, MorePages, NandTypeOK, Page
  <2>3. copyblks * Ppb + p < flen
    BY <1>0, <2>2, PagesPast
  <2>4. ImageBlock(copyblks)[p] = Overwritten(nand_buf[p])
    <3>1. /\ FileBlock(copyblks)[p] = FilePage(copyblks * Ppb + p)
          /\ ImageBlock(copyblks)[p] = Overwritten(FilePage(copyblks * Ppb + p))
          /\ copyblks * Ppb + p \in Nat
      BY <1>0, <1>1, <2>2, <2>3, ImageBlockType
    <3>2. Overwritten(ImageBlock(copyblks)[p]) = ImageBlock(copyblks)[p]
      BY <3>1, ContentTypes
    <3>3. nand_buf[p] = FileBlock(copyblks)[p] \/ nand_buf[p] = ImageBlock(copyblks)[p]
      BY <1>0, <2>2 DEF Buffer
    <3> QED BY <3>1, <3>2, <3>3
  <2>5. nand_buf' = [nand_buf EXCEPT ![p] = ImageBlock(copyblks)[p]]
    BY <1>6b, <2>4 DEF program_page
  <2>6. \A q \in Page : nand_buf'[q] = IF q = p THEN ImageBlock(copyblks)[p] ELSE nand_buf[q]
    BY <1>0, <2>2, <2>5 DEF NandTypeOK
  <2>7. ASSUME NEW q \in Page, q < p + 1 PROVE q = p \/ q < p
    BY <2>2, <2>7 DEF Page
  <2>8. Buffer'
    BY <1>0, <1>2, <1>6b, <2>2, <2>6, <2>7
       DEF Buffer, program_page, ImageBlock, FileBlock, PagesOf
  <2> QED BY <2>1, <2>8
<1>6c. CASE pages_programmed
  <2>1. Control'
    BY <1>3, <1>6c DEF pages_programmed
  <2>2. /\ ~curblk_done /\ ~check_only /\ pc = "program" /\ Missing
        /\ actual_pages = PagesOf(copyblks) /\ ~(p < actual_pages)
    BY <1>0, <1>6c DEF Work, Control, Buffer, pages_programmed, MorePages
  <2>3. ASSUME NEW q \in Page PROVE nand_buf[q] = ImageBlock(copyblks)[q]
    <3>1. CASE q < p
      BY <1>0, <2>2, <3>1 DEF Buffer
    <3>2. CASE ~(q < p)
      <4>1. ~(q < PagesOf(copyblks))
        BY <1>0, <2>2, <3>2 DEF NandTypeOK, Page
      <4>2. ~(copyblks * Ppb + q < flen)
        BY <1>0, <2>2, <4>1, PagesPast
      <4>3. FileBlock(copyblks)[q] = ImageBlock(copyblks)[q]
        BY <1>0, <1>1, <4>2, ImageBlockType
      <4> QED BY <1>0, <2>2, <4>3 DEF Buffer
    <3> QED BY <3>1, <3>2
  <2>4. nand_buf = ImageBlock(copyblks)
    <3>1. ImageBlock(copyblks) \in [Page -> Content] /\ nand_buf \in [Page -> Content]
      BY <1>0, <1>1, ImageBlockType DEF NandTypeOK
    <3> QED BY <2>3, <3>1
  <2>5. Buffer'
    BY <1>0, <1>2, <1>6c, <2>2, <2>4 DEF Buffer, pages_programmed, ImageBlock, FileBlock, PagesOf
  <2> QED BY <2>1, <2>5
<1>7. CASE block_done
  <2>1. Missing
    BY <1>0, <1>7 DEF Control, block_done
  <2>2. offset' = copyblks' * Ppb
    <3>1. (copyblks + 1) * Ppb = copyblks * Ppb + Ppb
      BY <1>1, Multiples
    <3> QED BY <1>0, <1>7, <3>1 DEF Control, block_done
  <2>3. Control'
    BY <1>0, <1>2, <1>7, <2>1, <2>2, NextMissing DEF Control, Missing, block_done
  <2>4. Buffer'
    <3>1. ASSUME pc' # "returned" PROVE actual_pages' = Ppb
      <4>1. ~AllCopied(copyblks + 1)
        BY <1>7, <3>1 DEF block_done
      <4>2. copyblks # fblk
        BY <1>0, <1>1, <2>1, <4>1, NextMissing, Lengths
      <4>3. ~curblk_done
        BY <1>0, <1>7 DEF Work, block_done
      <4> QED BY <1>0, <1>7, <4>2, <4>3 DEF Buffer, PagesOf, block_done
    <3> QED BY <1>7, <3>1 DEF Buffer, block_done
  <2> QED BY <2>3, <2>4
<1>8. CASE out_of_blocks
  <2>1. Missing
    BY <1>0, <1>8 DEF Control, out_of_blocks
  <2>2. curblk = LastBlock + 1 /\ copyblks < Needed
    BY <1>0, <1>1, <1>8, <2>1, NextMissing DEF out_of_blocks
  <2>3. Control'
    BY <1>0, <1>2, <1>8, <2>2 DEF Control, out_of_blocks
  <2>4. Buffer'
    BY <1>4, <1>8 DEF out_of_blocks
  <2> QED BY <2>3, <2>4
<1>9. CASE check_run
  <2>1. fblk > 0 \/ (fblk = 0 /\ fpage > 0)
    BY <1>0, <1>1, Lengths
  <2>2. 0 * Ppb = 0
    BY <1>1
  <2> QED BY <1>2, <1>9, <2>1, <2>2 DEF Control, Missing, Buffer, check_run
<1>10. CASE Returned
  BY <1>0, <1>2, <1>10
     DEF Control, Missing, Buffer, Returned, nandVars, ImageBlock, FileBlock, PagesOf
<1> QED BY <1>5, <1>6, <1>6a, <1>6b, <1>6c, <1>7, <1>8, <1>9, <1>10 DEF NandNext, do_prog_part

-----------------------------------------------------------------------------

\* The block that is being programmed or checked is in the partition.
LEMMA BlockInWork ==
  ASSUME NandInv, pc \in {"program", "check"}
  PROVE  /\ curblk \in Block /\ curblk \in Nat /\ StartBlock \in Nat
         /\ StartBlock <= curblk
         /\ ~curblk_done /\ Missing /\ copyblks \in Nat
         /\ actual_pages = PagesOf(copyblks)
         /\ \A q \in Page : Overwritten(nand_buf[q]) # BadMark
<1>1. curblk \in StartBlock..(LastBlock + 1) /\ curblk <= LastBlock /\ ~curblk_done
  BY DEF NandInv, NandTypeOK, Work
<1>2. StartBlock \in Nat /\ LastBlock \in Nat
  BY PartitionAssumption
<1>3. Missing /\ actual_pages = PagesOf(copyblks) /\ copyblks \in Nat
  BY <1>1 DEF NandInv, Buffer, Control, NandTypeOK
<1>4. \A q \in Page : Overwritten(nand_buf[q]) # BadMark
  BY DEF NandInv, NandTypeOK, Overwritten, BadMark, Content
<1> QED BY <1>1, <1>2, <1>3, <1>4 DEF Block

\* A block that reads back is a block of the image, left over pages and all.
LEMMA CopiedBlock ==
  ASSUME NandInv, pc = "check", ~check_only, ReadsBack
  PROVE  flash[curblk] = ImageBlock(copyblks)
<1>1. /\ curblk \in Block /\ Missing /\ copyblks \in Nat
      /\ actual_pages = PagesOf(copyblks)
  BY BlockInWork
<1>2. NandTypeOK /\ flash[curblk] \in [Page -> Content]
  BY <1>1 DEF NandInv, NandTypeOK
<1>3. nand_buf = ImageBlock(copyblks)
  BY BlockInWork DEF NandInv, Buffer
<1>4. ASSUME NEW q \in Page PROVE flash[curblk][q] = ImageBlock(copyblks)[q]
  <2>0. q \in Nat /\ q < Ppb
    BY <1>2, Lengths DEF Page
  <2>1. CASE q < actual_pages
    <3>1. q \in 0..(actual_pages - 1)
      BY <2>0, <2>1, <1>2 DEF NandTypeOK
    <3> QED BY <3>1, <1>3 DEF ReadsBack, Restored
  <2>2. CASE ~(q < actual_pages)
    <3>1. flash[curblk][q] = Erased
      BY <2>0, <2>2, <1>2 DEF NandInv, Work, NandTypeOK
    <3>2. ~(copyblks * Ppb + q < flen)
      BY <1>1, <1>2, <2>2, PagesPast
    <3> QED BY <1>1, <1>2, <3>1, <3>2, ImageBlockType
  <2> QED BY <2>1, <2>2
<1>5. ImageBlock(copyblks) \in [Page -> Content]
  BY <1>1, <1>2, ImageBlockType
<1> QED BY <1>2, <1>4, <1>5

\* A step that leaves the blocks behind curblk alone leaves them counted and in
\* order.
LEMMA BehindUnchanged ==
  ASSUME NandInv, flen' = flen, check_only' = check_only, curblk' = curblk,
         copyblks' = copyblks,
         \A b \in StartBlock..(curblk - 1) : flash'[b] = flash[b]
  PROVE  Counted' /\ InOrder'
<1>1. curblk \in Nat /\ StartBlock \in Nat
  BY PartitionAssumption DEF NandInv, NandTypeOK
<1>2. Good(flash', curblk) = Good(flash, curblk)
  BY GoodSame
<1>3. Counted'
  BY <1>2 DEF Counted, NandInv
<1>4. ASSUME NEW b \in StartBlock..(curblk - 1), ~check_only, flash'[b][Ppb - 1] # BadMark
      PROVE  (flash[b] = ImageBlock(Cardinality(Good(flash, b))))'
  <2>1. \A c \in StartBlock..(b - 1) : flash'[c][Ppb - 1] = flash[c][Ppb - 1]
    BY <1>1
  <2>2. Good(flash', b) = Good(flash, b)
    BY <2>1, GoodSame
  <2>3. flash[b] = ImageBlock(Cardinality(Good(flash, b)))
    BY <1>4 DEF NandInv, InOrder
  <2> QED BY <2>2, <2>3 DEF ImageBlock
<1> QED BY <1>3, <1>4 DEF InOrder

\* The loop goes on to the next block: it was bad and is not counted, or holds
\* the next block of the image and is counted.
LEMMA BehindGrows ==
  ASSUME NandInv, flen' = flen, check_only' = check_only, curblk <= LastBlock,
         curblk' = curblk + 1,
         \A b \in StartBlock..(curblk - 1) : flash'[b] = flash[b],
         \/ flash'[curblk][Ppb - 1] = BadMark /\ copyblks' = copyblks
         \/ /\ flash'[curblk][Ppb - 1] # BadMark /\ copyblks' = copyblks + 1
            /\ ~check_only => flash'[curblk] = ImageBlock(copyblks)
  PROVE  Counted' /\ InOrder'
<1>1. curblk \in Nat /\ StartBlock \in Nat /\ StartBlock <= curblk
  BY PartitionAssumption DEF NandInv, NandTypeOK
<1>2. Cardinality(Good(flash', curblk)) = copyblks
  BY GoodSame DEF NandInv, Counted
<1>3. Counted'
  BY <1>1, <1>2, GoodStep DEF Counted
<1>4. ASSUME NEW b \in StartBlock..curblk, ~check_only, flash'[b][Ppb - 1] # BadMark
      PROVE  (flash[b] = ImageBlock(Cardinality(Good(flash, b))))'
  <2>1. CASE b = curblk
    <3>1. flash'[b] = ImageBlock(copyblks)
      BY <1>4, <2>1
    <3> QED BY <3>1, <2>1, <1>2 DEF ImageBlock
  <2>2. CASE b # curblk
    <3>1. b \in StartBlock..(curblk - 1)
      BY <1>1, <2>2
    <3>2. \A c \in StartBlock..(b - 1) : flash'[c][Ppb - 1] = flash[c][Ppb - 1]
      BY <1>1, <3>1
    <3>3. Good(flash', b) = Good(flash, b)
      BY <3>2, GoodSame
    <3>4. flash[b] = ImageBlock(Cardinality(Good(flash, b)))
      BY <1>4, <3>1 DEF NandInv, InOrder
    <3> QED BY <3>1, <3>3, <3>4 DEF ImageBlock
  <2> QED BY <2>1, <2>2
<1>5. curblk' - 1 = curblk
  BY <1>1
<1> QED BY <1>3, <1>4, <1>5 DEF InOrder

-----------------------------------------------------------------------------

LEMMA StepBlocks ==
  ASSUME NandInv, NandNext
  PROVE  Work' /\ Fresh' /\ Counted' /\ InOrder'
<1>0. Work /\ Fresh /\ Counted /\ InOrder
  BY DEF NandInv
<1>1. /\ curblk \in Nat /\ StartBlock \in Nat /\ LastBlock \in Nat /\ StartBlock <= curblk
      /\ Ppb \in Nat \ {0} /\ flash \in [Block -> [Page -> Content]]
      /\ Ppb - 1 \in Page
  BY PartitionAssumption DEF NandInv, NandTypeOK, Page
<1>2. ASSUME flash' = flash, flen' = flen, check_only' = check_only, curblk' = curblk,
             copyblks' = copyblks
      PROVE  Counted' /\ InOrder'
  BY <1>2, BehindUnchanged
<1>3. CASE read_block \/ out_of_blocks
  <2>1. Work'
    BY <1>3 DEF Work, read_block, out_of_blocks
  <2>2. Fresh'
    BY <1>0, <1>3 DEF Fresh, read_block, out_of_blocks
  <2> QED BY <1>2, <1>3, <2>1, <2>2 DEF read_block, out_of_blocks
<1>4. CASE skip_badblock
  <2>1. Work'
    BY <1>4 DEF Work, skip_badblock
  <2>2. Fresh'
    BY <1>0, <1>1, <1>4 DEF Fresh, skip_badblock, PastBad, Block
  <2>3. Counted' /\ InOrder'
    BY <1>4, BehindGrows DEF skip_badblock, PastBad, IsBad
  <2> QED BY <2>1, <2>2, <2>3
<1>5. CASE good_block
  <2>1. curblk \in Block /\ pc = "loop" /\ flash[curblk][Ppb - 1] # BadMark
    BY <1>1, <1>5 DEF good_block, Block, IsBad
  <2>2. ~check_only => \A q \in Page : flash[curblk][q] = Erased
    BY <1>0, <2>1 DEF Fresh
  <2>3. Work'
    BY <1>5, <2>1, <2>2 DEF Work, good_block
  <2>4. Fresh'
    BY <1>0, <1>5 DEF Fresh, good_block
  <2> QED BY <1>2, <1>5, <2>3, <2>4 DEF good_block
<1>6. CASE program_page
  <2>1. pc = "program" /\ ~check_only /\ p \in Nat /\ p < actual_pages
        /\ actual_pages \in Nat /\ actual_pages <= Ppb
    BY <1>0, <1>1, <1>6 DEF program_page, MorePages, Work, NandInv, NandTypeOK
  <2>2. curblk \in Block /\ p \in Page /\ Overwritten(nand_buf[p]) # BadMark
    <3>1. curblk \in Block /\ \A q \in Page : Overwritten(nand_buf[q]) # BadMark
      BY <2>1, BlockInWork
    <3>2. p \in Page
      BY <1>1, <2>1 DEF Page
    <3> QED BY <3>1, <3>2
  <2>3. PICK c \in {Overwritten(nand_buf[p]), Garbled} :
          flash' = [flash EXCEPT ![curblk][p] = c]
    BY <1>6 DEF program_page
  <2>4. c # BadMark
    BY <2>2, <2>3, ContentTypes
  <2>5. \A b \in Block : b # curblk => flash'[b] = flash[b]
    BY <1>1, <2>2, <2>3
  <2>6. \A q \in Page : flash'[curblk][q] = IF q = p THEN c ELSE flash[curblk][q]
    BY <1>1, <2>2, <2>3
  <2>7. Work'
    BY <1>0, <1>1, <1>6, <2>1, <2>4, <2>6 DEF Work, program_page
  <2>8. Fresh'
    BY <1>0, <1>1, <1>6, <2>1, <2>5 DEF Fresh, program_page, Block
  <2>9. Counted' /\ InOrder'
    <3>1. \A b \in StartBlock..(curblk - 1) : b \in Block /\ b # curblk
      BY <1>1, <2>2 DEF Block
    <3> QED BY <3>1, <2>5, <1>6, BehindUnchanged DEF program_page
  <2> QED BY <2>7, <2>8, <2>9
<1>7. CASE pages_programmed
  <2>1. Work' /\ Fresh'
    BY <1>0, <1>7 DEF Work, Fresh, pages_programmed
  <2> QED BY <1>2, <1>7, <2>1 DEF pages_programmed
<1>8. CASE block_fails
  <2>1. curblk \in Block /\ curblk <= LastBlock
    BY <1>1, <1>8, BlockInWork DEF block_fails, Block
  <2>2. PICK pages \in {flash[curblk], [q \in Page |-> Erased]} :
          flash' = [flash EXCEPT ![curblk] = Marked(pages)]
    BY <1>8 DEF block_fails
  <2>3. flash'[curblk][Ppb - 1] = BadMark
    <3>1. pages \in [Page -> Content]
      BY <1>1, <2>1, <2>2, ContentTypes
    <3>2. Marked(pages)[Ppb - 1] = BadMark
      BY <1>1, <3>1 DEF Marked
    <3> QED BY <1>1, <2>1, <2>2, <3>2
  <2>4. \A b \in Block : b # curblk => flash'[b] = flash[b]
    BY <1>1, <2>1, <2>2
  <2>5. Work'
    BY <1>8 DEF Work, block_fails
  <2>6. Fresh'
    <3>1. \A b \in Block : b > curblk + 1 \/ b = curblk + 1 => b > curblk /\ b # curblk
      BY <1>1 DEF Block
    <3> QED BY <1>0, <1>8, <2>4, <3>1 DEF Fresh, block_fails
  <2>7. Counted' /\ InOrder'
    <3>1. \A b \in StartBlock..(curblk - 1) : b \in Block /\ b # curblk
      BY <1>1, <2>1 DEF Block
    <3> QED BY <3>1, <2>1, <2>3, <2>4, <1>8, BehindGrows DEF block_fails
  <2> QED BY <2>5, <2>6, <2>7
<1>9. CASE block_done
  <2>1. curblk <= LastBlock /\ flash[curblk][Ppb - 1] # BadMark
    BY <1>0, <1>9 DEF Work, block_done
  <2>2. ~check_only => flash[curblk] = ImageBlock(copyblks)
    BY <1>9, CopiedBlock DEF block_done
  <2>3. Work'
    BY <1>9 DEF Work, block_done
  <2>4. Fresh'
    BY <1>0, <1>1, <1>9 DEF Fresh, block_done, Block
  <2>5. Counted' /\ InOrder'
    BY <1>9, <2>1, <2>2, BehindGrows DEF block_done
  <2> QED BY <2>3, <2>4, <2>5
<1>10. CASE check_run
  <2>1. Work' /\ Fresh'
    BY <1>10 DEF Work, Fresh, check_run
  <2>2. Good(flash, StartBlock) = {}
    BY <1>1 DEF Good
  <2>3. Counted'
    BY <1>10, <2>2, FS_EmptySet DEF Counted, check_run
  <2>4. InOrder'
    BY <1>10 DEF InOrder, check_run
  <2> QED BY <2>1, <2>3, <2>4
<1>11. CASE Returned
  <2>1. Work' /\ Fresh'
    BY <1>0, <1>11 DEF Work, Fresh, Returned, nandVars
  <2> QED BY <1>2, <1>11, <2>1 DEF Returned, nandVars
<1> QED BY <1>3, <1>4, <1>5, <1>6, <1>7, <1>8, <1>9, <1>10, <1>11
        DEF NandNext, do_prog_part

LEMMA Stutters ==
  ASSUME NandInv, UNCHANGED nandVars
  PROVE  NandInv'
  BY DEF NandInv, NandTypeOK, Control, Buffer, Work, Fresh, Counted, InOrder, nandVars,
         Missing, Needed, fblk, fpage, ImageBlock, FileBlock, PagesOf, Good

\* The four parts of the invariant hold in every state of do_prog_part, in the
\* programming run and in the check run.
THEOREM NandInvariant == ASSUME Nonempty PROVE NandSpec => []NandInv
<1>1. NandInit => NandInv
  BY InitInv
<1>2. NandInv /\ [NandNext]_nandVars => NandInv'
  BY StepTypes, StepControl, StepBlocks, Stutters DEF NandInv
<1> QED BY <1>1, <1>2, PTL DEF NandSpec

-----------------------------------------------------------------------------

\* For every partition and every image of at least one page, no variable of
\* do_prog_part leaves its range; curblk stops one past the partition.
THEOREM NandTypes == ASSUME Nonempty PROVE NandSpec => []NandTypeOK
<1>1. NandInv => NandTypeOK
  BY DEF NandInv
<1> QED BY <1>1, NandInvariant, PTL

\* Whatever blocks are bad and whatever pages and erases fail, the good blocks
\* that the programming run has passed hold the image in order.
THEOREM NandImageInOrder == ASSUME Nonempty PROVE NandSpec => []ImageInOrder
<1>1. NandInv => ImageInOrder
  <2> SUFFICES ASSUME NandInv PROVE ImageInOrder
    OBVIOUS
  <2>1. \A b : GoodBefore(b) = Good(flash, b)
    BY DEF GoodBefore, Good
  <2> QED BY <2>1 DEF NandInv, Counted, InOrder, ImageInOrder, Good
<1> QED BY <1>1, NandInvariant, PTL

\* do_prog_part returns with the whole image copied, or because the good blocks
\* of the partition are fewer than the image needs.
THEOREM NandStopsWhenCopied == ASSUME Nonempty PROVE NandSpec => []StopsWhenCopied
<1>1. NandInv => StopsWhenCopied
  <2> SUFFICES ASSUME NandInv PROVE StopsWhenCopied
    OBVIOUS
  <2>1. GoodBefore(LastBlock + 1) = Good(flash, LastBlock + 1)
    BY DEF GoodBefore, Good
  <2> QED BY <2>1 DEF NandInv, Control, Counted, StopsWhenCopied
<1> QED BY <1>1, NandInvariant, PTL

\* No more blocks are copied than the image needs, in either mode.
THEOREM NandCopiesNeededOnly == ASSUME Nonempty PROVE NandSpec => []CopiesNeededOnly
<1>1. NandInv => CopiesNeededOnly
  <2> SUFFICES ASSUME NandInv PROVE CopiesNeededOnly
    OBVIOUS
  <2>1. NandTypeOK /\ Control /\ copyblks \in Nat
    BY DEF NandInv, NandTypeOK
  <2>2. Needed \in Nat
    BY <2>1, Lengths DEF Needed
  <2>3. CASE pc = "returned"
    BY <2>1, <2>2, <2>3 DEF Control, CopiesNeededOnly
  <2>4. CASE pc # "returned"
    BY <2>1, <2>2, <2>4, NextMissing DEF Control, CopiesNeededOnly
  <2> QED BY <2>3, <2>4
<1> QED BY <1>1, NandInvariant, PTL

\* do_prog_part stays in its partition and copies what the image needs, for
\* every partition, block size and nonempty image and whatever fails.
THEOREM NandState == ASSUME Nonempty PROVE NandSpec => []NandStateOK
<1>1. NandTypeOK /\ StopsWhenCopied /\ CopiesNeededOnly => NandStateOK
  BY DEF NandStateOK
<1> QED BY <1>1, NandTypes, NandStopsWhenCopied, NandCopiesNeededOnly, PTL

\* A block that is marked bad is never programmed, erased or marked again.
THEOREM NandBadStaysBad == ASSUME Nonempty PROVE NandSpec => BadStaysBad
<1>1. NandInv /\ [NandNext]_nandVars =>
        [\A b \in Block : flash[b][Ppb - 1] = BadMark => flash'[b] = flash[b]]_nandVars
  <2> SUFFICES ASSUME NandInv, NandNext, NEW b \in Block, flash[b][Ppb - 1] = BadMark
               PROVE  flash'[b] = flash[b]
    BY DEF nandVars
  <2>1. Work /\ flash \in [Block -> [Page -> Content]]
    BY DEF NandInv, NandTypeOK
  <2>2. ASSUME pc \in {"program", "check"} PROVE b # curblk /\ curblk \in Block
    BY <2>1, <2>2, BlockInWork DEF Work
  <2>3. CASE program_page
    <3>1. PICK c : flash' = [flash EXCEPT ![curblk][p] = c]
      BY <2>3 DEF program_page
    <3> QED BY <2>1, <2>2, <2>3, <3>1 DEF program_page
  <2>4. CASE block_fails
    <3>1. PICK pages : flash' = [flash EXCEPT ![curblk] = Marked(pages)]
      BY <2>4 DEF block_fails
    <3> QED BY <2>1, <2>2, <2>4, <3>1 DEF block_fails
  <2>5. ASSUME ~program_page, ~block_fails PROVE flash' = flash
    BY <2>5 DEF NandNext, do_prog_part, read_block, skip_badblock, good_block,
                pages_programmed, block_done, out_of_blocks, check_run, Returned, nandVars
  <2> QED BY <2>3, <2>4, <2>5
<1> QED BY <1>1, NandInvariant, PTL DEF NandSpec, BadStaysBad

-----------------------------------------------------------------------------

LEMMA GoodGrows ==
  ASSUME NEW f, NEW b \in Nat, NEW c \in Nat, StartBlock \in Nat, b <= c
  PROVE  Cardinality(Good(f, b)) <= Cardinality(Good(f, c))
<1>1. Good(f, b) \subseteq Good(f, c)
  BY DEF Good
<1> QED BY <1>1, GoodFinite, FS_Subset

\* What the check run finds: the first programmed good blocks hold the image,
\* and more of them are neither needed nor there.
Wrong(n) == {k \in 0..(n - 1) : LooksWrong(k)}

Rerun ==
  check_only =>
    /\ checkerr = Cardinality(Wrong(copyblks))
    /\ copyblks <= programmed /\ programmed <= Needed
    /\ programmed <= Cardinality(Good(flash, LastBlock + 1))
    /\ programmed = Needed \/ programmed = Cardinality(Good(flash, LastBlock + 1))
    /\ \A b \in Block :
         flash[b][Ppb - 1] # BadMark /\ Cardinality(Good(flash, b)) < programmed =>
           flash[b] = ImageBlock(Cardinality(Good(flash, b)))

\* A good block that the check run meets while blocks are missing is one of
\* those that were programmed, and it reads back unless it looks wrong.
LEMMA BlockAgrees ==
  ASSUME NandInv, Rerun, check_only, pc = "check"
  PROVE  copyblks < programmed /\ (ReadsBack <=> ~LooksWrong(copyblks))
<1>1. /\ curblk \in Block /\ curblk \in Nat /\ StartBlock \in Nat /\ StartBlock <= curblk
      /\ flash[curblk][Ppb - 1] # BadMark /\ Missing
      /\ curblk <= LastBlock /\ LastBlock \in Nat /\ copyblks \in Nat /\ programmed \in Nat
      /\ actual_pages \in 1..Ppb /\ Ppb \in Nat /\ actual_pages = PagesOf(copyblks)
  BY BlockInWork, PartitionAssumption DEF NandInv, NandTypeOK, Work
<1>2. Cardinality(Good(flash, curblk)) = copyblks
  BY DEF NandInv, Counted
<1>3. copyblks < Needed /\ Needed \in Nat
  BY NextMissing, Lengths DEF NandInv, Control, Needed
<1>4. copyblks + 1 <= Cardinality(Good(flash, LastBlock + 1))
  <2>1. Cardinality(Good(flash, curblk + 1)) = copyblks + 1
    BY <1>1, <1>2, GoodStep
  <2> QED BY <1>1, <2>1, GoodGrows
<1>5. Cardinality(Good(flash, LastBlock + 1)) \in Nat
  BY <1>1, GoodFinite
<1>6. copyblks < programmed
  BY <1>1, <1>3, <1>4, <1>5 DEF Rerun
<1>7. flash[curblk] = ImageBlock(copyblks)
  BY <1>1, <1>2, <1>6 DEF Rerun
<1>8. ASSUME NEW q \in 0..(actual_pages - 1)
      PROVE  /\ q \in Page /\ copyblks * Ppb + q < flen
             /\ (Restored(flash[curblk][q]) = nand_buf[q]) <=>
                  ~(copyblks * Ppb + q \in Tagged \/ EccBytes > 36)
  <2>1. q \in Page /\ q < PagesOf(copyblks)
    BY <1>1 DEF Page
  <2>2. copyblks * Ppb + q < flen
    BY <1>1, <2>1, PagesPast DEF NandInv
  <2> DEFINE n == copyblks * Ppb + q
  <2>3. /\ n \in Nat
        /\ FileBlock(copyblks)[q] = FilePage(n)
        /\ ImageBlock(copyblks)[q] = Overwritten(FilePage(n))
    BY <1>1, <2>1, <2>2, ImageBlockType DEF NandInv
  <2>4. nand_buf[q] = FilePage(n)
    BY <1>1, <2>1, <2>3, BlockInWork DEF NandInv, Buffer
  <2>5. flash[curblk][q] = [page |-> n, spare |-> "ecc"]
    BY <1>7, <2>3, ContentTypes
  <2>6. EccBytes \in Nat
    BY PartitionAssumption
  <2> HIDE DEF n
  <2>7. Restored([page |-> n, spare |-> "ecc"]) =
          [page |-> n, spare |-> IF EccBytes <= 36 THEN "blank" ELSE "ecc"]
    BY DEF Restored
  <2>8. (Restored(flash[curblk][q]) = nand_buf[q]) <=> ~(n \in Tagged \/ EccBytes > 36)
    BY <2>4, <2>5, <2>6, <2>7 DEF FilePage
  <2> QED BY <2>1, <2>2, <2>8 DEF n
<1>9. ASSUME NEW q \in Page, copyblks * Ppb + q < flen PROVE q \in 0..(actual_pages - 1)
  <2>1. q < actual_pages
    BY <1>1, <1>9, PagesPast DEF NandInv
  <2> QED BY <1>1, <2>1 DEF Page
<1>10. ReadsBack <=> ~LooksWrong(copyblks)
  BY <1>8, <1>9 DEF ReadsBack, LooksWrong
<1> QED BY <1>6, <1>10

\* The blocks that look wrong, counted one by one.
LEMMA WrongStep ==
  ASSUME NEW n \in Nat
  PROVE  /\ Cardinality(Wrong(n)) \in Nat
         /\ Cardinality(Wrong(n + 1)) =
              IF LooksWrong(n) THEN Cardinality(Wrong(n)) + 1 ELSE Cardinality(Wrong(n))
<1>1. IsFiniteSet(Wrong(n)) /\ n \notin Wrong(n)
  <2>1. IsFiniteSet(0..(n - 1))
    BY FS_Interval
  <2>2. Wrong(n) \subseteq 0..(n - 1)
    BY DEF Wrong
  <2> QED BY <2>1, <2>2, FS_Subset
<1>2. 0..(n + 1 - 1) = (0..(n - 1)) \cup {n}
  OBVIOUS
<1>3. Wrong(n + 1) = IF LooksWrong(n) THEN Wrong(n) \cup {n} ELSE Wrong(n)
  BY <1>2 DEF Wrong
<1> QED BY <1>1, <1>3, FS_AddElement, FS_CardinalityType

LEMMA StepRerun ==
  ASSUME NandInv, Rerun, NandNext
  PROVE  Rerun'
<1>1. /\ curblk \in Nat /\ curblk <= LastBlock + 1 /\ LastBlock \in Nat /\ StartBlock \in Nat
      /\ copyblks \in Nat /\ programmed \in Nat
  BY PartitionAssumption DEF NandInv, NandTypeOK
<1>2. /\ flen' = flen /\ Needed' = Needed /\ \A k : ImageBlock(k)' = ImageBlock(k)
      /\ \A n : Wrong(n)' = Wrong(n)
  <2>1. flen' = flen
    BY DEF NandNext, do_prog_part, read_block, skip_badblock, good_block, program_page,
           pages_programmed, block_fails, block_done, out_of_blocks, check_run,
           Returned, nandVars
  <2> QED BY <2>1 DEF fblk, fpage, Needed, ImageBlock, Wrong, LooksWrong
<1>3. ASSUME check_only' = check_only, check_only => flash' = flash, programmed' = programmed,
             check_only => /\ checkerr' = Cardinality(Wrong(copyblks'))
                           /\ copyblks' <= programmed
      PROVE  Rerun'
  BY <1>2, <1>3 DEF Rerun, Good, ImageBlock, Wrong, LooksWrong
<1>4. CASE read_block \/ skip_badblock \/ good_block \/ pages_programmed \/ out_of_blocks
  BY <1>3, <1>4 DEF Rerun, read_block, skip_badblock, good_block, pages_programmed, out_of_blocks
<1>5. CASE program_page
  BY <1>3, <1>5 DEF NandInv, Work, program_page
<1>6. CASE block_fails
  BY <1>3, <1>6 DEF block_fails
<1>7. CASE block_done
  <2>1. check_only => copyblks < programmed /\ (ReadsBack <=> ~LooksWrong(copyblks))
    BY <1>7, BlockAgrees DEF block_done
  <2>2. check_only => checkerr' = Cardinality(Wrong(copyblks'))
    BY <1>1, <1>7, <2>1, WrongStep DEF block_done, Rerun
  <2> QED BY <1>1, <1>3, <1>7, <2>1, <2>2 DEF block_done
<1>8. CASE check_run
  <2> DEFINE all == Cardinality(Good(flash, LastBlock + 1))
  <2>1. /\ pc = "returned" /\ ~check_only /\ flash' = flash
        /\ programmed' = copyblks /\ copyblks' = 0 /\ checkerr' = 0
    BY <1>8 DEF check_run
  <2>2. Cardinality(Good(flash, curblk)) = copyblks
    BY DEF NandInv, Counted
  <2>3. copyblks <= all
    BY <1>1, <2>2, GoodGrows
  <2>4. copyblks <= Needed /\ (copyblks = Needed \/ copyblks = all)
    BY <1>1, <2>1, <2>2, Lengths DEF NandInv, Control, Needed
  <2>5. ASSUME NEW b \in Block, flash[b][Ppb - 1] # BadMark,
               Cardinality(Good(flash, b)) < copyblks
        PROVE  flash[b] = ImageBlock(Cardinality(Good(flash, b)))
    <3>1. b \in Nat /\ StartBlock <= b
      BY <1>1 DEF Block
    <3>2. Cardinality(Good(flash, b)) \in Nat
      BY <1>1, <3>1, GoodFinite
    <3>3. b < curblk
      BY <1>1, <2>2, <2>5, <3>1, <3>2, GoodGrows
    <3>4. b \in StartBlock..(curblk - 1)
      BY <1>1, <3>1, <3>3
    <3> QED BY <2>1, <2>5, <3>4 DEF NandInv, InOrder
  <2>6. Good(flash, LastBlock + 1)' = Good(flash, LastBlock + 1)
        /\ \A b : Good(flash, b)' = Good(flash, b)
    BY <2>1 DEF Good
  <2>7. Wrong(copyblks)' = {}
    BY <2>1 DEF Wrong
  <2>8. checkerr' = Cardinality(Wrong(copyblks)')
    BY <2>1, <2>7, FS_EmptySet
  <2> QED BY <1>1, <1>2, <2>1, <2>3, <2>4, <2>5, <2>6, <2>8 DEF Rerun, ImageBlock
<1>9. CASE Returned
  BY <1>3, <1>9 DEF Rerun, Returned, nandVars
<1> QED BY <1>4, <1>5, <1>6, <1>7, <1>8, <1>9 DEF NandNext, do_prog_part

\* Whatever failed while the image was programmed, the check run that follows
\* goes through as many blocks and finds errors in exactly the blocks that have
\* tags where the driver puts 0xff and ECC - in every block, if the ECC of a page
\* is longer than 36 bytes.
THEOREM NandCheckAgrees == ASSUME Nonempty PROVE NandSpec => []CheckAgrees
<1>1. NandInit => Rerun
  BY DEF NandInit, Rerun
<1>2. NandInv /\ Rerun /\ [NandNext]_nandVars => Rerun'
  <2>1. ASSUME Rerun, UNCHANGED nandVars PROVE Rerun'
    BY <2>1 DEF Rerun, nandVars, Good, Needed, fblk, fpage, ImageBlock, Wrong, LooksWrong
  <2> QED BY <2>1, StepRerun
<1>3. NandInv /\ Rerun => CheckAgrees
  <2> SUFFICES ASSUME NandInv, Rerun, check_only, pc = "returned"
               PROVE  copyblks = programmed
    BY DEF CheckAgrees, Rerun, Wrong
  <2>1. copyblks \in Nat /\ programmed \in Nat /\ Needed \in Nat
    BY Lengths DEF NandInv, NandTypeOK, Needed
  <2>2. copyblks = Needed \/ copyblks = Cardinality(Good(flash, LastBlock + 1))
    BY DEF NandInv, Control, Counted
  <2> QED BY <2>1, <2>2 DEF Rerun
<1> QED BY <1>1, <1>2, <1>3, NandInvariant, PTL DEF NandSpec
-----------------------------------------------------------------------------
(* The driver.                                                             *)

Marks == (Contents \cup {"ff", "00", "??", "oob", "status", "vid", "did"}) \X Int

Items == [v : Marks, flips : Int, par : Seq(Marks), ff : BOOLEAN]

Layout == {page \in Seq(Items) : Len(page) = ecccnt + 1 /\ Len(page[ecccnt + 1].par) = ecccnt}

Cycles ==
  [do : {"cmd"}, arg : Opens \cup {"CONFIRM", "PGPROG", "ERASE", "READ_STATUS"}]
  \cup [do : {"addr"}, arg : Int] \cup [do : {"write"}, arg : Items]
  \cup [do : {"read", "sync"}, arg : {0}] \cup [do : {"select"}, arg : BOOLEAN]

Chips == [pin : {"ready", "soon", "busy"}, cmd : Opens \cup {"none"}, area : {"data", "oob"},
          addr : Seq(Int), data : Seq(Items), reg : Seq(Items), fail : 0..1]

\* What is true of the rest of a script, wherever the driver is in it.
Begins(c) == c.do = "cmd" /\ c.arg \in {"CONFIRM", "PGPROG", "ERASE"}
Opening(c) == c.do = "cmd" /\ c.arg \in Opens
Reading(c) == c.do = "cmd" /\ c.arg \in {"READA", "READC"}

StartsThenWaits(s) ==
  \A k \in DOMAIN s : Begins(s[k]) => k + 1 \in DOMAIN s /\ s[k + 1].do = "sync"

\* The next n cycles are address bytes, and the one behind them waits.
Addresses(s, k, n) ==
  k + n \in DOMAIN s /\ (\A l \in k..k + n - 1 : s[l].do = "addr") /\ s[k + n].do = "sync"

RowThenWaits(s) ==
  pagesize = 512 =>
    \A k \in DOMAIN s : Reading(s[k]) =>
      k + 1 \in DOMAIN s /\ (s[k + 1].do = "addr" => Addresses(s, k + 1, row + 1))

AddressBehindOpening(s) ==
  \A k \in DOMAIN s : k + 1 \in DOMAIN s /\ s[k + 1].do = "addr" => s[k].do = "addr" \/ Opening(s[k])

\* The next n cycles are data, and the one behind them is the spare bytes.
PageFollows(s, k, n, size) ==
  /\ k + n \in DOMAIN s /\ \A l \in k..k + n : s[l].do = "write"
  /\ Len(s[k + n].arg.par) = size

PageBehindAddress(s) ==
  \A k \in DOMAIN s : k + 1 \in DOMAIN s /\ s[k + 1].do = "write" =>
    s[k].do = "write" \/ (s[k].do = "addr" /\ PageFollows(s, k + 1, ecccnt, ecccnt))

Sound(s) ==
  /\ s \in Seq(Cycles)
  /\ StartsThenWaits(s) /\ RowThenWaits(s) /\ AddressBehindOpening(s) /\ PageBehindAddress(s)

\* A script leaves the chip disabled.
Leaves(s, sel) ==
  \/ s # <<>> /\ s[Len(s)] = [do |-> "select", arg |-> FALSE]
  \/ ~sel /\ \A k \in DOMAIN s : s[k].do # "select"

Ahead(do) == script # <<>> /\ Head(script).do = do

\* The chip works only while the driver waits.
WorksWhileWaiting ==
  /\ chip.pin # "ready" => Ahead("sync")
  /\ waiting = "ready" => Ahead("sync") /\ chip.pin # "soon"

\* The address bytes that are still to come complete the address that the chip has.
AddressFits ==
  pagesize = 512 /\ Hears /\ chip.cmd \in {"READA", "READC"} /\ Len(chip.addr) <= row /\ Ahead("addr") =>
    Addresses(script, 1, row + 1 - Len(chip.addr))

\* And so for the data; a page that is complete has spare bytes.
DataFits ==
  /\ Hears /\ chip.cmd = "SEQIN" /\ Ahead("addr") => chip.data = <<>>
  /\ Hears /\ chip.cmd = "SEQIN" /\ Len(chip.data) <= ecccnt /\ Ahead("write") =>
       PageFollows(script, 1, ecccnt - Len(chip.data), ecccnt)
  /\ Len(chip.data) >= ecccnt + 1 => Len(chip.data[ecccnt + 1].par) = ecccnt

FlashTypes ==
  /\ pagesize \in PageSizes /\ cells \in [FlashPages -> Layout] /\ chip \in Chips
  /\ selected \in BOOLEAN /\ waiting \in {"busy", "ready"} /\ timeout \in 0..Timeout

FlashInv ==
  /\ FlashTypes
  /\ Sound(script) /\ Leaves(script, selected)
  /\ serving = <<>> => script = <<>> /\ got = <<>>
  /\ WorksWhileWaiting /\ AddressFits /\ DataFits

-----------------------------------------------------------------------------

LEMMA TailOfScript ==
  ASSUME NEW S, NEW s \in Seq(S), s # <<>>
  PROVE  /\ Tail(s) \in Seq(S) /\ Len(Tail(s)) = Len(s) - 1 /\ Len(s) \in Nat \ {0}
         /\ \A k \in DOMAIN Tail(s) : k + 1 \in DOMAIN s /\ Tail(s)[k] = s[k + 1]
         /\ DOMAIN s = 1..Len(s) /\ DOMAIN Tail(s) = 1..Len(s) - 1 /\ Head(s) = s[1] /\ s[1] \in S
  OBVIOUS

LEMMA ConstantTypes ==
  row \in Nat \ {0} /\ ppb \in Nat \ {0} /\ Timeout \in Nat /\ Twb \in 0..Timeout
  BY FlashAssumption

LEMMA Ecccnt ==
  ASSUME pagesize \in PageSizes
  PROVE  /\ pagesize \in {512, 2048, 4096} /\ ecccnt \in {1, 4, 8} /\ ecccnt \in Nat \ {0}
         /\ pagesize = 512 => ecccnt = 1
  BY FlashAssumption DEF ecccnt

LEMMA TailSound ==
  ASSUME NEW s, Sound(s), s # <<>>, pagesize \in PageSizes
  PROVE  Sound(Tail(s))
<1> DEFINE t == Tail(s)
<1>1. /\ t \in Seq(Cycles) /\ DOMAIN s = 1..Len(s) /\ DOMAIN t = 1..Len(s) - 1 /\ Len(s) \in Nat
      /\ \A k \in DOMAIN t : t[k] = s[k + 1]
  BY TailOfScript DEF Sound
<1> HIDE DEF t
<1>2. StartsThenWaits(t)
  BY <1>1 DEF Sound, StartsThenWaits
<1>3. RowThenWaits(t)
  <2> SUFFICES ASSUME pagesize = 512, NEW k \in DOMAIN t, Reading(t[k])
               PROVE  k + 1 \in DOMAIN t /\ (t[k + 1].do = "addr" => Addresses(t, k + 1, row + 1))
    BY DEF RowThenWaits
  <2>1. k + 2 \in DOMAIN s /\ (s[k + 2].do = "addr" => Addresses(s, k + 2, row + 1))
    BY <1>1 DEF Sound, RowThenWaits
  <2>2. k + 1 \in DOMAIN t /\ t[k + 1] = s[k + 2]
    BY <1>1, <2>1
  <2>3. ASSUME Addresses(s, k + 2, row + 1) PROVE Addresses(t, k + 1, row + 1)
    <3>0. k + 2 + (row + 1) \in 1..Len(s) /\ k \in Int /\ k >= 1 /\ row \in Nat
      BY <1>1, <2>3, ConstantTypes DEF Addresses
    <3>1. k + 1 + (row + 1) \in DOMAIN t /\ t[k + 1 + (row + 1)] = s[k + 2 + (row + 1)]
      <4>1. k + 1 + (row + 1) \in 1..Len(s) - 1 /\ (k + 1 + (row + 1)) + 1 = k + 2 + (row + 1)
        <5>1. DOMAIN s = 1..Len(s) /\ Len(s) \in Nat
          BY <1>1
        <5> HIDE DEF t
        <5>2. QED BY <5>1, <3>0
      <4>2. QED BY <1>1, <4>1
    <3>2. ASSUME NEW l \in k + 1..k + 1 + (row + 1) - 1 PROVE t[l] = s[l + 1] /\ s[l + 1].do = "addr"
      <4>1. l \in DOMAIN t /\ l + 1 \in k + 2..k + 2 + (row + 1) - 1
        BY <1>1, <3>1, ConstantTypes
      <4>2. QED BY <1>1, <2>3, <4>1 DEF Addresses
    <3>3. QED BY <2>3, <3>1, <3>2 DEF Addresses
  <2>4. QED BY <2>1, <2>2, <2>3
<1>4. AddressBehindOpening(t)
  BY <1>1 DEF Sound, AddressBehindOpening
<1>5. PageBehindAddress(t)
  <2> SUFFICES ASSUME NEW k \in DOMAIN t, k + 1 \in DOMAIN t, t[k + 1].do = "write", t[k].do # "write"
               PROVE  t[k].do = "addr" /\ PageFollows(t, k + 1, ecccnt, ecccnt)
    BY DEF PageBehindAddress
  <2>1. s[k + 1].do = "addr" /\ PageFollows(s, k + 2, ecccnt, ecccnt)
    BY <1>1 DEF Sound, PageBehindAddress
  <2>2. PageFollows(t, k + 1, ecccnt, ecccnt)
    <3> ecccnt \in Nat \ {0} BY Ecccnt
    <3>1. k + 1 + ecccnt \in DOMAIN t /\ t[k + 1 + ecccnt] = s[k + 2 + ecccnt]
      BY <1>1, <2>1 DEF PageFollows
    <3>2. ASSUME NEW l \in k + 1..k + 1 + ecccnt PROVE t[l] = s[l + 1] /\ s[l + 1].do = "write"
      <4>1. l \in DOMAIN t /\ l + 1 \in k + 2..k + 2 + ecccnt
        BY <1>1, <3>1
      <4>2. QED BY <1>1, <2>1, <4>1 DEF PageFollows
    <3>3. QED BY <2>1, <3>1, <3>2 DEF PageFollows
  <2>3. QED BY <1>1, <2>1, <2>2
<1>6. QED BY <1>1, <1>2, <1>3, <1>4, <1>5 DEF Sound, t

LEMMA LeavesTail ==
  ASSUME NEW s, Sound(s), s # <<>>, NEW sel, Leaves(s, sel)
  PROVE  Leaves(Tail(s), IF Head(s).do = "select" THEN Head(s).arg ELSE sel)
<1>1. /\ DOMAIN s = 1..Len(s) /\ DOMAIN Tail(s) = 1..Len(s) - 1 /\ Len(s) \in Nat \ {0}
      /\ \A k \in DOMAIN Tail(s) : Tail(s)[k] = s[k + 1]
      /\ Tail(s) \in Seq(Cycles) /\ Len(Tail(s)) = Len(s) - 1 /\ Head(s) = s[1]
  BY TailOfScript DEF Sound
<1>2. CASE s[Len(s)] = [do |-> "select", arg |-> FALSE]
  <2>1. CASE Len(s) = 1
    BY <1>1, <1>2, <2>1 DEF Leaves
  <2>2. CASE Len(s) > 1
    <3>1. Tail(s) # <<>> /\ Tail(s)[Len(Tail(s))] = s[Len(s)]
      BY <1>1, <2>2
    <3>2. QED BY <1>2, <3>1 DEF Leaves
  <2>3. QED BY <1>1, <2>1, <2>2
<1>3. CASE ~sel /\ \A k \in DOMAIN s : s[k].do # "select"
  BY <1>1, <1>3 DEF Leaves
<1>4. QED BY <1>2, <1>3 DEF Leaves

-----------------------------------------------------------------------------
(* One cycle of the bus.                                                   *)

LEMMA SoundStep ==
  ASSUME Sound(script), pagesize \in PageSizes, script # <<>>,
         script' = Tail(script), pagesize' = pagesize
  PROVE  Sound(script)'
<1>1. Sound(Tail(script)) BY TailSound
<1>2. ecccnt' = ecccnt
  BY DEF ecccnt
<1>3. StartsThenWaits(script)' /\ AddressBehindOpening(script)'
  BY <1>1 DEF Sound, StartsThenWaits, AddressBehindOpening
<1>4. RowThenWaits(script)'
  <2>1. RowThenWaits(Tail(script))
    BY <1>1 DEF Sound
  <2>2. QED BY <2>1 DEF RowThenWaits
<1>5. PageBehindAddress(script)'
  <2>1. PageBehindAddress(Tail(script))
    BY <1>1 DEF Sound
  <2>2. QED BY <1>2, <2>1 DEF PageBehindAddress
<1>6. QED BY <1>1, <1>3, <1>4, <1>5 DEF Sound

\* What the cycle that is next may be, by the one that is made.
LEMMA NextCycle ==
  ASSUME Sound(script), pagesize \in PageSizes, script # <<>>, script' = Tail(script)
  PROVE  /\ Head(script) = script[1] /\ script[1] \in Cycles
         /\ Ahead("addr")' => script[1].do = "addr" \/ Opening(script[1])
         /\ Ahead("write")' => script[1].do \in {"write", "addr"}
         /\ Ahead("write")' /\ script[1].do = "addr" => PageFollows(script', 1, ecccnt, ecccnt)
         /\ Begins(script[1]) => Ahead("sync")'
         /\ pagesize = 512 /\ Reading(script[1]) /\ Ahead("addr")' => Addresses(script', 1, row + 1)
<1> DEFINE s == script
           t == script'
<1>1. /\ s \in Seq(Cycles) /\ t \in Seq(Cycles)
      /\ DOMAIN s = 1..Len(s) /\ DOMAIN t = 1..Len(s) - 1 /\ Len(s) \in Nat \ {0}
      /\ \A k \in DOMAIN t : t[k] = s[k + 1]
      /\ Head(s) = s[1] /\ s[1] \in Cycles
  BY TailOfScript DEF Sound
<1>2. \A d : Ahead(d)' <=> 1 \in DOMAIN t /\ t[1].do = d
  <2>1. t # <<>> <=> 1 \in DOMAIN t
    BY <1>1
  <2>2. t # <<>> => Head(t) = t[1]
    BY <1>1
  <2>3. QED BY <2>1, <2>2 DEF Ahead
<1>3. 1 \in DOMAIN t => 2 \in DOMAIN s /\ t[1] = s[2]
  BY <1>1
<1>4. 1 \in DOMAIN s
  BY <1>1
<1>5. Ahead("addr")' => s[1].do = "addr" \/ Opening(s[1])
  BY <1>2, <1>3, <1>4 DEF Sound, AddressBehindOpening
<1>6. Ahead("write")' => s[1].do = "write" \/ (s[1].do = "addr" /\ PageFollows(s, 2, ecccnt, ecccnt))
  <2>1. 2 \in DOMAIN s /\ s[2].do = "write" => s[1].do = "write" \/ (s[1].do = "addr" /\ PageFollows(s, 2, ecccnt, ecccnt))
    <3>1. \A k \in DOMAIN s : k + 1 \in DOMAIN s /\ s[k + 1].do = "write" =>
            s[k].do = "write" \/ (s[k].do = "addr" /\ PageFollows(s, k + 1, ecccnt, ecccnt))
      BY DEF Sound, PageBehindAddress
    <3>2. 1 + 1 = 2
      OBVIOUS
    <3>3. QED BY <1>4, <3>1, <3>2
  <2>2. QED BY <1>2, <1>3, <2>1
<1>7. ASSUME PageFollows(s, 2, ecccnt, ecccnt) PROVE PageFollows(t, 1, ecccnt, ecccnt)
  <2> ecccnt \in Nat \ {0} BY Ecccnt
  <2>1. 1 + ecccnt \in DOMAIN t /\ t[1 + ecccnt] = s[2 + ecccnt]
    BY <1>1, <1>7 DEF PageFollows
  <2>2. ASSUME NEW l \in 1..1 + ecccnt PROVE t[l] = s[l + 1] /\ s[l + 1].do = "write"
    <3>1. l \in DOMAIN t /\ l + 1 \in 2..2 + ecccnt
      BY <1>1, <2>1
    <3>2. QED BY <1>1, <1>7, <3>1 DEF PageFollows
  <2>3. QED BY <1>7, <2>1, <2>2 DEF PageFollows
<1>8. Begins(s[1]) => Ahead("sync")'
  <2> SUFFICES ASSUME Begins(s[1]) PROVE Ahead("sync")'
    OBVIOUS
  <2>1. 2 \in DOMAIN s /\ s[2].do = "sync"
    BY <1>4 DEF Sound, StartsThenWaits
  <2>2. 1 \in DOMAIN t /\ t[1] = s[2]
    BY <1>1, <2>1
  <2>3. QED BY <1>2, <2>1, <2>2
<1>9. pagesize = 512 /\ Reading(s[1]) /\ Ahead("addr")' => Addresses(t, 1, row + 1)
  <2> SUFFICES ASSUME pagesize = 512, Reading(s[1]), Ahead("addr")' PROVE Addresses(t, 1, row + 1)
    OBVIOUS
  <2>1. Addresses(s, 2, row + 1)
    BY <1>2, <1>3, <1>4 DEF Sound, RowThenWaits
  <2>2. 1 + (row + 1) \in DOMAIN t /\ t[1 + (row + 1)] = s[2 + (row + 1)]
    BY <1>1, <2>1, ConstantTypes DEF Addresses
  <2>3. ASSUME NEW l \in 1..1 + (row + 1) - 1 PROVE t[l] = s[l + 1] /\ s[l + 1].do = "addr"
    <3>1. l \in DOMAIN t /\ l + 1 \in 2..2 + (row + 1) - 1
      BY <1>1, <2>2, ConstantTypes
    <3>2. QED BY <1>1, <2>1, <3>1 DEF Addresses
  <2>4. QED BY <2>1, <2>2, <2>3 DEF Addresses
<1>10. QED BY <1>1, <1>5, <1>6, <1>7, <1>8, <1>9

\* One address byte, or one datum, less is to come.
LEMMA AddressesStep ==
  ASSUME Sound(script), script # <<>>, script' = Tail(script), NEW n \in Nat \ {0},
         Addresses(script, 1, n)
  PROVE  Addresses(script', 1, n - 1)
<1>1. /\ script \in Seq(Cycles) /\ DOMAIN script = 1..Len(script)
      /\ DOMAIN script' = 1..Len(script) - 1 /\ Len(script) \in Nat
      /\ \A k \in DOMAIN script' : script'[k] = script[k + 1]
  BY TailOfScript DEF Sound
<1>2. 1 + (n - 1) \in DOMAIN script' /\ script'[1 + (n - 1)] = script[1 + n]
  BY <1>1 DEF Addresses
<1>3. ASSUME NEW l \in 1..1 + (n - 1) - 1
      PROVE  script'[l] = script[l + 1] /\ script[l + 1].do = "addr"
  <2>1. l \in DOMAIN script' /\ l + 1 \in 1..1 + n - 1
    BY <1>1, <1>2
  <2>2. QED BY <1>1, <2>1 DEF Addresses
<1>4. QED BY <1>2, <1>3 DEF Addresses

LEMMA PageStep ==
  ASSUME Sound(script), script # <<>>, script' = Tail(script), NEW n \in Nat \ {0},
         PageFollows(script, 1, n, ecccnt)
  PROVE  PageFollows(script', 1, n - 1, ecccnt)
<1>1. /\ script \in Seq(Cycles) /\ DOMAIN script = 1..Len(script)
      /\ DOMAIN script' = 1..Len(script) - 1 /\ Len(script) \in Nat
      /\ \A k \in DOMAIN script' : script'[k] = script[k + 1]
  BY TailOfScript DEF Sound
<1>2. 1 + (n - 1) \in DOMAIN script' /\ script'[1 + (n - 1)] = script[1 + n]
  BY <1>1 DEF PageFollows
<1>3. ASSUME NEW l \in 1..1 + (n - 1)
      PROVE  script'[l] = script[l + 1] /\ script[l + 1].do = "write"
  <2>1. l \in DOMAIN script' /\ l + 1 \in 1..1 + n
    BY <1>1, <1>2
  <2>2. QED BY <1>1, <2>1 DEF PageFollows
<1>4. QED BY <1>2, <1>3 DEF PageFollows

LEMMA ChipTypes ==
  ASSUME FlashInv
  PROVE  /\ chip \in Chips /\ chip.pin \in {"ready", "soon", "busy"} /\ chip.addr \in Seq(Int)
         /\ chip.data \in Seq(Items) /\ chip.reg \in Seq(Items) /\ Len(chip.addr) \in Nat
         /\ Len(chip.data) \in Nat /\ pagesize \in PageSizes /\ Sound(script)
  BY DEF FlashInv, FlashTypes, Chips

\* The chip after a cycle that the invariant allows.
ChipKeeps ==
  WorksWhileWaiting' /\ AddressFits' /\ DataFits' /\ chip' \in Chips

\* A cycle of the driver: what it does to the chip and to the select pin is left open.
LEMMA CycleKeeps ==
  ASSUME FlashInv, script # <<>>, script' = Tail(script), UnchangedCall,
         selected' = IF Head(script).do = "select" THEN Head(script).arg ELSE selected,
         waiting' \in {"busy", "ready"}, timeout' \in 0..Timeout, ChipKeeps
  PROVE  FlashInv'
<1>1. pagesize' = pagesize /\ cells' = cells /\ serving' = serving /\ Layout' = Layout
  BY DEF UnchangedCall, Layout, ecccnt
<1>2. Sound(script)'
  BY <1>1, SoundStep DEF FlashInv, FlashTypes
<1>3. Leaves(script, selected)'
  <2>1. Leaves(script', selected')
    BY LeavesTail DEF FlashInv
  <2>2. QED BY <2>1 DEF Leaves
<1>4. selected' \in BOOLEAN
  <2>1. Head(script) \in Cycles
    BY TailOfScript DEF FlashInv, Sound
  <2>2. QED BY <2>1 DEF FlashInv, FlashTypes, Cycles
<1>5. FlashTypes'
  BY <1>1, <1>4 DEF FlashInv, FlashTypes, ChipKeeps
<1>6. (serving = <<>> => script = <<>> /\ got = <<>>)'
  BY <1>1 DEF FlashInv
<1>7. QED BY <1>2, <1>3, <1>5, <1>6 DEF FlashInv, ChipKeeps

LEMMA CommandKeeps ==
  ASSUME FlashInv, nand_cmd
  PROVE  FlashInv'
<1>1. /\ script # <<>> /\ Head(script).do = "cmd" /\ script' = Tail(script) /\ selected' = selected
      /\ waiting' = waiting /\ timeout' = timeout /\ pagesize' = pagesize /\ chip' = Commanded(Head(script).arg)
      /\ UnchangedCall
  BY DEF nand_cmd, Cycle, Next, UnchangedCall, arg
<1>2. chip.pin = "ready" /\ waiting = "busy"
  BY <1>1 DEF FlashInv, FlashTypes, WorksWhileWaiting, Ahead, Chips
<1> DEFINE c == Head(script).arg
<1>3. /\ Head(script) = script[1] /\ Head(script) \in Cycles
      /\ Ahead("addr")' => Opening(script[1])
      /\ ~Ahead("write")'
      /\ Begins(script[1]) => Ahead("sync")'
      /\ pagesize = 512 /\ Reading(script[1]) /\ Ahead("addr")' => Addresses(script', 1, row + 1)
  BY <1>1, NextCycle, ChipTypes
<1>4. \/ /\ c \in Opens /\ Hears
         /\ \E a \in {"data", "oob"} :
              chip' = [chip EXCEPT !.cmd = c, !.addr = <<>>, !.data = <<>>, !.reg = <<>>, !.area = a]
      \/ /\ ~(c \in Opens /\ Hears)
         /\ \/ chip' = chip
            \/ chip' = [chip EXCEPT !.reg = <<Item(<<"status", chip.fail>>)>>]
            \/ c \in {"CONFIRM", "PGPROG", "ERASE"} /\ chip' = [chip EXCEPT !.pin = "soon"]
  <2>1. Listens <=> Hears
    BY <1>2 DEF Listens
  <2>2. CASE c \in Opens /\ Listens
    <3> DEFINE a == CASE c = "READA" -> "data" [] c = "READC" -> "oob" [] OTHER -> chip.area
    <3>1. chip' = [chip EXCEPT !.cmd = c, !.addr = <<>>, !.data = <<>>, !.reg = <<>>, !.area = a]
      BY <1>1, <2>2 DEF Commanded, Opens, Starts
    <3>2. a \in {"data", "oob"}
      BY ChipTypes DEF Chips
    <3>3. QED BY <2>1, <2>2, <3>1, <3>2
  <2>3. CASE ~(c \in Opens /\ Listens)
    <3>1. CASE c = "READ_STATUS" /\ Hears
      BY <1>1, <2>1, <2>3, <3>1 DEF Commanded, Starts, Opens
    <3>2. CASE <<c, chip.cmd>> \in Starts /\ Listens /\ Complete
      BY <1>1, <2>1, <2>3, <3>2 DEF Commanded, Starts
    <3>3. CASE ~(c = "READ_STATUS" /\ Hears) /\ ~(<<c, chip.cmd>> \in Starts /\ Listens /\ Complete)
      BY <1>1, <2>1, <2>3, <3>3 DEF Commanded
    <3>4. QED BY <3>1, <3>2, <3>3
  <2>4. QED BY <2>2, <2>3
<1>5. ChipKeeps
  <2>1. CASE /\ c \in Opens /\ Hears
             /\ \E a \in {"data", "oob"} :
                  chip' = [chip EXCEPT !.cmd = c, !.addr = <<>>, !.data = <<>>, !.reg = <<>>, !.area = a]
    <3>1. chip' \in Chips /\ chip'.pin = "ready" /\ chip'.cmd = c /\ chip'.addr = <<>> /\ chip'.data = <<>>
      <4>1. PICK a \in {"data", "oob"} :
              chip' = [chip EXCEPT !.cmd = c, !.addr = <<>>, !.data = <<>>, !.reg = <<>>, !.area = a]
        BY <2>1
      <4>2. chip' = [pin |-> chip.pin, cmd |-> c, area |-> a, addr |-> <<>>, data |-> <<>>, reg |-> <<>>,
                     fail |-> chip.fail]
        BY <4>1, ChipTypes DEF Chips
      <4>3. <<>> \in Seq(Int) /\ <<>> \in Seq(Items)
        OBVIOUS
      <4>4. chip.pin \in {"ready", "soon", "busy"} /\ chip.fail \in 0..1 /\ c \in Opens \cup {"none"}
        BY <2>1, ChipTypes DEF Chips
      <4>5. chip' \in Chips
        BY <4>2, <4>3, <4>4 DEF Chips
      <4>6. QED BY <1>2, <4>2, <4>5
    <3>2. WorksWhileWaiting'
      BY <1>1, <1>2, <3>1 DEF WorksWhileWaiting
    <3>3. AddressFits'
      <4>1. row + 1 - Len(chip'.addr) = row + 1
        BY <3>1, ConstantTypes
      <4>2. pagesize' = 512 /\ chip'.cmd \in {"READA", "READC"} /\ Ahead("addr")' => Addresses(script', 1, row + 1)
        BY <1>1, <1>3, <3>1 DEF Reading
      <4>3. QED BY <4>1, <4>2 DEF AddressFits
    <3>4. DataFits'
      <4>1. ecccnt' = ecccnt /\ ecccnt \in Nat \ {0}
        BY <1>1, Ecccnt, ChipTypes DEF ecccnt
      <4>2. Len(chip'.data) = 0
        BY <3>1
      <4>3. ~(Len(chip'.data) >= ecccnt' + 1)
        BY <4>1, <4>2
      <4>4. QED BY <1>3, <3>1, <4>3 DEF DataFits
    <3>5. QED BY <3>1, <3>2, <3>3, <3>4 DEF ChipKeeps
  <2>2. CASE /\ ~(c \in Opens /\ Hears)
             /\ \/ chip' = chip
                \/ chip' = [chip EXCEPT !.reg = <<Item(<<"status", chip.fail>>)>>]
                \/ c \in {"CONFIRM", "PGPROG", "ERASE"} /\ chip' = [chip EXCEPT !.pin = "soon"]
    <3>1. /\ chip' \in Chips /\ chip'.cmd = chip.cmd /\ chip'.addr = chip.addr /\ chip'.data = chip.data
          /\ chip'.pin # "ready" => c \in {"CONFIRM", "PGPROG", "ERASE"}
      <4>1. <<Item(<<"status", chip.fail>>)>> \in Seq(Items)
        <5>1. chip.fail \in Int
          BY ChipTypes DEF Chips
        <5>2. Item(<<"status", chip.fail>>) \in Items
          BY <5>1 DEF Item, Items, Marks
        <5>3. QED BY <5>2
      <4>2. QED BY <1>2, <2>2, <4>1, ChipTypes DEF Chips
    <3>2. WorksWhileWaiting'
      BY <1>1, <1>2, <1>3, <3>1 DEF WorksWhileWaiting, Begins
    <3>3. ~(Hears' /\ Ahead("addr")')
      BY <1>1, <1>3, <2>2 DEF Hears, Opening
    <3>4. AddressFits'
      BY <3>3 DEF AddressFits
    <3>5. DataFits'
      <4>1. ecccnt' = ecccnt
        BY <1>1 DEF ecccnt
      <4>2. QED BY <1>3, <3>1, <3>3, <4>1 DEF DataFits, FlashInv
    <3>6. QED BY <3>1, <3>2, <3>4, <3>5 DEF ChipKeeps
  <2>3. QED BY <1>4, <2>1, <2>2
<1>6. QED BY <1>1, <1>5, CycleKeeps DEF FlashInv, FlashTypes

LEMMA AddressKeeps ==
  ASSUME FlashInv, nand_addr
  PROVE  FlashInv'
<1>1. /\ script # <<>> /\ Head(script).do = "addr" /\ script' = Tail(script) /\ selected' = selected
      /\ waiting' = waiting /\ timeout' = timeout /\ pagesize' = pagesize
      /\ chip' = Addressed(Head(script).arg) /\ UnchangedCall /\ Ahead("addr")
  BY DEF nand_addr, Cycle, Next, UnchangedCall, arg, Ahead
<1>2. chip.pin = "ready" /\ waiting = "busy" /\ (Listens <=> Hears) /\ (Hears' <=> Hears)
  BY <1>1 DEF FlashInv, FlashTypes, WorksWhileWaiting, Ahead, Listens, Hears
<1> DEFINE a == Head(script).arg
           n == row + 1 - Len(chip.addr)
<1>3. /\ Head(script) = script[1] /\ Head(script) \in Cycles /\ script \in Seq(Cycles)
      /\ Ahead("write")' => PageFollows(script', 1, ecccnt, ecccnt)
  BY <1>1, NextCycle, ChipTypes DEF Sound
<1>4. a \in Int
  BY <1>1, <1>3 DEF Cycles
<1>5. CASE ~Hears
  <2>1. chip' = chip
    BY <1>1, <1>2, <1>5 DEF Addressed
  <2>2. WorksWhileWaiting'
    BY <1>1, <1>2, <2>1 DEF WorksWhileWaiting
  <2>3. AddressFits' /\ ecccnt' = ecccnt
    BY <1>1, <1>2, <1>5 DEF AddressFits, ecccnt
  <2>4. DataFits'
    BY <1>2, <1>5, <2>1, <2>3 DEF DataFits, FlashInv
  <2>5. ChipKeeps
    BY <2>1, <2>2, <2>3, <2>4, ChipTypes DEF ChipKeeps
  <2>6. QED BY <1>1, <2>5, CycleKeeps DEF FlashInv, FlashTypes
<1>6. CASE Hears
  <2>1. /\ chip' \in Chips /\ chip'.cmd = chip.cmd /\ chip'.data = chip.data
        /\ chip.cmd # "READID" => Len(chip'.addr) = Len(chip.addr) + 1
        /\ chip'.pin # "ready" =>
             /\ chip'.pin = "soon" /\ pagesize = 512 /\ chip.cmd \in {"READA", "READC"}
             /\ Len(chip.addr) = row
    <3>1. Append(chip.addr, a) \in Seq(Int) /\ Len(Append(chip.addr, a)) = Len(chip.addr) + 1
      BY <1>4, ChipTypes
    <3>2. CASE chip.cmd = "READID"
      <4>1. chip' = [chip EXCEPT !.addr = Append(chip.addr, a),
                                 !.reg = <<Item(<<"vid", 0>>), Item(<<"did", 0>>)>>]
        BY <1>1, <1>2, <1>6, <3>2, ChipTypes DEF Addressed, Chips
      <4>2. Item(<<"vid", 0>>) \in Items /\ Item(<<"did", 0>>) \in Items
        BY DEF Item, Items, Marks
      <4>3. <<Item(<<"vid", 0>>), Item(<<"did", 0>>)>> \in Seq(Items)
        BY <4>2
      <4>4. QED BY <1>2, <3>1, <3>2, <4>1, <4>3, ChipTypes DEF Chips
    <3>3. CASE chip.cmd # "READID"
      <4>1. \/ chip' = [chip EXCEPT !.addr = Append(chip.addr, a)]
            \/ /\ chip' = [chip EXCEPT !.addr = Append(chip.addr, a), !.pin = "soon"]
               /\ pagesize = 512 /\ chip.cmd \in {"READA", "READC"} /\ Len(Append(chip.addr, a)) = 1 + row
        <5>1. [chip EXCEPT !.addr = Append(@, a)].addr = Append(chip.addr, a)
          BY ChipTypes DEF Chips
        <5>2. QED BY <1>1, <1>2, <1>6, <3>3, <5>1, ChipTypes DEF Addressed, Chips
      <4>2. CASE chip' = [chip EXCEPT !.addr = Append(chip.addr, a)]
        BY <1>2, <3>1, <4>2, ChipTypes DEF Chips
      <4>3. CASE /\ chip' = [chip EXCEPT !.addr = Append(chip.addr, a), !.pin = "soon"]
                 /\ pagesize = 512 /\ chip.cmd \in {"READA", "READC"} /\ Len(Append(chip.addr, a)) = 1 + row
        <5>1. Len(chip.addr) = row
          BY <3>1, <4>3, ChipTypes, ConstantTypes
        <5>2. /\ chip' \in Chips /\ chip'.cmd = chip.cmd /\ chip'.data = chip.data
              /\ chip'.addr = Append(chip.addr, a) /\ chip'.pin = "soon"
          <6> DEFINE ad == Append(chip.addr, a)
          <6>1. ad \in Seq(Int) /\ chip' = [chip EXCEPT !.addr = ad, !.pin = "soon"]
            BY <3>1, <4>3
          <6> HIDE DEF ad
          <6>2. /\ chip' \in Chips /\ chip'.cmd = chip.cmd /\ chip'.data = chip.data
                /\ chip'.addr = ad /\ chip'.pin = "soon"
            BY <6>1, ChipTypes DEF Chips
          <6>3. QED BY <6>2 DEF ad
        <5>3. QED BY <3>1, <4>3, <5>1, <5>2
      <4>4. QED BY <4>1, <4>2, <4>3
    <3>4. QED BY <3>2, <3>3
  <2>2. ASSUME pagesize = 512, chip.cmd \in {"READA", "READC"}, Len(chip.addr) <= row
        PROVE  /\ n \in Nat \ {0} /\ Addresses(script, 1, n) /\ Addresses(script', 1, n - 1)
    <3>1. n \in Nat \ {0}
      BY <2>2, ChipTypes, ConstantTypes
    <3>2. Addresses(script, 1, n)
      BY <1>1, <1>6, <2>2 DEF FlashInv, AddressFits
    <3>3. QED BY <1>1, <3>1, <3>2, AddressesStep, ChipTypes
  <2>3. ASSUME chip'.pin # "ready" PROVE Ahead("sync")' /\ chip'.pin = "soon"
    <3>1. n = 1 /\ Addresses(script', 1, 0)
      <4>1. Len(chip.addr) = row /\ Len(chip.addr) <= row /\ n = 1 /\ n - 1 = 0
        BY <2>1, <2>3, ConstantTypes
      <4>2. Addresses(script', 1, n - 1)
        BY <2>1, <2>2, <2>3, <4>1
      <4>3. QED BY <4>1, <4>2
    <3>2. 1 \in DOMAIN script' /\ script'[1].do = "sync"
      BY <3>1 DEF Addresses
    <3>3. script' \in Seq(Cycles)
      BY <1>1, <1>3
    <3>4. QED BY <2>1, <2>3, <3>2, <3>3 DEF Ahead
  <2>4. WorksWhileWaiting'
    BY <1>1, <1>2, <2>3 DEF WorksWhileWaiting
  <2>5. AddressFits'
    <3> SUFFICES ASSUME pagesize' = 512, chip'.cmd \in {"READA", "READC"}, Len(chip'.addr) <= row
                 PROVE  Addresses(script', 1, row + 1 - Len(chip'.addr))
      BY DEF AddressFits
    <3>1. Len(chip'.addr) = Len(chip.addr) + 1 /\ Len(chip.addr) <= row
      BY <2>1, ChipTypes, ConstantTypes
    <3>2. Addresses(script', 1, n - 1) /\ n - 1 = row + 1 - Len(chip'.addr)
      <4>1. Addresses(script', 1, n - 1)
        BY <1>1, <2>1, <2>2, <3>1
      <4>2. n - 1 = row + 1 - Len(chip'.addr)
        BY <3>1, ChipTypes, ConstantTypes
      <4>3. QED BY <4>1, <4>2
    <3>3. QED BY <3>2
  <2>6. DataFits'
    <3>1. ecccnt' = ecccnt /\ ecccnt \in Nat
      BY <1>1, Ecccnt, ChipTypes DEF ecccnt
    <3>2. chip.cmd = "SEQIN" => chip.data = <<>>
      BY <1>1, <1>6 DEF FlashInv, DataFits
    <3>3. chip'.cmd = "SEQIN" => chip'.data = <<>> /\ ecccnt' - Len(chip'.data) = ecccnt
      BY <2>1, <3>1, <3>2
    <3>4. (Hears /\ chip.cmd = "SEQIN" /\ Len(chip.data) <= ecccnt /\ Ahead("write") =>
             PageFollows(script, 1, ecccnt - Len(chip.data), ecccnt))'
      BY <1>3, <3>1, <3>3
    <3>5. (Len(chip.data) >= ecccnt + 1 => Len(chip.data[ecccnt + 1].par) = ecccnt)'
      BY <2>1, <3>1 DEF FlashInv, DataFits
    <3>6. QED BY <3>3, <3>4, <3>5 DEF DataFits
  <2>7. ChipKeeps
    BY <2>1, <2>4, <2>5, <2>6 DEF ChipKeeps
  <2>8. QED BY <1>1, <2>7, CycleKeeps DEF FlashInv, FlashTypes
<1>7. QED BY <1>5, <1>6

LEMMA WriteKeeps ==
  ASSUME FlashInv, write_proc
  PROVE  FlashInv'
<1>1. /\ script # <<>> /\ Head(script).do = "write" /\ script' = Tail(script) /\ selected' = selected
      /\ waiting' = waiting /\ timeout' = timeout /\ pagesize' = pagesize
      /\ chip' = IF Listens /\ chip.cmd = "SEQIN" THEN [chip EXCEPT !.data = Append(@, Head(script).arg)]
                                                  ELSE chip
      /\ UnchangedCall /\ Ahead("write")
  BY DEF write_proc, Cycle, Next, UnchangedCall, arg, Ahead
<1>2. chip.pin = "ready" /\ waiting = "busy" /\ (Listens <=> Hears) /\ (Hears' <=> Hears)
  BY <1>1 DEF FlashInv, FlashTypes, WorksWhileWaiting, Ahead, Listens, Hears
<1> DEFINE x == Head(script).arg
           n == ecccnt - Len(chip.data)
<1>3. /\ Head(script) = script[1] /\ Head(script) \in Cycles /\ script \in Seq(Cycles)
      /\ ~Ahead("addr")'
  BY <1>1, NextCycle, ChipTypes DEF Sound, Opening
<1>4. x \in Items
  BY <1>1, <1>3 DEF Cycles
<1>5. ecccnt' = ecccnt /\ ecccnt \in Nat \ {0}
  BY <1>1, Ecccnt, ChipTypes DEF ecccnt
<1>6. AddressFits'
  BY <1>3 DEF AddressFits
<1>7. WorksWhileWaiting' /\ chip' \in Chips /\ chip'.cmd = chip.cmd
  <2>1. Append(chip.data, x) \in Seq(Items)
    BY <1>4, ChipTypes
  <2>2. chip' \in Chips /\ chip'.cmd = chip.cmd /\ chip'.pin = "ready"
    BY <1>1, <1>2, <2>1, ChipTypes DEF Chips
  <2>3. QED BY <1>1, <1>2, <2>2 DEF WorksWhileWaiting
<1>8. DataFits'
  <2>1. CASE Hears /\ chip.cmd = "SEQIN"
    <3>1. chip'.data = Append(chip.data, x) /\ Len(chip'.data) = Len(chip.data) + 1
      BY <1>1, <1>2, <1>4, <2>1, ChipTypes DEF Chips
    <3>2. Len(chip.data) <= ecccnt => PageFollows(script, 1, n, ecccnt)
      BY <1>1, <2>1 DEF FlashInv, DataFits
    <3>3. (Hears /\ chip.cmd = "SEQIN" /\ Len(chip.data) <= ecccnt /\ Ahead("write") =>
             PageFollows(script, 1, ecccnt - Len(chip.data), ecccnt))'
      <4> SUFFICES ASSUME Len(chip'.data) <= ecccnt
                   PROVE  PageFollows(script', 1, n - 1, ecccnt) /\ n - 1 = ecccnt - Len(chip'.data)
        BY <1>5
      <4>1. n \in Nat \ {0} /\ PageFollows(script, 1, n, ecccnt)
        BY <1>5, <3>1, <3>2, ChipTypes
      <4>2. n - 1 = ecccnt - Len(chip'.data)
        <5>1. Len(chip.data) \in Nat /\ Len(chip'.data) = Len(chip.data) + 1
          BY <3>1, ChipTypes
        <5>2. QED BY <1>5, <5>1
      <4>3. QED BY <1>1, <4>1, <4>2, PageStep, ChipTypes
    <3>4. (Len(chip.data) >= ecccnt + 1 => Len(chip.data[ecccnt + 1].par) = ecccnt)'
      <4> SUFFICES ASSUME Len(chip'.data) >= ecccnt + 1
                   PROVE  Len(chip'.data[ecccnt + 1].par) = ecccnt
        BY <1>5
      <4>1. CASE Len(chip.data) = ecccnt
        <5>1. PageFollows(script, 1, 0, ecccnt)
          BY <1>5, <3>2, <4>1
        <5>2. Len(script[1].arg.par) = ecccnt
          BY <5>1 DEF PageFollows
        <5>3. chip'.data[ecccnt + 1] = x
          BY <1>4, <3>1, <4>1, ChipTypes
        <5>4. QED BY <1>3, <5>2, <5>3
      <4>2. CASE Len(chip.data) >= ecccnt + 1
        <5>1. chip'.data[ecccnt + 1] = chip.data[ecccnt + 1]
          BY <1>4, <1>5, <3>1, <4>2, ChipTypes
        <5>2. QED BY <4>2, <5>1 DEF FlashInv, DataFits
      <4>3. QED BY <1>5, <3>1, <4>1, <4>2, ChipTypes
    <3>5. QED BY <1>3, <3>3, <3>4 DEF DataFits
  <2>2. CASE ~(Hears /\ chip.cmd = "SEQIN")
    <3>1. chip' = chip
      BY <1>1, <1>2, <2>2
    <3>2. QED BY <1>2, <1>3, <1>5, <2>2, <3>1 DEF DataFits, FlashInv
  <2>3. QED BY <2>1, <2>2
<1>9. ChipKeeps
  BY <1>6, <1>7, <1>8 DEF ChipKeeps
<1>10. QED BY <1>1, <1>9, CycleKeeps DEF FlashInv, FlashTypes

\* A cycle behind which no address and no datum comes.
LEMMA QuietCycleKeeps ==
  ASSUME FlashInv, script # <<>>, script' = Tail(script), UnchangedCall,
         selected' = IF Head(script).do = "select" THEN Head(script).arg ELSE selected,
         waiting' = "busy", timeout' \in 0..Timeout,
         Head(script).do \in {"read", "select", "sync"},
         chip' = chip \/ (chip' = [chip EXCEPT !.reg = Tail(@)] /\ chip.reg # <<>>), chip.pin = "ready"
  PROVE  FlashInv'
<1>1. ~Ahead("addr")' /\ ~Ahead("write")' /\ pagesize' = pagesize
  BY NextCycle, ChipTypes DEF Opening, UnchangedCall
<1>2. chip' \in Chips /\ chip'.pin = "ready" /\ chip'.data = chip.data
  <2>1. chip.reg # <<>> => Tail(chip.reg) \in Seq(Items)
    BY ChipTypes
  <2>2. QED BY <2>1, ChipTypes DEF Chips
<1>3. WorksWhileWaiting'
  BY <1>2 DEF WorksWhileWaiting
<1>4. AddressFits'
  BY <1>1 DEF AddressFits
<1>5. DataFits'
  <2>1. ecccnt' = ecccnt
    BY <1>1 DEF ecccnt
  <2>2. QED BY <1>1, <1>2, <2>1 DEF DataFits, FlashInv
<1>6. ChipKeeps
  BY <1>2, <1>3, <1>4, <1>5 DEF ChipKeeps
<1>7. QED BY <1>6, CycleKeeps

LEMMA ReadKeeps ==
  ASSUME FlashInv, read_proc
  PROVE  FlashInv'
<1>1. /\ script # <<>> /\ Head(script).do = "read" /\ script' = Tail(script) /\ selected' = selected
      /\ waiting' = waiting /\ timeout' = timeout /\ UnchangedCall
      /\ chip' = chip \/ (chip' = [chip EXCEPT !.reg = Tail(@)] /\ chip.reg # <<>>)
  <2>1. script # <<>> /\ Head(script).do = "read" /\ script' = Tail(script)
    BY DEF read_proc, Cycle, Next
  <2>2. selected' = selected /\ waiting' = waiting /\ timeout' = timeout /\ UnchangedCall
    BY DEF read_proc
  <2>3. chip' = chip \/ (chip' = [chip EXCEPT !.reg = Tail(@)] /\ chip.reg # <<>>)
    BY DEF read_proc
  <2>4. QED BY <2>1, <2>2, <2>3
<1>2. chip.pin = "ready" /\ waiting = "busy"
  BY <1>1 DEF FlashInv, FlashTypes, WorksWhileWaiting, Ahead
<1>3. QED BY <1>1, <1>2, QuietCycleKeeps DEF FlashInv, FlashTypes

LEMMA SelectKeeps ==
  ASSUME FlashInv, nand_enable
  PROVE  FlashInv'
<1>1. /\ script # <<>> /\ Head(script).do = "select" /\ script' = Tail(script)
      /\ selected' = Head(script).arg /\ chip' = chip
      /\ waiting' = waiting /\ timeout' = timeout /\ UnchangedCall
  BY DEF nand_enable, Cycle, Next, UnchangedCall, arg
<1>2. chip.pin = "ready" /\ waiting = "busy"
  BY <1>1 DEF FlashInv, FlashTypes, WorksWhileWaiting, Ahead
<1>3. selected' = IF Head(script).do = "select" THEN Head(script).arg ELSE selected
  BY <1>1
<1>4. timeout' \in 0..Timeout /\ waiting' = "busy" /\ Head(script).do \in {"read", "select", "sync"}
  BY <1>1, <1>2 DEF FlashInv, FlashTypes
<1>5. QED BY <1>1, <1>2, <1>3, <1>4, QuietCycleKeeps

\* __nand_sync does not leave its second loop before the work is over.
LEMMA SyncEndsKeeps ==
  ASSUME FlashInv, sync_ends
  PROVE  FlashInv'
<1>1. /\ script # <<>> /\ Head(script).do = "sync" /\ script' = Tail(script) /\ selected' = selected
      /\ chip' = chip /\ waiting = "ready" /\ waiting' = "busy" /\ timeout' = Timeout /\ UnchangedCall
      /\ chip.pin # "busy"
  BY DEF sync_ends, Cycle, Next, UnchangedCall
<1>2. chip.pin = "ready"
  BY <1>1, ChipTypes DEF FlashInv, WorksWhileWaiting
<1>3. selected' = IF Head(script).do = "select" THEN Head(script).arg ELSE selected
  BY <1>1
<1>4. timeout' \in 0..Timeout /\ Head(script).do \in {"read", "select", "sync"}
  BY <1>1, ConstantTypes
<1>5. QED BY <1>1, <1>2, <1>3, <1>4, QuietCycleKeeps

\* The polls: what the invariant says of the script and of the chip stays.
LEMMA PollKeeps ==
  ASSUME FlashInv, sync_polls \/ sync_first_ends
  PROVE  FlashInv'
<1>1. /\ UNCHANGED <<pagesize, cells, serving, chip, selected, script, got>>
      /\ Ahead("sync") /\ waiting = "busy" /\ waiting' \in {"busy", "ready"} /\ timeout' \in 0..Timeout
      /\ waiting' = "ready" => chip.pin = "busy" \/ GivesUp
  BY ConstantTypes DEF sync_polls, sync_first_ends, Cycle, Ahead, UnchangedCall, FlashInv, FlashTypes
<1>2. GivesUp => chip.pin # "soon"
  BY ConstantTypes DEF GivesUp, InTime
<1>3. WorksWhileWaiting'
  BY <1>1, <1>2 DEF WorksWhileWaiting, Ahead
<1>4. ecccnt' = ecccnt /\ Layout' = Layout /\ (Hears' <=> Hears) /\ \A d : Ahead(d)' <=> Ahead(d)
  BY <1>1 DEF ecccnt, Layout, Hears, Ahead
<1>5. FlashTypes'
  BY <1>1, <1>4 DEF FlashInv, FlashTypes
<1>6. AddressFits'
  BY <1>1, <1>4 DEF FlashInv, AddressFits
<1>7. DataFits'
  BY <1>1, <1>4 DEF FlashInv, DataFits
<1>8. Sound(script)' /\ Leaves(script, selected)'
  <2>1. StartsThenWaits(script)' /\ AddressBehindOpening(script)' /\ RowThenWaits(script)'
    BY <1>1 DEF FlashInv, Sound, StartsThenWaits, AddressBehindOpening, RowThenWaits
  <2>2. PageBehindAddress(script)'
    BY <1>1, <1>4 DEF FlashInv, Sound, PageBehindAddress
  <2>3. QED BY <1>1, <2>1, <2>2 DEF FlashInv, Sound
<1>9. QED BY <1>1, <1>3, <1>5, <1>6, <1>7, <1>8 DEF FlashInv

-----------------------------------------------------------------------------
(* The scripts are sound.  A script is made of pieces: an address with     *)
(* what belongs to it up to the wait, and the cycles that stand alone.     *)

LEMMA Join ==
  ASSUME NEW S, NEW s \in Seq(S), NEW t \in Seq(S)
  PROVE  /\ s \o t \in Seq(S) /\ Len(s \o t) = Len(s) + Len(t)
         /\ Len(s) \in Nat /\ Len(t) \in Nat
         /\ DOMAIN s = 1..Len(s) /\ DOMAIN t = 1..Len(t) /\ DOMAIN (s \o t) = 1..Len(s) + Len(t)
         /\ \A k \in 1..Len(s) : (s \o t)[k] = s[k]
         /\ \A k \in 1..Len(t) : (s \o t)[Len(s) + k] = t[k]
         /\ \A k \in Len(s) + 1..Len(s) + Len(t) : (s \o t)[k] = t[k - Len(s)]
  OBVIOUS

Piece(s) ==
  /\ Sound(s) /\ s # <<>> /\ s[1].do \in {"cmd", "select", "read", "sync"}
  /\ s[Len(s)].do \in {"select", "read", "sync"}

\* What Sound says of the places of t is true of them behind s.
LEMMA SoundBehind ==
  ASSUME NEW s \in Seq(Cycles), NEW t, Sound(t), NEW k \in Len(s) + 1..Len(s) + Len(t),
         pagesize \in PageSizes
  PROVE  LET u == s \o t
         IN /\ Begins(u[k]) => k + 1 \in DOMAIN u /\ u[k + 1].do = "sync"
            /\ pagesize = 512 /\ Reading(u[k]) =>
                 k + 1 \in DOMAIN u /\ (u[k + 1].do = "addr" => Addresses(u, k + 1, row + 1))
            /\ k + 1 \in DOMAIN u /\ u[k + 1].do = "addr" => u[k].do = "addr" \/ Opening(u[k])
            /\ k + 1 \in DOMAIN u /\ u[k + 1].do = "write" =>
                 u[k].do = "write" \/ (u[k].do = "addr" /\ PageFollows(u, k + 1, ecccnt, ecccnt))
<1> DEFINE u == s \o t
           j == k - Len(s)
<1>0. t \in Seq(Cycles)
  BY DEF Sound
<1>1. /\ Len(s) \in Nat /\ Len(t) \in Nat /\ DOMAIN t = 1..Len(t) /\ DOMAIN u = 1..Len(s) + Len(t)
      /\ \A l \in 1..Len(t) : u[Len(s) + l] = t[l]
      /\ \A l \in Len(s) + 1..Len(s) + Len(t) : u[l] = t[l - Len(s)]
  BY <1>0, Join
<1> HIDE DEF u
<1>2. j \in DOMAIN t /\ u[k] = t[j]
  BY <1>1
<1>3. j + 1 \in DOMAIN t <=> k + 1 \in DOMAIN u
  BY <1>1
<1>4. j + 1 \in DOMAIN t => u[k + 1] = t[j + 1]
  BY <1>1
<1>5. ASSUME j + 1 \in DOMAIN t, Addresses(t, j + 1, row + 1) PROVE Addresses(u, k + 1, row + 1)
  <2>1. k + 1 + (row + 1) \in DOMAIN u /\ u[k + 1 + (row + 1)] = t[j + 1 + (row + 1)]
    BY <1>1, <1>5, ConstantTypes DEF Addresses
  <2>2. ASSUME NEW l \in k + 1..k + 1 + (row + 1) - 1 PROVE u[l].do = "addr"
    <3>1. l - Len(s) \in j + 1..j + 1 + (row + 1) - 1 /\ l \in Len(s) + 1..Len(s) + Len(t)
      BY <1>1, <2>1, ConstantTypes
    <3>2. u[l] = t[l - Len(s)]
      BY <1>1, <3>1
    <3>3. t[l - Len(s)].do = "addr"
      <4> HIDE DEF j
      <4> QED BY <1>5, <3>1 DEF Addresses
    <3>4. QED BY <3>2, <3>3
  <2>3. QED BY <1>5, <2>1, <2>2 DEF Addresses
<1>6. ASSUME j + 1 \in DOMAIN t, PageFollows(t, j + 1, ecccnt, ecccnt)
      PROVE  PageFollows(u, k + 1, ecccnt, ecccnt)
  <2> ecccnt \in Nat \ {0} BY Ecccnt
  <2>1. k + 1 + ecccnt \in DOMAIN u /\ u[k + 1 + ecccnt] = t[j + 1 + ecccnt]
    BY <1>1, <1>6 DEF PageFollows
  <2>2. ASSUME NEW l \in k + 1..k + 1 + ecccnt PROVE u[l].do = "write"
    <3>1. l - Len(s) \in j + 1..j + 1 + ecccnt /\ l \in Len(s) + 1..Len(s) + Len(t)
      BY <1>1, <2>1
    <3>2. t[l - Len(s)].do = "write"
      BY <1>6, <3>1 DEF PageFollows
    <3>3. QED BY <1>1, <3>1, <3>2
  <2>3. QED BY <1>6, <2>1, <2>2 DEF PageFollows
<1>7. Begins(u[k]) => k + 1 \in DOMAIN u /\ u[k + 1].do = "sync"
  BY <1>2, <1>3, <1>4 DEF Sound, StartsThenWaits
<1>8. pagesize = 512 /\ Reading(u[k]) =>
        k + 1 \in DOMAIN u /\ (u[k + 1].do = "addr" => Addresses(u, k + 1, row + 1))
  BY <1>2, <1>3, <1>4, <1>5 DEF Sound, RowThenWaits
<1>9. k + 1 \in DOMAIN u /\ u[k + 1].do = "addr" => u[k].do = "addr" \/ Opening(u[k])
  BY <1>2, <1>3, <1>4 DEF Sound, AddressBehindOpening
<1>10. k + 1 \in DOMAIN u /\ u[k + 1].do = "write" =>
         u[k].do = "write" \/ (u[k].do = "addr" /\ PageFollows(u, k + 1, ecccnt, ecccnt))
  BY <1>2, <1>3, <1>4, <1>6 DEF Sound, PageBehindAddress
<1>11. QED BY <1>7, <1>8, <1>9, <1>10 DEF u

LEMMA JoinPieces ==
  ASSUME NEW s, NEW t, Piece(s), Piece(t), pagesize \in PageSizes
  PROVE  Piece(s \o t) /\ (s \o t)[1] = s[1] /\ (s \o t)[Len(s \o t)] = t[Len(t)]
<1> DEFINE u == s \o t
<1>1. s \in Seq(Cycles) /\ t \in Seq(Cycles) /\ s # <<>> /\ t # <<>>
  BY DEF Piece, Sound
<1>2. /\ u \in Seq(Cycles) /\ Len(u) = Len(s) + Len(t) /\ Len(s) \in Nat \ {0} /\ Len(t) \in Nat \ {0}
      /\ DOMAIN s = 1..Len(s) /\ DOMAIN t = 1..Len(t) /\ DOMAIN u = 1..Len(s) + Len(t)
      /\ \A k \in 1..Len(s) : u[k] = s[k]
      /\ \A k \in 1..Len(t) : u[Len(s) + k] = t[k]
  BY <1>1, Join
<1>3. u[1] = s[1] /\ u[Len(u)] = t[Len(t)] /\ u # <<>> /\ u[Len(s) + 1] = t[1]
  BY <1>2
<1>4. \A k \in Len(s) + 1..Len(s) + Len(t) :
        /\ Begins(u[k]) => k + 1 \in DOMAIN u /\ u[k + 1].do = "sync"
        /\ pagesize = 512 /\ Reading(u[k]) =>
             k + 1 \in DOMAIN u /\ (u[k + 1].do = "addr" => Addresses(u, k + 1, row + 1))
        /\ k + 1 \in DOMAIN u /\ u[k + 1].do = "addr" => u[k].do = "addr" \/ Opening(u[k])
        /\ k + 1 \in DOMAIN u /\ u[k + 1].do = "write" =>
             u[k].do = "write" \/ (u[k].do = "addr" /\ PageFollows(u, k + 1, ecccnt, ecccnt))
  BY <1>1, SoundBehind DEF Piece
<1> HIDE DEF u
<1>5. ASSUME NEW k \in 1..Len(s), NEW n \in Nat, Addresses(s, k, n) PROVE Addresses(u, k, n)
  <2>1. k + n \in 1..Len(s) /\ k + n \in DOMAIN u /\ s[k + n].do = "sync"
    BY <1>2, <1>5 DEF Addresses
  <2>2. ASSUME NEW l \in k..k + n - 1 PROVE u[l].do = "addr"
    <3>1. l \in 1..Len(s)
      BY <1>2, <2>1
    <3>2. QED BY <1>2, <1>5, <3>1 DEF Addresses
  <2>3. u[k + n].do = "sync"
    BY <1>2, <2>1
  <2>4. QED BY <2>1, <2>2, <2>3 DEF Addresses
<1>6. ASSUME NEW k \in 1..Len(s), NEW n \in Nat, PageFollows(s, k, n, n) PROVE PageFollows(u, k, n, n)
  BY <1>2, <1>6 DEF PageFollows
<1>7. StartsThenWaits(u)
  <2> SUFFICES ASSUME NEW k \in DOMAIN u, Begins(u[k]) PROVE k + 1 \in DOMAIN u /\ u[k + 1].do = "sync"
    BY DEF StartsThenWaits
  <2>1. CASE k \in 1..Len(s)
    <3>1. k + 1 \in DOMAIN s /\ s[k + 1].do = "sync"
      BY <1>2, <2>1 DEF Piece, Sound, StartsThenWaits
    <3>2. QED BY <1>2, <3>1
  <2>2. QED BY <1>2, <1>4, <2>1
<1>8. RowThenWaits(u)
  <2> SUFFICES ASSUME pagesize = 512, NEW k \in DOMAIN u, Reading(u[k])
               PROVE  k + 1 \in DOMAIN u /\ (u[k + 1].do = "addr" => Addresses(u, k + 1, row + 1))
    BY DEF RowThenWaits
  <2>1. CASE k \in 1..Len(s)
    <3>1. k + 1 \in DOMAIN s /\ (s[k + 1].do = "addr" => Addresses(s, k + 1, row + 1))
      BY <1>2, <2>1 DEF Piece, Sound, RowThenWaits
    <3>2. k + 1 \in 1..Len(s) /\ row + 1 \in Nat /\ u[k + 1] = s[k + 1] /\ k + 1 \in DOMAIN u
      BY <1>2, <3>1, ConstantTypes
    <3>3. QED BY <1>5, <3>1, <3>2
  <2>2. QED BY <1>2, <1>4, <2>1
<1>9. AddressBehindOpening(u)
  <2> SUFFICES ASSUME NEW k \in DOMAIN u, k + 1 \in DOMAIN u, u[k + 1].do = "addr"
               PROVE  u[k].do = "addr" \/ Opening(u[k])
    BY DEF AddressBehindOpening
  <2>1. CASE k \in 1..Len(s) - 1
    <3>1. k + 1 \in DOMAIN s /\ k \in DOMAIN s /\ u[k] = s[k] /\ u[k + 1] = s[k + 1]
      BY <1>2, <2>1
    <3>2. QED BY <3>1 DEF Piece, Sound, AddressBehindOpening
  <2>2. CASE k = Len(s)
    BY <1>3, <2>2 DEF Piece
  <2>3. QED BY <1>2, <1>4, <2>1, <2>2
<1>10. PageBehindAddress(u)
  <2> SUFFICES ASSUME NEW k \in DOMAIN u, k + 1 \in DOMAIN u, u[k + 1].do = "write"
               PROVE  u[k].do = "write" \/ (u[k].do = "addr" /\ PageFollows(u, k + 1, ecccnt, ecccnt))
    BY DEF PageBehindAddress
  <2>1. CASE k \in 1..Len(s) - 1
    <3>1. k + 1 \in DOMAIN s /\ k \in DOMAIN s /\ u[k] = s[k] /\ u[k + 1] = s[k + 1]
      BY <1>2, <2>1
    <3>2. s[k].do = "write" \/ (s[k].do = "addr" /\ PageFollows(s, k + 1, ecccnt, ecccnt))
      BY <3>1 DEF Piece, Sound, PageBehindAddress
    <3>3. QED BY <1>2, <1>6, <3>1, <3>2, Ecccnt
  <2>2. CASE k = Len(s)
    BY <1>3, <2>2 DEF Piece
  <2>3. QED BY <1>2, <1>4, <2>1, <2>2
<1>11. Sound(u)
  BY <1>2, <1>7, <1>8, <1>9, <1>10 DEF Sound
<1>12. QED BY <1>3, <1>11 DEF Piece, u

\* Commands that open and the address bytes behind them.  If the chip reads on
\* its own at the last of the bytes, that one is the last of s.
Addressing(s) ==
  /\ s \in Seq(Cycles) /\ s # <<>> /\ s[1].do = "cmd"
  /\ \A k \in DOMAIN s : s[k].do = "addr" \/ Opening(s[k])
  /\ pagesize = 512 =>
       \A k \in DOMAIN s : Reading(s[k]) =>
         k < Len(s) /\ (s[k + 1].do = "addr" => Len(s) = k + 1 + row /\ \A l \in k + 1..Len(s) : s[l].do = "addr")

\* Does s end in the address of a page that the chip reads on its own?
ReadsAlone(s) == pagesize = 512 /\ \E k \in DOMAIN s : Reading(s[k]) /\ s[k + 1].do = "addr"

LEMMA AddressedPiece ==
  ASSUME NEW s, Addressing(s), NEW t, Sound(t), t # <<>>, pagesize \in PageSizes,
         t[Len(t)].do \in {"select", "read", "sync"},
         t[1].do # "addr",
         t[1].do = "write" => s[Len(s)].do = "addr" /\ PageFollows(t, 1, ecccnt, ecccnt),
         ReadsAlone(s) => t[1].do = "sync"
  PROVE  Piece(s \o t)
<1> DEFINE u == s \o t
<1>1. s \in Seq(Cycles) /\ t \in Seq(Cycles) /\ s # <<>> /\ t # <<>>
  BY DEF Addressing, Sound
<1>2. /\ u \in Seq(Cycles) /\ Len(u) = Len(s) + Len(t) /\ Len(s) \in Nat \ {0} /\ Len(t) \in Nat \ {0}
      /\ DOMAIN s = 1..Len(s) /\ DOMAIN t = 1..Len(t) /\ DOMAIN u = 1..Len(s) + Len(t)
      /\ \A k \in 1..Len(s) : u[k] = s[k]
      /\ \A k \in 1..Len(t) : u[Len(s) + k] = t[k]
  BY <1>1, Join
<1>3. u[1] = s[1] /\ u[Len(u)] = t[Len(t)] /\ u # <<>> /\ u[Len(s) + 1] = t[1]
  BY <1>2
<1>4. \A k \in Len(s) + 1..Len(s) + Len(t) :
        /\ Begins(u[k]) => k + 1 \in DOMAIN u /\ u[k + 1].do = "sync"
        /\ pagesize = 512 /\ Reading(u[k]) =>
             k + 1 \in DOMAIN u /\ (u[k + 1].do = "addr" => Addresses(u, k + 1, row + 1))
        /\ k + 1 \in DOMAIN u /\ u[k + 1].do = "addr" => u[k].do = "addr" \/ Opening(u[k])
        /\ k + 1 \in DOMAIN u /\ u[k + 1].do = "write" =>
             u[k].do = "write" \/ (u[k].do = "addr" /\ PageFollows(u, k + 1, ecccnt, ecccnt))
  BY <1>1, SoundBehind
<1> HIDE DEF u
<1>5. \A k \in 1..Len(s) : u[k].do = "addr" \/ Opening(u[k])
  BY <1>2 DEF Addressing
<1>6. StartsThenWaits(u)
  <2>1. \A k \in 1..Len(s) : ~Begins(u[k])
    BY <1>5 DEF Begins, Opening, Opens
  <2>2. QED BY <1>2, <1>4, <2>1 DEF StartsThenWaits
<1>7. RowThenWaits(u)
  <2> SUFFICES ASSUME pagesize = 512, NEW k \in DOMAIN u, Reading(u[k])
               PROVE  k + 1 \in DOMAIN u /\ (u[k + 1].do = "addr" => Addresses(u, k + 1, row + 1))
    BY DEF RowThenWaits
  <2>1. CASE k \in 1..Len(s)
    <3>1. k \in DOMAIN s /\ k < Len(s) /\ u[k] = s[k] /\ u[k + 1] = s[k + 1] /\ k + 1 \in DOMAIN u
      BY <1>2, <2>1 DEF Addressing
    <3>2. ASSUME u[k + 1].do = "addr" PROVE Addresses(u, k + 1, row + 1)
      <4>1. Len(s) = k + 1 + row /\ \A l \in k + 1..Len(s) : s[l].do = "addr"
        BY <3>1, <3>2 DEF Addressing
      <4>2. t[1].do = "sync"
        BY <3>1, <3>2 DEF ReadsAlone
      <4>3. k + 1 + (row + 1) = Len(s) + 1 /\ k + 1 + (row + 1) \in DOMAIN u
        BY <1>2, <3>1, <4>1, ConstantTypes
      <4>4. \A l \in k + 1..k + 1 + (row + 1) - 1 : u[l].do = "addr"
        BY <1>2, <2>1, <4>1, ConstantTypes
      <4>5. u[k + 1 + (row + 1)].do = "sync"
        BY <1>3, <4>2, <4>3
      <4>6. QED BY <4>3, <4>4, <4>5 DEF Addresses
    <3>3. QED BY <3>1, <3>2
  <2>2. QED BY <1>2, <1>4, <2>1
<1>8. AddressBehindOpening(u)
  BY <1>2, <1>4, <1>5 DEF AddressBehindOpening
<1>9. PageBehindAddress(u)
  <2> SUFFICES ASSUME NEW k \in DOMAIN u, k + 1 \in DOMAIN u, u[k + 1].do = "write"
               PROVE  u[k].do = "write" \/ (u[k].do = "addr" /\ PageFollows(u, k + 1, ecccnt, ecccnt))
    BY DEF PageBehindAddress
  <2>1. CASE k \in 1..Len(s) - 1
    <3>1. k + 1 \in 1..Len(s)
      BY <2>1, <1>2
    <3>2. QED BY <1>5, <3>1 DEF Opening
  <2>2. CASE k = Len(s)
    <3>1. s[Len(s)].do = "addr" /\ PageFollows(t, 1, ecccnt, ecccnt)
      BY <1>3, <2>2
    <3>2. u[k].do = "addr"
      BY <1>2, <2>2, <3>1
    <3>3. PageFollows(u, k + 1, ecccnt, ecccnt)
      <4> ecccnt \in Nat \ {0} BY Ecccnt
      <4>1. 1 + ecccnt \in 1..Len(t) /\ \A l \in 1..1 + ecccnt : t[l].do = "write"
        BY <1>2, <3>1 DEF PageFollows
      <4>2. k + 1 + ecccnt \in DOMAIN u /\ u[k + 1 + ecccnt] = t[1 + ecccnt]
        BY <1>2, <2>2, <4>1
      <4>3. ASSUME NEW l \in k + 1..k + 1 + ecccnt PROVE u[l].do = "write"
        <5>1. l - Len(s) \in 1..Len(t) /\ l - Len(s) \in 1..1 + ecccnt /\ Len(s) + (l - Len(s)) = l
          BY <1>2, <2>2, <4>1
        <5>2. u[Len(s) + (l - Len(s))] = t[l - Len(s)]
          BY <1>2, <5>1
        <5>3. QED BY <4>1, <5>1, <5>2
      <4>4. QED BY <3>1, <4>2, <4>3 DEF PageFollows
    <3>4. QED BY <3>2, <3>3
  <2>3. QED BY <1>2, <1>4, <2>1, <2>2
<1>10. Sound(u)
  BY <1>2, <1>6, <1>7, <1>8, <1>9 DEF Sound
<1>11. QED BY <1>3, <1>10 DEF Piece, Addressing, u

LEMMA ShiftedRow ==
  ASSUME NEW pg \in Int
  PROVE  /\ rowaddr(pg) \in [0..row -> Int] /\ rowaddr(pg)[0] = pg
         /\ \A k \in 1..row : rowaddr(pg)[k] = rowaddr(pg)[k - 1] \div 256
<1> DEFINE byte == [k \in 1..row |-> [x \in Int |-> x \div 256]]
           Is(f) == f = [k \in 0..row |-> IF k = 0 THEN pg ELSE f[k - 1] \div 256]
<1>1. byte \in [1..row -> [Int -> Int]] /\ row \in Nat
  BY ConstantTypes
<1>2. PICK g : Steps(g, row, Int, pg, byte)
  <2> HIDE DEF byte
  <2>1. QED BY <1>1, StepsExist
<1>3. g \in [0..row -> Int] /\ g[0] = pg /\ \A k \in 1..row : g[k] = byte[k][g[k - 1]]
  BY <1>2 DEF Steps
<1>4. ASSUME NEW k \in 1..row PROVE k - 1 \in 0..row /\ g[k] = g[k - 1] \div 256
  <2>1. k - 1 \in 0..row /\ g[k - 1] \in Int
    BY <1>1, <1>3
  <2>2. QED BY <1>3, <2>1
<1> HIDE DEF byte
<1>5. Is(g)
  <2>1. \A k \in 0..row : g[k] = IF k = 0 THEN pg ELSE g[k - 1] \div 256
    BY <1>1, <1>3, <1>4
  <2>2. QED BY <1>3, <2>1
<1> DEFINE f == rowaddr(pg)
<1>6. f = CHOOSE h : Is(h)
  BY DEF rowaddr
<1> HIDE DEF f
<1>7. Is(f)
  <2> HIDE DEF Is
  <2>1. QED BY <1>5, <1>6
<1>8. f = g
  <2> DEFINE T == {k \in Nat : k <= row => f[k] = g[k]}
  <2>1. DOMAIN f = 0..row /\ \A k \in 0..row : f[k] = IF k = 0 THEN pg ELSE f[k - 1] \div 256
    BY <1>7
  <2>6. f = [k \in 0..row |-> f[k]]
    BY <1>7
  <2> HIDE DEF Is
  <2>2. 0 \in T
    BY <1>1, <1>3, <2>1
  <2>3. ASSUME NEW k \in T PROVE k + 1 \in T
    <3>1. SUFFICES ASSUME k + 1 <= row PROVE f[k + 1] = g[k + 1]
      OBVIOUS
    <3>2. k + 1 \in 1..row /\ k + 1 \in 0..row /\ (k + 1) - 1 = k /\ k + 1 # 0 /\ f[k] = g[k]
      BY <1>1, <3>1
    <3>3. QED BY <1>4, <2>1, <3>2
  <2>4. T = Nat
    <3>1. T \in SUBSET Nat
      OBVIOUS
    <3> HIDE DEF T
    <3>2. QED BY <2>2, <2>3, <3>1, Inductive
  <2>5. \A k \in 0..row : f[k] = g[k]
    <3> TAKE k \in 0..row
    <3> HIDE DEF T
    <3>1. k \in Nat /\ k <= row
      BY <1>1
    <3>2. k \in T
      BY <2>4, <3>1
    <3>3. QED BY <3>1, <3>2 DEF T
  <2>7. QED BY <1>3, <2>5, <2>6
<1>9. QED BY <1>3, <1>4, <1>8 DEF f

LEMMA ShiftsAreNumbers ==
  ASSUME NEW pg \in Int, NEW k \in 0..row
  PROVE  rowaddr(pg)[k] \in Int
<1> DEFINE f == rowaddr(pg)
<1>1. f \in [0..row -> Int]
  BY ShiftedRow
<1> HIDE DEF f
<1>2. f[k] \in Int
  BY <1>1
<1>3. QED BY <1>2 DEF f

LEMMA RowsType ==
  ASSUME NEW pg \in Int
  PROVE  /\ Rows(pg) \in Seq(Cycles) /\ Len(Rows(pg)) = row
         /\ \A k \in 1..row : Rows(pg)[k].do = "addr"
<1>1. ASSUME NEW k \in 1..row PROVE Addr(rowaddr(pg)[k - 1] % 256)[1] \in Cycles
  <2>1. rowaddr(pg)[k - 1] \in Int
    <3>1. k - 1 \in 0..row
      BY ConstantTypes
    <3>2. QED BY <3>1, ShiftsAreNumbers
  <2> DEFINE a == rowaddr(pg)[k - 1] % 256
  <2>2. Addr(a)[1] = [do |-> "addr", arg |-> a] /\ a \in Int
    BY <2>1 DEF Addr
  <2> HIDE DEF a
  <2>3. [do |-> "addr", arg |-> a] \in Cycles
    BY <2>2 DEF Cycles
  <2>4. QED BY <2>2, <2>3 DEF a
<1>2. Rows(pg) = [k \in 1..row |-> Addr(rowaddr(pg)[k - 1] % 256)[1]]
  BY DEF Rows
<1>3. Rows(pg) \in [1..row -> Cycles]
  BY <1>1, <1>2
<1>4. Rows(pg) \in Seq(Cycles) /\ Len(Rows(pg)) = row
  BY <1>3, ConstantTypes
<1>5. \A k \in 1..row : Rows(pg)[k].do = "addr"
  BY <1>2 DEF Addr
<1>6. QED BY <1>4, <1>5

\* What a page's address begins with: commands that open, and the column.
Columns(s) ==
  /\ s \in Seq(Cycles) /\ s # <<>> /\ s[1].do = "cmd"
  /\ \A k \in DOMAIN s : s[k].do = "addr" \/ Opening(s[k])
  /\ pagesize = 512 =>
       \A k \in DOMAIN s : Reading(s[k]) => k < Len(s) /\ (s[k + 1].do = "addr" => Len(s) = k + 1)

LEMMA ColumnAndRow ==
  ASSUME NEW s, Columns(s), NEW pg \in Int
  PROVE  LET u == s \o Rows(pg)
         IN /\ Addressing(u) /\ u[Len(u)].do = "addr" /\ (ReadsAlone(u) => ReadsAlone(s))
            /\ u \in Seq(Cycles)
<1> DEFINE t == Rows(pg)
           u == s \o t
<1>1. s \in Seq(Cycles) /\ t \in Seq(Cycles) /\ s # <<>> /\ Len(t) = row /\ row \in Nat \ {0}
      /\ \A k \in 1..row : t[k].do = "addr"
  BY RowsType, ConstantTypes DEF Columns
<1> HIDE DEF t
<1>2. /\ u \in Seq(Cycles) /\ Len(u) = Len(s) + row /\ Len(s) \in Nat \ {0}
      /\ DOMAIN s = 1..Len(s) /\ DOMAIN u = 1..Len(s) + row
      /\ \A k \in 1..Len(s) : u[k] = s[k]
      /\ \A k \in Len(s) + 1..Len(s) + row : u[k] = t[k - Len(s)]
  <2>1. /\ u \in Seq(Cycles) /\ Len(u) = Len(s) + Len(t) /\ Len(s) \in Nat
        /\ DOMAIN s = 1..Len(s) /\ DOMAIN u = 1..Len(s) + Len(t)
        /\ \A k \in 1..Len(s) : u[k] = s[k]
        /\ \A k \in Len(s) + 1..Len(s) + Len(t) : u[k] = t[k - Len(s)]
    <3>1. s \in Seq(Cycles) /\ t \in Seq(Cycles)
      BY <1>1
    <3>2. QED BY <3>1, Join
  <2>2. Len(s) # 0
    BY <1>1
  <2>3. QED BY <1>1, <2>1, <2>2
<1> HIDE DEF u
<1>3. ASSUME NEW k \in Len(s) + 1..Len(s) + row PROVE u[k].do = "addr"
  <2>1. k - Len(s) \in 1..row
    BY <1>1, <1>2
  <2>2. QED BY <1>1, <1>2, <2>1
<1>4. \A k \in DOMAIN u : u[k].do = "addr" \/ Opening(u[k])
  BY <1>2, <1>3 DEF Columns
<1>5. u # <<>> /\ u[1].do = "cmd" /\ u[Len(u)].do = "addr"
  BY <1>1, <1>2, <1>3 DEF Columns
<1>6. ASSUME pagesize = 512, NEW k \in DOMAIN u, Reading(u[k])
      PROVE  /\ k < Len(u) /\ k \in DOMAIN s /\ Reading(s[k]) /\ u[k + 1] = s[k + 1]
             /\ u[k + 1].do = "addr" => Len(s) = k + 1
  <2>1. k \in 1..Len(s)
    BY <1>2, <1>3, <1>6 DEF Reading
  <2>2. k < Len(s) /\ (s[k + 1].do = "addr" => Len(s) = k + 1) /\ Reading(s[k])
    BY <1>2, <1>6, <2>1 DEF Columns
  <2>3. u[k + 1] = s[k + 1]
    BY <1>2, <2>1, <2>2
  <2>4. k < Len(u)
    BY <1>1, <1>2, <2>1, <2>2
  <2>5. QED BY <1>2, <2>1, <2>2, <2>3, <2>4
<1>7. ASSUME pagesize = 512, NEW k \in DOMAIN u, Reading(u[k])
      PROVE  /\ k < Len(u)
             /\ u[k + 1].do = "addr" => Len(u) = k + 1 + row /\ \A l \in k + 1..Len(u) : u[l].do = "addr"
  <2>1. k < Len(u) /\ (u[k + 1].do = "addr" => Len(s) = k + 1)
    BY <1>6, <1>7
  <2>2. ASSUME u[k + 1].do = "addr" PROVE Len(u) = k + 1 + row /\ \A l \in k + 1..Len(u) : u[l].do = "addr"
    <3>1. Len(s) = k + 1 /\ k \in Nat
      BY <1>2, <2>1, <2>2
    <3>2. Len(u) = k + 1 + row
      BY <1>1, <1>2, <3>1
    <3>3. ASSUME NEW l \in k + 1..Len(u) PROVE u[l].do = "addr"
      <4>1. l = k + 1 \/ l \in Len(s) + 1..Len(s) + row
        BY <1>1, <1>2, <3>1
      <4>2. QED BY <1>3, <2>2, <4>1
    <3>4. QED BY <3>2, <3>3
  <2>3. QED BY <2>1, <2>2
<1>8. Addressing(u)
  BY <1>2, <1>4, <1>5, <1>7 DEF Addressing
<1>9. ReadsAlone(u) => ReadsAlone(s)
  <2> SUFFICES ASSUME pagesize = 512, NEW k \in DOMAIN u, Reading(u[k]), u[k + 1].do = "addr"
               PROVE  ReadsAlone(s)
    BY DEF ReadsAlone
  <2>1. QED BY <1>6 DEF ReadsAlone
<1>10. QED BY <1>2, <1>5, <1>8, <1>9 DEF u, t

LEMMA Signals ==
  /\ \A c \in Opens \cup {"CONFIRM", "PGPROG", "ERASE", "READ_STATUS"} :
       Cmd(c) \in Seq(Cycles) /\ Len(Cmd(c)) = 1 /\ Cmd(c)[1] = [do |-> "cmd", arg |-> c]
  /\ \A a \in Int : Addr(a) \in Seq(Cycles) /\ Len(Addr(a)) = 1 /\ Addr(a)[1] = [do |-> "addr", arg |-> a]
  /\ Read \in Seq(Cycles) /\ Len(Read) = 1 /\ Read[1] = [do |-> "read", arg |-> 0]
  /\ Sync \in Seq(Cycles) /\ Len(Sync) = 1 /\ Sync[1] = [do |-> "sync", arg |-> 0]
  /\ Enable \in Seq(Cycles) /\ Len(Enable) = 1 /\ Enable[1] = [do |-> "select", arg |-> TRUE]
  /\ Disable \in Seq(Cycles) /\ Len(Disable) = 1 /\ Disable[1] = [do |-> "select", arg |-> FALSE]
<1>1. ASSUME NEW c \in Opens \cup {"CONFIRM", "PGPROG", "ERASE", "READ_STATUS"}
      PROVE  [do |-> "cmd", arg |-> c] \in Cycles
  BY DEF Cycles
<1>2. ASSUME NEW a \in Int PROVE [do |-> "addr", arg |-> a] \in Cycles
  BY DEF Cycles
<1>3. /\ [do |-> "read", arg |-> 0] \in Cycles /\ [do |-> "sync", arg |-> 0] \in Cycles
      /\ [do |-> "select", arg |-> TRUE] \in Cycles /\ [do |-> "select", arg |-> FALSE] \in Cycles
  BY DEF Cycles
<1>4. ASSUME NEW x \in Cycles PROVE <<x>> \in Seq(Cycles) /\ Len(<<x>>) = 1 /\ <<x>>[1] = x
  OBVIOUS
<1> HIDE DEF Cycles
<1>5. ASSUME NEW c \in Opens \cup {"CONFIRM", "PGPROG", "ERASE", "READ_STATUS"}
      PROVE  Cmd(c) \in Seq(Cycles) /\ Len(Cmd(c)) = 1 /\ Cmd(c)[1] = [do |-> "cmd", arg |-> c]
  BY <1>1, <1>4 DEF Cmd
<1>6. ASSUME NEW a \in Int
      PROVE  Addr(a) \in Seq(Cycles) /\ Len(Addr(a)) = 1 /\ Addr(a)[1] = [do |-> "addr", arg |-> a]
  BY <1>2, <1>4 DEF Addr
<1>7. Read \in Seq(Cycles) /\ Len(Read) = 1 /\ Read[1] = [do |-> "read", arg |-> 0]
  BY <1>3, <1>4 DEF Read
<1>8. Sync \in Seq(Cycles) /\ Len(Sync) = 1 /\ Sync[1] = [do |-> "sync", arg |-> 0]
  BY <1>3, <1>4 DEF Sync
<1>9. Enable \in Seq(Cycles) /\ Len(Enable) = 1 /\ Enable[1] = [do |-> "select", arg |-> TRUE]
  BY <1>3, <1>4 DEF Enable
<1>10. Disable \in Seq(Cycles) /\ Len(Disable) = 1 /\ Disable[1] = [do |-> "select", arg |-> FALSE]
  BY <1>3, <1>4 DEF Disable
<1>11. QED BY <1>5, <1>6, <1>7, <1>8, <1>9, <1>10

LEMMA JoinTwo ==
  ASSUME NEW S, NEW s \in Seq(S), NEW t \in Seq(S), Len(s) = 1, Len(t) = 1
  PROVE  /\ s \o t \in Seq(S) /\ Len(s \o t) = 2 /\ DOMAIN (s \o t) = 1..2 /\ s \o t # <<>>
         /\ (s \o t)[1] = s[1] /\ (s \o t)[2] = t[1]
<1> DEFINE u == s \o t
<1>1. /\ u \in Seq(S) /\ Len(u) = 2 /\ DOMAIN u = 1..2 /\ u[1] = s[1] /\ u[2] = t[1]
  <2>1. u \in Seq(S) /\ Len(u) = 2
    OBVIOUS
  <2>2. DOMAIN u = 1..2
    BY <2>1
  <2>3. u[1] = s[1] /\ u[2] = t[2 - Len(s)] /\ 2 - Len(s) = 1
    OBVIOUS
  <2>4. QED BY <2>1, <2>2, <2>3
<1> HIDE DEF u
<1>2. QED BY <1>1 DEF u

\* Cycles that only select, read or wait.
LEMMA QuietPiece ==
  ASSUME NEW s \in Seq(Cycles), s # <<>>, \A k \in DOMAIN s : s[k].do \in {"select", "read", "sync"}
  PROVE  Piece(s)
<1>1. DOMAIN s = 1..Len(s) /\ Len(s) \in Nat \ {0}
  OBVIOUS
<1>2. StartsThenWaits(s) /\ RowThenWaits(s)
  BY DEF StartsThenWaits, RowThenWaits, Begins, Reading
<1>3. AddressBehindOpening(s) /\ PageBehindAddress(s)
  BY DEF AddressBehindOpening, PageBehindAddress
<1>4. QED BY <1>1, <1>2, <1>3 DEF Piece, Sound

LEMMA SinglePieces ==
  /\ Piece(Read) /\ Piece(Sync) /\ Piece(Enable) /\ Piece(Disable)
  /\ Read # <<>> /\ Sync # <<>> /\ Enable # <<>> /\ Disable # <<>>
<1>1. ASSUME NEW s \in Seq(Cycles), Len(s) = 1, s[1].do \in {"select", "read", "sync"}
      PROVE  Piece(s) /\ s # <<>>
  <2>1. s # <<>> /\ DOMAIN s = {1}
    BY <1>1
  <2>2. QED BY <1>1, <2>1, QuietPiece
<1>2. QED BY <1>1, Signals

LEMMA ReadsPiece ==
  ASSUME pagesize \in PageSizes
  PROVE  Piece([k \in 1..ecccnt |-> Read[1]])
<1> DEFINE s == [k \in 1..ecccnt |-> Read[1]]
<1> ecccnt \in Nat \ {0}
  BY Ecccnt
<1>1. Read[1] \in Cycles /\ Read[1].do = "read"
  BY Signals
<1>2. s \in Seq(Cycles) /\ s # <<>> /\ \A k \in DOMAIN s : s[k].do = "read"
  BY <1>1
<1>3. QED BY <1>2, QuietPiece

LEMMA FetchPiece ==
  ASSUME NEW s, Columns(s), NEW pg \in Int, pagesize \in PageSizes
  PROVE  Piece(Fetch(s, pg))
<1> DEFINE u == s \o Rows(pg)
           c == If(pagesize # 512, Cmd("CONFIRM"))
           t == c \o Sync
<1>1. Addressing(u) /\ u \in Seq(Cycles)
  BY ColumnAndRow
<1>2. Fetch(s, pg) = u \o t
  <2>1. Cmd("CONFIRM") \in Seq(Cycles) /\ <<>> \in Seq(Cycles) /\ Sync \in Seq(Cycles)
    <3>1. Cmd("CONFIRM") \in Seq(Cycles) /\ Sync \in Seq(Cycles)
      BY Signals
    <3>2. <<>> \in Seq(Cycles)
      OBVIOUS
    <3>3. QED BY <3>1, <3>2
  <2>2. c \in Seq(Cycles)
    BY <2>1 DEF If
  <2>3. Fetch(s, pg) = (u \o c) \o Sync
    BY DEF Fetch
  <2> HIDE DEF u, c
  <2>4. (u \o c) \o Sync = u \o (c \o Sync)
    BY <1>1, <2>1, <2>2, ConcatAssociative
  <2>5. QED BY <2>3, <2>4
<1>3. /\ t \in Seq(Cycles) /\ t # <<>> /\ t[Len(t)].do = "sync" /\ t[1].do \in {"cmd", "sync"}
      /\ pagesize = 512 => t[1].do = "sync"
      /\ DOMAIN t = 1..Len(t) /\ Len(t) \in 1..2
      /\ Len(t) = 2 => t[1] = [do |-> "cmd", arg |-> "CONFIRM"] /\ t[2].do = "sync"
      /\ Len(t) = 1 => t[1].do = "sync"
  <2>1. CASE pagesize = 512
    <3>1. Sync \in Seq(Cycles) /\ Len(Sync) = 1 /\ Sync[1] = [do |-> "sync", arg |-> 0]
      BY Signals
    <3>2. t = <<>> \o Sync
      BY <2>1 DEF If
    <3>3. t = Sync
      BY <3>1, <3>2
    <3> HIDE DEF t
    <3>4. t \in Seq(Cycles) /\ Len(t) = 1 /\ t[1].do = "sync"
      BY <3>1, <3>3
    <3>6. t # <<>> /\ DOMAIN t = 1..1
      BY <3>4
    <3>5. QED BY <2>1, <3>4, <3>6
  <2>2. CASE pagesize # 512
    <3>1. t = Cmd("CONFIRM") \o Sync
      BY <2>2 DEF If
    <3>2. /\ Cmd("CONFIRM") \in Seq(Cycles) /\ Len(Cmd("CONFIRM")) = 1
          /\ Cmd("CONFIRM")[1] = [do |-> "cmd", arg |-> "CONFIRM"]
          /\ Sync \in Seq(Cycles) /\ Len(Sync) = 1 /\ Sync[1] = [do |-> "sync", arg |-> 0]
      BY Signals
    <3> HIDE DEF t
    <3>3. /\ t \in Seq(Cycles) /\ Len(t) = 2 /\ DOMAIN t = 1..2 /\ t # <<>>
          /\ t[1] = Cmd("CONFIRM")[1] /\ t[2] = Sync[1]
      BY <3>1, <3>2, JoinTwo
    <3>4. QED BY <2>2, <3>2, <3>3
  <2>3. QED BY <2>1, <2>2
<1> HIDE DEF t
<1>4. Sound(t)
  <2>1. StartsThenWaits(t)
    BY <1>3 DEF StartsThenWaits, Begins
  <2>2. RowThenWaits(t)
    BY <1>3 DEF RowThenWaits, Reading
  <2>3. AddressBehindOpening(t) /\ PageBehindAddress(t)
    BY <1>3 DEF AddressBehindOpening, PageBehindAddress
  <2>4. QED BY <1>3, <2>1, <2>2, <2>3 DEF Sound
<1>5. ReadsAlone(u) => t[1].do = "sync"
  BY <1>3 DEF ReadsAlone
<1>6. Piece(u \o t)
  BY <1>1, <1>3, <1>4, <1>5, AddressedPiece
<1>7. QED BY <1>2, <1>6

LEMMA StoreTail ==
  ASSUME pagesize \in PageSizes, NEW items \in Layout, NEW t \in Seq(Cycles),
         Len(t) = ecccnt + 3,
         \A k \in 1..ecccnt + 1 : t[k] = [do |-> "write", arg |-> items[k]],
         t[ecccnt + 2] = [do |-> "cmd", arg |-> "PGPROG"], t[ecccnt + 3] = [do |-> "sync", arg |-> 0]
  PROVE  /\ Sound(t) /\ t # <<>> /\ t[1].do = "write" /\ t[Len(t)].do = "sync"
         /\ PageFollows(t, 1, ecccnt, ecccnt)
<1>1. PICK n \in Nat \ {0} : n = ecccnt
  BY Ecccnt
<1>2. ASSUME NEW k \in 1..n + 1 PROVE t[k].do = "write"
  <2>1. t[k] = [do |-> "write", arg |-> items[k]]
    BY <1>1
  <2>2. QED BY <2>1
<1>3. t[n + 2].do = "cmd" /\ t[n + 2].arg = "PGPROG" /\ t[n + 3].do = "sync" /\ Len(t) = n + 3
  BY <1>1
<1>4. DOMAIN t = 1..n + 3
  BY <1>3
<1>5. \A k \in DOMAIN t : t[k].do = "write" \/ k = n + 2 \/ k = n + 3
  BY <1>2, <1>4
<1>6. t # <<>> /\ t[1].do = "write" /\ t[Len(t)].do = "sync"
  BY <1>2, <1>3
<1>7. PageFollows(t, 1, ecccnt, ecccnt)
  <2>1. Len(items[ecccnt + 1].par) = ecccnt
    BY DEF Layout
  <2>2. 1 + n \in DOMAIN t /\ t[1 + n].arg = items[ecccnt + 1]
    <3>1. n + 1 \in 1..n + 1 /\ n + 1 = ecccnt + 1 /\ 1 + n = n + 1
      BY <1>1
    <3>2. t[n + 1] = [do |-> "write", arg |-> items[n + 1]]
      BY <3>1
    <3>3. QED BY <1>4, <3>1, <3>2
  <2>3. \A l \in 1..1 + n : t[l].do = "write"
    BY <1>2
  <2>4. QED BY <1>1, <2>1, <2>2, <2>3 DEF PageFollows
<1>8. StartsThenWaits(t)
  <2> SUFFICES ASSUME NEW k \in DOMAIN t, t[k].do = "cmd" PROVE k + 1 \in DOMAIN t /\ t[k + 1].do = "sync"
    BY DEF StartsThenWaits, Begins
  <2>1. k = n + 2
    BY <1>3, <1>5
  <2>2. k + 1 = n + 3
    BY <2>1
  <2>3. QED BY <1>3, <1>4, <2>2
<1>9. RowThenWaits(t)
  <2> SUFFICES ASSUME NEW k \in DOMAIN t, t[k].do = "cmd", t[k].arg # "PGPROG" PROVE FALSE
    BY DEF RowThenWaits, Reading
  <2>1. QED BY <1>3, <1>5
<1>10. AddressBehindOpening(t)
  BY <1>3, <1>5 DEF AddressBehindOpening
<1>11. PageBehindAddress(t)
  <2> SUFFICES ASSUME NEW k \in DOMAIN t, k + 1 \in DOMAIN t, t[k + 1].do = "write" PROVE t[k].do = "write"
    BY DEF PageBehindAddress
  <2>1. k \in 1..n + 1
    BY <1>3, <1>4
  <2>2. QED BY <1>2, <2>1
<1>12. QED BY <1>6, <1>7, <1>8, <1>9, <1>10, <1>11 DEF Sound

LEMMA StorePiece ==
  ASSUME NEW s, Columns(s), ~ReadsAlone(s), NEW pg \in Int, pagesize \in PageSizes,
         NEW items \in Layout
  PROVE  Piece(Store(s, pg, items))
<1> ecccnt \in Nat \ {0} BY Ecccnt
<1> DEFINE u == s \o Rows(pg)
           w == [k \in 1..ecccnt + 1 |-> Write(items[k])[1]]
           t == w \o (Cmd("PGPROG") \o Sync)
           n == ecccnt + 1
<1>1. Addressing(u) /\ u \in Seq(Cycles) /\ u[Len(u)].do = "addr" /\ ~ReadsAlone(u)
  BY ColumnAndRow
<1>2. /\ w \in Seq(Cycles) /\ Len(w) = n
      /\ \A k \in 1..n : w[k] = [do |-> "write", arg |-> items[k]]
  <2>1. ASSUME NEW k \in 1..n
        PROVE  /\ Write(items[k])[1] = [do |-> "write", arg |-> items[k]]
               /\ [do |-> "write", arg |-> items[k]] \in Cycles
    <3>1. items[k] \in Items
      BY DEF Layout
    <3>2. QED BY <3>1 DEF Write, Cycles
  <2>2. w \in [1..n -> Cycles]
    BY <2>1
  <2>3. w \in Seq(Cycles) /\ Len(w) = n
    BY <2>2
  <2>4. QED BY <2>1, <2>3
<1> DEFINE z == Cmd("PGPROG") \o Sync
<1>3. /\ z \in Seq(Cycles) /\ Len(z) = 2 /\ z[1] = [do |-> "cmd", arg |-> "PGPROG"]
      /\ z[2] = [do |-> "sync", arg |-> 0]
  <2>1. /\ Cmd("PGPROG") \in Seq(Cycles) /\ Len(Cmd("PGPROG")) = 1
        /\ Cmd("PGPROG")[1] = [do |-> "cmd", arg |-> "PGPROG"]
        /\ Sync \in Seq(Cycles) /\ Len(Sync) = 1 /\ Sync[1] = [do |-> "sync", arg |-> 0]
    BY Signals
  <2>2. QED BY <2>1, JoinTwo
<1>4. Store(s, pg, items) = u \o t
  <2>1. Cmd("PGPROG") \in Seq(Cycles) /\ Sync \in Seq(Cycles) /\ w \in Seq(Cycles)
    BY <1>2, Signals
  <2>2. Store(s, pg, items) = ((u \o w) \o Cmd("PGPROG")) \o Sync
    BY DEF Store
  <2> HIDE DEF u, w, z
  <2>3. u \o w \in Seq(Cycles)
    BY <1>1, <1>2
  <2>4. ((u \o w) \o Cmd("PGPROG")) \o Sync = (u \o w) \o (Cmd("PGPROG") \o Sync)
    BY <2>1, <2>3, ConcatAssociative
  <2>5. u \in Seq(Cycles) /\ w \in Seq(Cycles) /\ z \in Seq(Cycles)
    BY <1>1, <1>2, <1>3
  <2>6. (u \o w) \o z = u \o (w \o z)
    BY <2>5, ConcatAssociative
  <2>7. QED BY <2>2, <2>4, <2>6 DEF z
<1> HIDE DEF w, z, u
<1>5. /\ t \in Seq(Cycles) /\ Len(t) = n + 2 /\ DOMAIN t = 1..n + 2
      /\ \A k \in 1..n : t[k] = [do |-> "write", arg |-> items[k]]
      /\ t[n + 1] = [do |-> "cmd", arg |-> "PGPROG"] /\ t[n + 2] = [do |-> "sync", arg |-> 0]
  <2>1. t = w \o z
    BY DEF z
  <2>2. /\ t \in Seq(Cycles) /\ Len(t) = Len(w) + Len(z) /\ DOMAIN t = 1..Len(w) + Len(z)
        /\ \A k \in 1..Len(w) : t[k] = w[k]
        /\ \A k \in 1..Len(z) : t[Len(w) + k] = z[k]
    <3>1. w \in Seq(Cycles) /\ z \in Seq(Cycles)
      BY <1>2, <1>3
    <3> HIDE DEF t
    <3>2. /\ w \o z \in Seq(Cycles) /\ Len(w \o z) = Len(w) + Len(z) /\ DOMAIN (w \o z) = 1..Len(w) + Len(z)
          /\ \A k \in 1..Len(w) : (w \o z)[k] = w[k]
          /\ \A k \in 1..Len(z) : (w \o z)[Len(w) + k] = z[k]
      BY <3>1, Join
    <3>3. QED BY <2>1, <3>2
  <2> HIDE DEF t
  <2>3. n \in Nat /\ Len(w) = n /\ Len(z) = 2
    BY <1>2, <1>3
  <2>4. t \in Seq(Cycles) /\ Len(t) = n + 2 /\ DOMAIN t = 1..n + 2
    BY <2>2, <2>3
  <2>5. \A k \in 1..n : t[k] = [do |-> "write", arg |-> items[k]]
    BY <1>2, <2>2, <2>3
  <2>6. t[n + 1] = z[1] /\ t[n + 2] = z[2]
    BY <2>2, <2>3
  <2>7. QED BY <1>3, <2>4, <2>5, <2>6
<1> HIDE DEF t
<1>6. /\ Sound(t) /\ t # <<>> /\ t[1].do = "write" /\ t[Len(t)].do = "sync"
      /\ PageFollows(t, 1, ecccnt, ecccnt)
  BY <1>5, StoreTail
<1>9. Piece(u \o t)
  BY <1>1, <1>6, AddressedPiece
<1>10. QED BY <1>4, <1>9

LEMMA ErasePiece ==
  ASSUME NEW pg \in Int, pagesize \in PageSizes
  PROVE  Piece(Cmd("ERASE_SETUP") \o Rows(pg) \o Cmd("ERASE") \o Sync)
<1> DEFINE s == Cmd("ERASE_SETUP")
           u == s \o Rows(pg)
           t == Cmd("ERASE") \o Sync
<1>1. s \in Seq(Cycles) /\ Len(s) = 1 /\ s[1] = [do |-> "cmd", arg |-> "ERASE_SETUP"]
  BY Signals DEF Opens
<1>2. Columns(s) /\ ~ReadsAlone(s)
  BY <1>1 DEF Columns, ReadsAlone, Opening, Reading, Opens
<1>3. Addressing(u) /\ u \in Seq(Cycles) /\ ~ReadsAlone(u)
  BY <1>2, ColumnAndRow
<1>4. /\ Cmd("ERASE") \in Seq(Cycles) /\ Len(Cmd("ERASE")) = 1
      /\ Cmd("ERASE")[1] = [do |-> "cmd", arg |-> "ERASE"]
      /\ Sync \in Seq(Cycles) /\ Len(Sync) = 1 /\ Sync[1] = [do |-> "sync", arg |-> 0]
  BY Signals
<1>5. s \o Rows(pg) \o Cmd("ERASE") \o Sync = u \o t
  <2>1. Cmd("ERASE") \in Seq(Cycles) /\ Sync \in Seq(Cycles)
    BY Signals
  <2> HIDE DEF u
  <2>2. (u \o Cmd("ERASE")) \o Sync = u \o (Cmd("ERASE") \o Sync)
    BY <1>3, <2>1, ConcatAssociative
  <2>3. QED BY <2>2 DEF u
<1> HIDE DEF u
<1>6. /\ t \in Seq(Cycles) /\ Len(t) = 2 /\ DOMAIN t = 1..2 /\ t # <<>>
      /\ t[1] = [do |-> "cmd", arg |-> "ERASE"] /\ t[2] = [do |-> "sync", arg |-> 0]
  BY <1>4, JoinTwo
<1> HIDE DEF t
<1>7. Sound(t)
  <2>1. StartsThenWaits(t) /\ RowThenWaits(t)
    BY <1>6 DEF StartsThenWaits, RowThenWaits, Begins, Reading
  <2>2. AddressBehindOpening(t) /\ PageBehindAddress(t)
    BY <1>6 DEF AddressBehindOpening, PageBehindAddress
  <2>3. QED BY <1>6, <2>1, <2>2 DEF Sound
<1>8. Piece(u \o t)
  <2>1. t[Len(t)].do = "sync" /\ t[1].do = "cmd" /\ t # <<>>
    BY <1>6
  <2>2. QED BY <1>3, <1>7, <2>1, AddressedPiece
<1>9. QED BY <1>5, <1>8

LEMMA JoinThird ==
  ASSUME NEW S, NEW r \in Seq(S), NEW u \in Seq(S)
  PROVE  Len(r) = 2 /\ Len(u) = 1 =>
           /\ r \o u \in Seq(S) /\ Len(r \o u) = 3 /\ DOMAIN (r \o u) = 1..3 /\ r \o u # <<>>
           /\ (r \o u)[1] = r[1] /\ (r \o u)[2] = r[2] /\ (r \o u)[3] = u[1]
<1> DEFINE v == r \o u
<1>1. /\ v \in Seq(S) /\ Len(v) = Len(r) + Len(u) /\ DOMAIN v = 1..Len(r) + Len(u)
      /\ \A k \in 1..Len(r) : v[k] = r[k]
      /\ \A k \in Len(r) + 1..Len(r) + Len(u) : v[k] = u[k - Len(r)]
  BY Join
<1> HIDE DEF v
<1> SUFFICES ASSUME Len(r) = 2, Len(u) = 1
             PROVE  /\ v \in Seq(S) /\ Len(v) = 3 /\ DOMAIN v = 1..3 /\ v # <<>>
                    /\ v[1] = r[1] /\ v[2] = r[2] /\ v[3] = u[1]
  BY DEF v
<1>2. /\ v \in Seq(S) /\ Len(v) = 3 /\ DOMAIN v = 1..3
      /\ \A k \in 1..2 : v[k] = r[k]
      /\ \A k \in 3..3 : v[k] = u[k - 2]
  BY <1>1
<1>3. v[1] = r[1] /\ v[2] = r[2]
  BY <1>2
<1>4. v[3] = u[1]
  <2>1. v[3] = u[3 - 2]
    BY <1>2
  <2>2. QED BY <2>1
<1>5. v # <<>>
  BY <1>2
<1>6. QED BY <1>2, <1>3, <1>4, <1>5

LEMMA JoinThree ==
  ASSUME NEW S, NEW s \in Seq(S), NEW t \in Seq(S), NEW u \in Seq(S), Len(s) = 1, Len(t) = 1, Len(u) = 1
  PROVE  /\ s \o t \o u \in Seq(S) /\ Len(s \o t \o u) = 3 /\ DOMAIN (s \o t \o u) = 1..3
         /\ s \o t \o u # <<>>
         /\ (s \o t \o u)[1] = s[1] /\ (s \o t \o u)[2] = t[1] /\ (s \o t \o u)[3] = u[1]
<1> DEFINE r == s \o t
<1>1. r \in Seq(S) /\ Len(r) = 2 /\ r[1] = s[1] /\ r[2] = t[1]
  BY JoinTwo
<1> HIDE DEF r
<1>2. /\ r \o u \in Seq(S) /\ Len(r \o u) = 3 /\ DOMAIN (r \o u) = 1..3 /\ r \o u # <<>>
      /\ (r \o u)[1] = r[1] /\ (r \o u)[2] = r[2] /\ (r \o u)[3] = u[1]
  BY <1>1, JoinThird
<1>3. QED BY <1>1, <1>2 DEF r

LEMMA ColumnOne ==
  ASSUME NEW c \in Opens, NEW a \in Int
  PROVE  Columns(Cmd(c) \o Addr(a))
<1> DEFINE s == Cmd(c) \o Addr(a)
<1>1. /\ Cmd(c) \in Seq(Cycles) /\ Len(Cmd(c)) = 1 /\ Cmd(c)[1] = [do |-> "cmd", arg |-> c]
      /\ Addr(a) \in Seq(Cycles) /\ Len(Addr(a)) = 1 /\ Addr(a)[1] = [do |-> "addr", arg |-> a]
  BY Signals
<1>2. /\ s \in Seq(Cycles) /\ Len(s) = 2 /\ DOMAIN s = 1..2 /\ s # <<>>
      /\ s[1] = [do |-> "cmd", arg |-> c] /\ s[2] = [do |-> "addr", arg |-> a]
  BY <1>1, JoinTwo
<1> HIDE DEF s
<1>3. Columns(s)
  BY <1>2 DEF Columns, Opening, Reading
<1>4. QED BY <1>3 DEF s

LEMMA ColumnTwo ==
  ASSUME NEW c \in Opens, NEW a \in Int, NEW b \in Int, pagesize # 512
  PROVE  Columns(Cmd(c) \o Addr(a) \o Addr(b)) /\ ~ReadsAlone(Cmd(c) \o Addr(a) \o Addr(b))
<1> DEFINE s == Cmd(c) \o Addr(a) \o Addr(b)
<1>1. /\ Cmd(c) \in Seq(Cycles) /\ Len(Cmd(c)) = 1 /\ Cmd(c)[1] = [do |-> "cmd", arg |-> c]
      /\ Addr(a) \in Seq(Cycles) /\ Len(Addr(a)) = 1 /\ Addr(a)[1] = [do |-> "addr", arg |-> a]
      /\ Addr(b) \in Seq(Cycles) /\ Len(Addr(b)) = 1 /\ Addr(b)[1] = [do |-> "addr", arg |-> b]
  BY Signals
<1>2. /\ s \in Seq(Cycles) /\ Len(s) = 3 /\ DOMAIN s = 1..3 /\ s # <<>>
      /\ s[1] = [do |-> "cmd", arg |-> c] /\ s[2] = [do |-> "addr", arg |-> a]
      /\ s[3] = [do |-> "addr", arg |-> b]
  <2>1. /\ Cmd(c) \in Seq(Cycles) /\ Len(Cmd(c)) = 1 /\ Addr(a) \in Seq(Cycles) /\ Len(Addr(a)) = 1
        /\ Addr(b) \in Seq(Cycles) /\ Len(Addr(b)) = 1
    BY <1>1
  <2>2. /\ s \in Seq(Cycles) /\ Len(s) = 3 /\ DOMAIN s = 1..3 /\ s # <<>>
        /\ s[1] = Cmd(c)[1] /\ s[2] = Addr(a)[1] /\ s[3] = Addr(b)[1]
    <3> DEFINE x == Cmd(c)
               y == Addr(a)
               z == Addr(b)
    <3>1. /\ x \in Seq(Cycles) /\ Len(x) = 1 /\ y \in Seq(Cycles) /\ Len(y) = 1
          /\ z \in Seq(Cycles) /\ Len(z) = 1
      BY <2>1
    <3> HIDE DEF x, y, z
    <3>2. /\ x \o y \o z \in Seq(Cycles) /\ Len(x \o y \o z) = 3 /\ DOMAIN (x \o y \o z) = 1..3
          /\ x \o y \o z # <<>>
          /\ (x \o y \o z)[1] = x[1] /\ (x \o y \o z)[2] = y[1] /\ (x \o y \o z)[3] = z[1]
      BY <3>1, JoinThree
    <3>3. QED BY <3>2 DEF x, y, z
  <2> HIDE DEF s
  <2>3. QED BY <1>1, <2>2
<1> HIDE DEF s
<1>3. Columns(s) /\ ~ReadsAlone(s)
  BY <1>2 DEF Columns, Opening, ReadsAlone
<1>4. QED BY <1>3 DEF s

LEMMA ColumnProgram ==
  ASSUME NEW a \in Int
  PROVE  /\ Columns(Cmd("READA") \o Cmd("SEQIN") \o Addr(a))
         /\ ~ReadsAlone(Cmd("READA") \o Cmd("SEQIN") \o Addr(a))
<1> DEFINE s == Cmd("READA") \o Cmd("SEQIN") \o Addr(a)
<1>1. /\ Cmd("READA") \in Seq(Cycles) /\ Len(Cmd("READA")) = 1
      /\ Cmd("READA")[1] = [do |-> "cmd", arg |-> "READA"]
      /\ Cmd("SEQIN") \in Seq(Cycles) /\ Len(Cmd("SEQIN")) = 1
      /\ Cmd("SEQIN")[1] = [do |-> "cmd", arg |-> "SEQIN"]
      /\ Addr(a) \in Seq(Cycles) /\ Len(Addr(a)) = 1 /\ Addr(a)[1] = [do |-> "addr", arg |-> a]
  BY Signals DEF Opens
<1>2. /\ s \in Seq(Cycles) /\ Len(s) = 3 /\ DOMAIN s = 1..3 /\ s # <<>>
      /\ s[1] = [do |-> "cmd", arg |-> "READA"] /\ s[2] = [do |-> "cmd", arg |-> "SEQIN"]
      /\ s[3] = [do |-> "addr", arg |-> a]
  <2>1. /\ Cmd("READA") \in Seq(Cycles) /\ Len(Cmd("READA")) = 1
        /\ Cmd("SEQIN") \in Seq(Cycles) /\ Len(Cmd("SEQIN")) = 1
        /\ Addr(a) \in Seq(Cycles) /\ Len(Addr(a)) = 1
    BY <1>1
  <2>2. /\ s \in Seq(Cycles) /\ Len(s) = 3 /\ DOMAIN s = 1..3 /\ s # <<>>
        /\ s[1] = Cmd("READA")[1] /\ s[2] = Cmd("SEQIN")[1] /\ s[3] = Addr(a)[1]
    <3> DEFINE x == Cmd("READA")
               y == Cmd("SEQIN")
               z == Addr(a)
    <3>1. /\ x \in Seq(Cycles) /\ Len(x) = 1 /\ y \in Seq(Cycles) /\ Len(y) = 1
          /\ z \in Seq(Cycles) /\ Len(z) = 1
      BY <2>1
    <3> HIDE DEF x, y, z
    <3>2. /\ x \o y \o z \in Seq(Cycles) /\ Len(x \o y \o z) = 3 /\ DOMAIN (x \o y \o z) = 1..3
          /\ x \o y \o z # <<>>
          /\ (x \o y \o z)[1] = x[1] /\ (x \o y \o z)[2] = y[1] /\ (x \o y \o z)[3] = z[1]
      BY <3>1, JoinThree
    <3>3. QED BY <3>2 DEF x, y, z
  <2> HIDE DEF s
  <2>3. QED BY <1>1, <2>2
<1> HIDE DEF s
<1>3. Columns(s)
  BY <1>2 DEF Columns, Opening, Opens, Reading
<1>5. ~ReadsAlone(s)
  BY <1>2 DEF ReadsAlone, Reading
<1>4. QED BY <1>3, <1>5 DEF s

\* What the driver puts on the bus in a call, and that it ends with the chip disabled.
GoodScript(s) ==
  /\ Sound(s) /\ s # <<>> /\ s[1].do \in {"select", "cmd"} /\ Leaves(s, FALSE)

LEMMA EmptyIf ==
  ASSUME NEW S, NEW s \in Seq(S), NEW t
  PROVE  /\ s \o If(FALSE, t) = s /\ If(FALSE, t) \o s = s
         /\ If(TRUE, t) = t
<1>1. If(FALSE, t) = <<>> /\ If(TRUE, t) = t
  BY DEF If
<1>2. s \o <<>> = s /\ <<>> \o s = s
  OBVIOUS
<1>3. QED BY <1>1, <1>2

LEMMA StatusPiece ==
  Piece(Status) /\ Status[Len(Status)] = [do |-> "select", arg |-> FALSE]
<1> DEFINE s == Cmd("READ_STATUS") \o Read \o Disable
<1>1. /\ Cmd("READ_STATUS") \in Seq(Cycles) /\ Len(Cmd("READ_STATUS")) = 1
      /\ Cmd("READ_STATUS")[1] = [do |-> "cmd", arg |-> "READ_STATUS"]
      /\ Read \in Seq(Cycles) /\ Len(Read) = 1 /\ Read[1] = [do |-> "read", arg |-> 0]
      /\ Disable \in Seq(Cycles) /\ Len(Disable) = 1 /\ Disable[1] = [do |-> "select", arg |-> FALSE]
  BY Signals
<1>2. /\ s \in Seq(Cycles) /\ Len(s) = 3 /\ DOMAIN s = 1..3 /\ s # <<>>
      /\ s[1] = [do |-> "cmd", arg |-> "READ_STATUS"] /\ s[2] = [do |-> "read", arg |-> 0]
      /\ s[3] = [do |-> "select", arg |-> FALSE]
  <2>1. /\ s \in Seq(Cycles) /\ Len(s) = 3 /\ DOMAIN s = 1..3 /\ s # <<>>
        /\ s[1] = Cmd("READ_STATUS")[1] /\ s[2] = Read[1] /\ s[3] = Disable[1]
    <3>1. /\ Cmd("READ_STATUS") \in Seq(Cycles) /\ Len(Cmd("READ_STATUS")) = 1
          /\ Read \in Seq(Cycles) /\ Len(Read) = 1 /\ Disable \in Seq(Cycles) /\ Len(Disable) = 1
      BY <1>1
    <3>2. QED BY <3>1, JoinThree
  <2>2. QED BY <1>1, <2>1
<1> HIDE DEF s
<1>3. StartsThenWaits(s) /\ RowThenWaits(s)
  BY <1>2 DEF StartsThenWaits, RowThenWaits, Begins, Reading
<1>4. AddressBehindOpening(s) /\ PageBehindAddress(s)
  BY <1>2 DEF AddressBehindOpening, PageBehindAddress
<1>5. Piece(s) /\ s[Len(s)] = [do |-> "select", arg |-> FALSE]
  BY <1>2, <1>3, <1>4 DEF Piece, Sound
<1>6. QED BY <1>5 DEF s, Status

LEMMA DisabledAtEnd ==
  ASSUME NEW s, Piece(s), s[1].do = "select", s[Len(s)] = [do |-> "select", arg |-> FALSE]
  PROVE  GoodScript(s)
  BY DEF Piece, GoodScript, Leaves

LEMMA OobPiece ==
  ASSUME NEW pg \in Int, pagesize \in PageSizes
  PROVE  /\ Piece(read_oob(pg)) /\ read_oob(pg)[1].do = "select"
         /\ read_oob(pg)[Len(read_oob(pg))] = [do |-> "select", arg |-> FALSE]
<1> DEFINE c == IF pagesize = 512 THEN Cmd("READC") \o Addr(0)
                ELSE Cmd("READA") \o Addr(pagesize % 256) \o Addr(pagesize \div 256)
           f == Fetch(c, pg)
<1>1. Columns(c)
  <2>1. "READC" \in Opens /\ "READA" \in Opens
    BY DEF Opens
  <2>2. pagesize % 256 \in Int /\ pagesize \div 256 \in Int
    BY Ecccnt
  <2>3. CASE pagesize = 512
    BY <2>1, <2>3, ColumnOne
  <2>4. CASE pagesize # 512
    <3> DEFINE x == pagesize % 256
               y == pagesize \div 256
    <3>1. x \in Int /\ y \in Int
      BY <2>2
    <3> HIDE DEF x, y
    <3>2. Columns(Cmd("READA") \o Addr(x) \o Addr(y))
      BY <2>1, <2>4, <3>1, ColumnTwo
    <3>3. QED BY <2>4, <3>2 DEF x, y
  <2>5. QED BY <2>3, <2>4
<1>2. read_oob(pg) = ((Enable \o f) \o Read) \o Disable
  BY DEF read_oob
<1> HIDE DEF c
<1>3. Piece(f)
  BY <1>1, FetchPiece
<1> HIDE DEF f
<1>4. Enable[1].do = "select" /\ Disable[Len(Disable)] = [do |-> "select", arg |-> FALSE]
  BY Signals
<1>5. Piece(Enable \o f) /\ (Enable \o f)[1].do = "select"
  BY <1>3, <1>4, SinglePieces, JoinPieces
<1> DEFINE g == Enable \o f
<1> HIDE DEF g
<1>6. Piece(g \o Read) /\ (g \o Read)[1].do = "select"
  BY <1>5, SinglePieces, JoinPieces DEF g
<1> DEFINE h == g \o Read
<1> HIDE DEF h
<1>7. /\ Piece(h \o Disable) /\ (h \o Disable)[1].do = "select"
      /\ (h \o Disable)[Len(h \o Disable)] = [do |-> "select", arg |-> FALSE]
  BY <1>4, <1>6, SinglePieces, JoinPieces DEF h
<1>8. QED BY <1>2, <1>7 DEF g, h

LEMMA ReadPagePiece ==
  ASSUME NEW pg \in Int, pagesize \in PageSizes
  PROVE  GoodScript(nand_read_page(pg))
<1> DEFINE c == Cmd("READA") \o Addr(0) \o If(pagesize # 512, Addr(0))
           f == Fetch(c, pg)
           r == [k \in 1..ecccnt |-> Read[1]]
           o == read_oob(pg)
<1>1. Columns(c)
  <2>1. "READA" \in Opens /\ 0 \in Int
    BY DEF Opens
  <2>2. CASE pagesize = 512
    <3>1. Columns(Cmd("READA") \o Addr(0))
      BY <2>1, ColumnOne
    <3>2. Cmd("READA") \o Addr(0) \in Seq(Cycles)
      BY <3>1 DEF Columns
    <3>3. (Cmd("READA") \o Addr(0)) \o If(FALSE, Addr(0)) = Cmd("READA") \o Addr(0)
      BY <3>2, EmptyIf
    <3>4. QED BY <2>2, <3>1, <3>3
  <2>3. CASE pagesize # 512
    <3>1. c = Cmd("READA") \o Addr(0) \o Addr(0)
      BY <2>3 DEF If
    <3>2. QED BY <2>1, <2>3, <3>1, ColumnTwo
  <2>4. QED BY <2>2, <2>3
<1>2. nand_read_page(pg) = (((Enable \o o) \o f) \o r) \o Disable
  BY DEF nand_read_page
<1> HIDE DEF c
<1>3. Piece(f) /\ Piece(r) /\ Piece(o)
  BY <1>1, FetchPiece, ReadsPiece, OobPiece
<1> HIDE DEF f, r, o
<1>4. Enable[1].do = "select" /\ Disable[Len(Disable)] = [do |-> "select", arg |-> FALSE]
  BY Signals
<1> DEFINE g == Enable \o o
<1>5. Piece(g) /\ g[1].do = "select"
  BY <1>3, <1>4, SinglePieces, JoinPieces
<1> HIDE DEF g
<1> DEFINE h == g \o f
<1>6. Piece(h) /\ h[1].do = "select"
  BY <1>3, <1>5, JoinPieces
<1> HIDE DEF h
<1> DEFINE i == h \o r
<1>7. Piece(i) /\ i[1].do = "select"
  BY <1>3, <1>6, JoinPieces
<1> HIDE DEF i
<1>8. /\ Piece(i \o Disable) /\ (i \o Disable)[1].do = "select"
      /\ (i \o Disable)[Len(i \o Disable)] = [do |-> "select", arg |-> FALSE]
  BY <1>4, <1>7, SinglePieces, JoinPieces
<1>9. QED BY <1>2, <1>8, DisabledAtEnd DEF g, h, i

\* A call that writes: enabled, the work, and the status behind it.
LEMMA WorkThenStatus ==
  ASSUME NEW w, Piece(w), pagesize \in PageSizes
  PROVE  GoodScript(Enable \o w \o Status)
<1> DEFINE g == Enable \o w
<1>1. Enable[1].do = "select"
  BY Signals
<1>2. Piece(g) /\ g[1].do = "select"
  BY <1>1, SinglePieces, JoinPieces
<1> HIDE DEF g
<1>3. /\ Piece(g \o Status) /\ (g \o Status)[1].do = "select"
      /\ (g \o Status)[Len(g \o Status)] = [do |-> "select", arg |-> FALSE]
  BY <1>2, StatusPiece, JoinPieces
<1>4. QED BY <1>3, DisabledAtEnd DEF g

LEMMA PageNumbers ==
  /\ \A pg \in FlashPages : pg \in Int
  /\ \A b \in Blocks : (b + 1) * ppb - 1 \in Int /\ b * ppb \in Int
<1>1. ASSUME NEW b \in Blocks PROVE b \in Nat /\ (b + 1) * ppb - 1 \in Int /\ b * ppb \in Int
  BY FlashAssumption
<1>2. ASSUME NEW b \in Blocks, NEW q \in 0..ppb - 1 PROVE b * ppb + q \in Int
  BY <1>1, ConstantTypes
<1>3. QED BY <1>1, <1>2 DEF FlashPages

LEMMA PagesHaveLayout ==
  ASSUME pagesize \in PageSizes, NEW items \in [1..ecccnt -> Items], NEW par \in [1..ecccnt -> Marks],
         NEW ff \in BOOLEAN
  PROVE  Append(items, Oob(par, ff)) \in Layout
<1> ecccnt \in Nat \ {0}
  BY Ecccnt
<1>1. items \in Seq(Items) /\ Len(items) = ecccnt /\ par \in Seq(Marks) /\ Len(par) = ecccnt
  OBVIOUS
<1>2. Oob(par, ff) \in Items /\ Oob(par, ff).par = par
  BY <1>1 DEF Oob, Items, Marks
<1> DEFINE page == Append(items, Oob(par, ff))
<1>3. page \in Seq(Items) /\ Len(page) = ecccnt + 1 /\ page[ecccnt + 1] = Oob(par, ff)
  BY <1>1, <1>2
<1>4. QED BY <1>1, <1>2, <1>3 DEF Layout

LEMMA ItemType ==
  ASSUME NEW m \in Marks
  PROVE  Item(m) \in Items
  BY DEF Item, Items

LEMMA AllOfLayout ==
  ASSUME pagesize \in PageSizes, NEW v \in {"ff", "00", "??"}, NEW ff \in BOOLEAN
  PROVE  AllOf(v, ff) \in Layout
<1>1. <<v, 0>> \in Marks
  BY DEF Marks
<1>2. [i \in 1..ecccnt |-> Item(<<v, 0>>)] \in [1..ecccnt -> Items]
  BY <1>1, ItemType
<1>3. Same(v) \in [1..ecccnt -> Marks]
  BY <1>1 DEF Same
<1>4. QED BY <1>2, <1>3, PagesHaveLayout DEF AllOf

LEMMA ProgramScript ==
  ASSUME pagesize \in PageSizes, NEW v \in Contents, NEW pg \in Int
  PROVE  GoodScript(nand_program_page(v, pg))
<1> DEFINE items == Append([k \in 1..ecccnt |-> Item(<<v, k>>)], Oob([k \in 1..ecccnt |-> <<v, k>>], TRUE))
           c == Pointed \o Cmd("SEQIN") \o Addr(0) \o If(pagesize # 512, Addr(0))
<1>1. items \in Layout
  <2>1. \A k \in 1..ecccnt : <<v, k>> \in Marks
    <3> ecccnt \in Nat
      BY Ecccnt
    <3>1. QED BY DEF Marks
  <2>2. [k \in 1..ecccnt |-> Item(<<v, k>>)] \in [1..ecccnt -> Items]
    BY <2>1, ItemType
  <2>3. [k \in 1..ecccnt |-> <<v, k>>] \in [1..ecccnt -> Marks]
    BY <2>1
  <2>4. QED BY <2>2, <2>3, PagesHaveLayout
<1> HIDE DEF items
<1>2. Columns(c) /\ ~ReadsAlone(c)
  <2>1. Cmd("SEQIN") \in Seq(Cycles) /\ "SEQIN" \in Opens /\ 0 \in Int
    BY Signals DEF Opens
  <2>2. CASE pagesize = 512
    <3> DEFINE d == Cmd("READA") \o Cmd("SEQIN") \o Addr(0)
    <3>1. c = d \o If(FALSE, Addr(0))
      BY <2>2 DEF Pointed, If
    <3>2. Columns(d) /\ ~ReadsAlone(d)
      BY <2>1, ColumnProgram
    <3> HIDE DEF d
    <3>3. d \o If(FALSE, Addr(0)) = d
      BY <3>2, EmptyIf DEF Columns
    <3>4. QED BY <3>1, <3>2, <3>3
  <2>3. CASE pagesize # 512
    <3>1. Pointed \o Cmd("SEQIN") = Cmd("SEQIN")
      <4>1. Pointed = <<>>
        BY <2>3 DEF Pointed, If
      <4>2. QED BY <2>1, <4>1
    <3>2. c = Cmd("SEQIN") \o Addr(0) \o Addr(0)
      BY <2>3, <3>1 DEF If
    <3>3. QED BY <2>1, <2>3, <3>2, ColumnTwo
  <2>4. QED BY <2>2, <2>3
<1> HIDE DEF c
<1> DEFINE w == Store(c, pg, items)
<1>3. Piece(w)
  BY <1>1, <1>2, StorePiece
<1>4. nand_program_page(v, pg) = Enable \o w \o Status
  BY DEF nand_program_page, c, items
<1> HIDE DEF w
<1>5. QED BY <1>3, <1>4, WorkThenStatus

LEMMA MarkScript ==
  ASSUME pagesize \in PageSizes, NEW b \in Blocks
  PROVE  pagesize # 4096 => GoodScript(nand_mark_badblock(b))
<1> DEFINE items == AllOf("00", FALSE)
           pg == (b + 1) * ppb - 1
           c == If(pagesize # 2048, Cmd("READA")) \o Cmd("SEQIN") \o Addr(0) \o If(pagesize = 2048, Addr(0))
<1>0. pg \in Int
  BY PageNumbers
<1> HIDE DEF pg
<1>1. items \in Layout
  BY AllOfLayout
<1> HIDE DEF items
<1>2. pagesize # 4096 => Columns(c) /\ ~ReadsAlone(c)
  <2>1. Cmd("SEQIN") \in Seq(Cycles) /\ "SEQIN" \in Opens /\ 0 \in Int
    BY Signals DEF Opens
  <2>2. ASSUME pagesize = 512 PROVE Columns(c) /\ ~ReadsAlone(c)
    <3> DEFINE d == Cmd("READA") \o Cmd("SEQIN") \o Addr(0)
    <3>1. c = d \o If(FALSE, Addr(0))
      BY <2>2 DEF If
    <3>2. Columns(d) /\ ~ReadsAlone(d)
      BY <2>1, ColumnProgram
    <3> HIDE DEF c, d
    <3>3. d \o If(FALSE, Addr(0)) = d
      BY <3>2, EmptyIf DEF Columns
    <3>4. QED BY <3>1, <3>2, <3>3
  <2>3. ASSUME pagesize = 2048 PROVE Columns(c) /\ ~ReadsAlone(c)
    <3>1. If(pagesize # 2048, Cmd("READA")) \o Cmd("SEQIN") = Cmd("SEQIN")
      <4>1. If(pagesize # 2048, Cmd("READA")) = <<>>
        BY <2>3 DEF If
      <4>2. QED BY <2>1, <4>1
    <3>2. c = Cmd("SEQIN") \o Addr(0) \o Addr(0)
      BY <2>3, <3>1 DEF If
    <3> HIDE DEF c
    <3>3. pagesize # 512
      BY <2>3
    <3>4. QED BY <2>1, <3>2, <3>3, ColumnTwo
  <2>4. QED BY <2>2, <2>3, Ecccnt
<1> HIDE DEF c
<1> DEFINE w == Store(c, pg, items)
<1>4. pagesize # 4096 => Piece(w)
  BY <1>0, <1>1, <1>2, StorePiece
<1>5. nand_mark_badblock(b) = Enable \o w \o Status
  BY DEF nand_mark_badblock, c, items, pg
<1> HIDE DEF w
<1>6. QED BY <1>4, <1>5, WorkThenStatus

LEMMA EraseScript ==
  ASSUME pagesize \in PageSizes, NEW b \in Blocks
  PROVE  GoodScript(nand_erase_block(b))
<1> DEFINE w == Cmd("ERASE_SETUP") \o Rows(b * ppb) \o Cmd("ERASE") \o Sync
<1>1. Piece(w)
  BY PageNumbers, ErasePiece
<1>2. nand_erase_block(b) = Enable \o w \o Status
  BY DEF nand_erase_block
<1> HIDE DEF w
<1>3. QED BY <1>1, <1>2, WorkThenStatus

LEMMA QueryScript ==
  ASSUME pagesize \in PageSizes
  PROVE  GoodScript(nand_query_4740)
<1> DEFINE s == Cmd("READID") \o Addr(0)
           t == Read \o Read
<1>1. /\ Cmd("READID") \in Seq(Cycles) /\ Len(Cmd("READID")) = 1
      /\ Cmd("READID")[1] = [do |-> "cmd", arg |-> "READID"]
      /\ Addr(0) \in Seq(Cycles) /\ Len(Addr(0)) = 1 /\ Addr(0)[1] = [do |-> "addr", arg |-> 0]
      /\ Read \in Seq(Cycles) /\ Len(Read) = 1 /\ Read[1] = [do |-> "read", arg |-> 0]
  BY Signals DEF Opens
<1>2. /\ s \in Seq(Cycles) /\ Len(s) = 2 /\ DOMAIN s = 1..2 /\ s # <<>>
      /\ s[1] = [do |-> "cmd", arg |-> "READID"] /\ s[2] = [do |-> "addr", arg |-> 0]
  BY <1>1, JoinTwo
<1>3. nand_query_4740 = s \o t
  BY <1>1, <1>2, ConcatAssociative DEF nand_query_4740
<1>4. /\ t \in Seq(Cycles) /\ Len(t) = 2 /\ DOMAIN t = 1..2 /\ t # <<>>
      /\ t[1] = [do |-> "read", arg |-> 0] /\ t[2] = [do |-> "read", arg |-> 0]
  BY <1>1, JoinTwo
<1> HIDE DEF s, t
<1>5. Addressing(s) /\ ~ReadsAlone(s)
  <2>1. \A k \in DOMAIN s : (s[k].do = "addr" \/ Opening(s[k])) /\ ~Reading(s[k])
    BY <1>2 DEF Opening, Opens, Reading
  <2>2. QED BY <1>2, <2>1 DEF Addressing, ReadsAlone
<1>6. Piece(t)
  <2>1. \A k \in DOMAIN t : t[k].do = "read"
    BY <1>4
  <2>2. QED BY <1>4, <2>1, QuietPiece
<1>7. Piece(s \o t)
  <2>1. Sound(t) /\ t[Len(t)].do = "read" /\ t[1].do = "read"
    BY <1>4, <1>6 DEF Piece
  <2>2. QED BY <1>4, <1>5, <2>1, AddressedPiece
<1>8. (s \o t)[1].do = "cmd" /\ \A k \in DOMAIN (s \o t) : (s \o t)[k].do # "select"
  <2> DEFINE u == s \o t
  <2>1. /\ DOMAIN u = 1..Len(s) + Len(t) /\ \A k \in 1..Len(s) : u[k] = s[k]
        /\ \A k \in Len(s) + 1..Len(s) + Len(t) : u[k] = t[k - Len(s)]
    <3>1. s \in Seq(Cycles) /\ t \in Seq(Cycles)
      BY <1>2, <1>4
    <3>2. QED BY <3>1, Join
  <2> HIDE DEF u
  <2>2. u[1] = s[1] /\ u[2] = s[2] /\ DOMAIN u = 1..4
    BY <1>2, <1>4, <2>1
  <2>3. u[3] = t[3 - 2] /\ u[4] = t[4 - 2]
    BY <1>2, <1>4, <2>1
  <2>4. u[3].do = "read" /\ u[4].do = "read" /\ u[1].do = "cmd" /\ u[2].do = "addr"
    BY <1>2, <1>4, <2>2, <2>3
  <2>5. QED BY <2>2, <2>4 DEF u
<1>9. QED BY <1>3, <1>7, <1>8 DEF GoodScript, Leaves, Piece

-----------------------------------------------------------------------------
(* The steps that are no cycle of the bus.                                 *)

LEMMA CallKeeps ==
  ASSUME FlashInv, NEW op, NEW x, NEW cycles, GoodScript(cycles), Call(op, x, cycles)
  PROVE  FlashInv'
<1>1. /\ UNCHANGED <<pagesize, cells, chip, selected, waiting, timeout, got>>
      /\ serving = <<>> /\ serving' = <<op, x>> /\ script' = cycles
  BY DEF Call
<1>2. script = <<>> /\ ~selected /\ chip.pin = "ready" /\ waiting = "busy"
  BY <1>1 DEF FlashInv, Leaves, WorksWhileWaiting, Ahead, FlashTypes
<1>3. ~Ahead("addr")' /\ ~Ahead("write")'
  <2>1. script' \in Seq(Cycles) /\ script' # <<>> /\ script'[1].do \in {"select", "cmd"}
    BY <1>1 DEF GoodScript, Sound
  <2>2. QED BY <2>1 DEF Ahead
<1>4. ecccnt' = ecccnt /\ Layout' = Layout
  BY <1>1 DEF ecccnt, Layout
<1>5. FlashTypes'
  BY <1>1, <1>4 DEF FlashInv, FlashTypes
<1>6. Sound(script)' /\ Leaves(script, selected)'
  <2>1. Sound(cycles) /\ Leaves(cycles, FALSE)
    BY DEF GoodScript
  <2>2. StartsThenWaits(script)' /\ AddressBehindOpening(script)' /\ RowThenWaits(script)'
    BY <1>1, <2>1 DEF Sound, StartsThenWaits, AddressBehindOpening, RowThenWaits
  <2>3. PageBehindAddress(script)'
    BY <1>1, <1>4, <2>1 DEF Sound, PageBehindAddress
  <2>4. QED BY <1>1, <1>2, <2>1, <2>2, <2>3 DEF Sound, Leaves
<1>7. WorksWhileWaiting' /\ AddressFits'
  BY <1>1, <1>2, <1>3 DEF WorksWhileWaiting, AddressFits
<1>8. DataFits'
  BY <1>1, <1>3, <1>4 DEF DataFits, FlashInv
<1>9. serving' # <<>>
  BY <1>1
<1>10. QED BY <1>5, <1>6, <1>7, <1>8, <1>9 DEF FlashInv

LEMMA CallsKeep ==
  ASSUME FlashInv, calls_driver
  PROVE  FlashInv'
<1> pagesize \in PageSizes
  BY DEF FlashInv, FlashTypes
<1>1. CASE Call("query", 0, nand_query_4740)
  BY <1>1, QueryScript, CallKeeps
<1>2. CASE \E pg \in FlashPages : Call("read", pg, nand_read_page(pg))
  BY <1>2, PageNumbers, ReadPagePiece, CallKeeps
<1>3. CASE \E pg \in FlashPages, v \in Contents : Call("program", pg, nand_program_page(v, pg))
  BY <1>3, PageNumbers, ProgramScript, CallKeeps
<1>4. CASE \E b \in Blocks : Call("check", b, nand_check_badblock(b))
  <2>1. PICK b \in Blocks : Call("check", b, nand_check_badblock(b))
    BY <1>4
  <2>2. GoodScript(nand_check_badblock(b))
    BY PageNumbers, OobPiece, DisabledAtEnd DEF nand_check_badblock
  <2>3. QED BY <2>1, <2>2, CallKeeps
<1>5. CASE \E b \in Blocks : Call("erase", b, nand_erase_block(b))
  BY <1>5, EraseScript, CallKeeps
<1>6. CASE pagesize # 4096 /\ \E b \in Blocks : Call("mark", b, nand_mark_badblock(b))
  BY <1>6, MarkScript, CallKeeps
<1>7. QED BY <1>1, <1>2, <1>3, <1>4, <1>5, <1>6 DEF calls_driver

\* The chip by itself: what it keeps of its latches, and the pages' layout.
LEMMA ChipKeepsInv ==
  ASSUME FlashInv, UnchangedDriver, cells' \in [FlashPages -> Layout], chip' \in Chips,
         chip'.cmd = chip.cmd, chip'.addr = chip.addr, chip'.data = chip.data,
         \/ chip'.pin = chip.pin
         \/ chip'.pin = "busy" /\ chip.pin = "soon"
         \/ chip'.pin = "ready"
  PROVE  FlashInv'
<1>1. UNCHANGED <<pagesize, selected, serving, script, waiting, timeout, got>>
  BY DEF UnchangedDriver
<1>2. /\ ecccnt' = ecccnt /\ Layout' = Layout /\ (Hears' <=> Hears) /\ \A d : Ahead(d)' <=> Ahead(d)
  BY <1>1 DEF ecccnt, Layout, Hears, Ahead
<1>3. FlashTypes'
  BY <1>1, <1>2 DEF FlashInv, FlashTypes
<1>4. WorksWhileWaiting'
  BY <1>1, <1>2 DEF FlashInv, WorksWhileWaiting
<1>5. AddressFits' /\ DataFits'
  BY <1>1, <1>2 DEF FlashInv, AddressFits, DataFits
<1>6. Sound(script)' /\ Leaves(script, selected)'
  <2>1. StartsThenWaits(script)' /\ AddressBehindOpening(script)' /\ RowThenWaits(script)'
    BY <1>1 DEF FlashInv, Sound, StartsThenWaits, AddressBehindOpening, RowThenWaits
  <2>2. PageBehindAddress(script)'
    BY <1>1, <1>2 DEF FlashInv, Sound, PageBehindAddress
  <2>3. QED BY <1>1, <2>1, <2>2 DEF FlashInv, Sound
<1>7. QED BY <1>1, <1>3, <1>4, <1>5, <1>6 DEF FlashInv

LEMMA LayoutFacts ==
  ASSUME pagesize \in PageSizes, NEW page \in Layout
  PROVE  /\ page \in Seq(Items) /\ Len(page) = ecccnt + 1 /\ Spare(page) \in Items
         /\ Spare(page).ff \in BOOLEAN /\ Len(Spare(page).par) = ecccnt /\ ecccnt \in Nat \ {0}
         /\ \A i \in 1..ecccnt + 1 : page[i] \in Items
<1> ecccnt \in Nat \ {0}
  BY Ecccnt
<1>1. page \in Seq(Items) /\ Len(page) = ecccnt + 1 /\ Len(page[ecccnt + 1].par) = ecccnt
  BY DEF Layout
<1>2. \A i \in 1..ecccnt + 1 : page[i] \in Items
  BY <1>1
<1>3. page[ecccnt + 1] \in Items
  BY <1>2
<1>4. QED BY <1>1, <1>2, <1>3 DEF Spare, Items

\* A page with one item changed, its parities left alone.
LEMMA ChangedItem ==
  ASSUME pagesize \in PageSizes, NEW page \in Layout, NEW i \in 1..ecccnt + 1, NEW x \in Items,
         i = ecccnt + 1 => Len(x.par) = ecccnt
  PROVE  [page EXCEPT ![i] = x] \in Layout
<1>1. /\ page \in Seq(Items) /\ Len(page) = ecccnt + 1 /\ ecccnt \in Nat \ {0}
      /\ Len(page[ecccnt + 1].par) = ecccnt
  BY LayoutFacts DEF Spare
<1> DEFINE new == [page EXCEPT ![i] = x]
<1>2. new \in Seq(Items) /\ Len(new) = ecccnt + 1
  BY <1>1
<1>3. new[ecccnt + 1] = IF i = ecccnt + 1 THEN x ELSE page[ecccnt + 1]
  BY <1>1
<1>4. QED BY <1>1, <1>2, <1>3 DEF Layout

LEMMA ProgrammedLayout ==
  ASSUME FlashInv, NEW page \in Layout
  PROVE  Programmed(page) \in Layout
<1> pagesize \in PageSizes
  BY DEF FlashInv, FlashTypes
<1>1. Rubbish(page) \in Layout
  BY LayoutFacts, AllOfLayout DEF Rubbish
<1>2. CASE Len(chip.data) = ecccnt + 1
  <2>1. ecccnt \in Nat \ {0} /\ chip.data \in Layout
    <3>1. ecccnt \in Nat \ {0} /\ Len(chip.data) >= ecccnt + 1
      BY <1>2, Ecccnt
    <3>2. QED BY <1>2, <3>1, ChipTypes DEF FlashInv, DataFits, Layout
  <2>2. [chip.data EXCEPT ![ecccnt + 1].ff = @ /\ Spare(page).ff] \in Layout
    <3> DEFINE o == chip.data[ecccnt + 1]
               x == [o EXCEPT !.ff = @ /\ Spare(page).ff]
    <3>1. o \in Items /\ Len(o.par) = ecccnt
      BY <2>1, LayoutFacts DEF Spare
    <3>2. x \in Items /\ x.par = o.par
      BY <3>1 DEF Items
    <3>3. ecccnt + 1 \in 1..ecccnt + 1
      BY <2>1
    <3> HIDE DEF o
    <3>4. [chip.data EXCEPT ![ecccnt + 1] = x] \in Layout
      BY <2>1, <3>1, <3>2, <3>3, ChangedItem
    <3>5. QED BY <3>4 DEF o
  <2>3. QED BY <1>1, <2>1, <2>2 DEF Programmed
<1>3. CASE Len(chip.data) # ecccnt + 1
  BY <1>1, <1>3 DEF Programmed
<1>4. QED BY <1>2, <1>3

LEMMA WorkKeeps ==
  ASSUME FlashInv, chip_gets_ready
  PROVE  FlashInv'
<1> pagesize \in PageSizes
  BY DEF FlashInv, FlashTypes
<1>1. UnchangedDriver /\ chip \in Chips /\ cells \in [FlashPages -> Layout]
  BY DEF chip_gets_ready, FlashInv, FlashTypes
<1>2. CASE chip_reads
  <2> DEFINE page == IF RowOf \in FlashPages THEN cells[RowOf] ELSE AllOf("??", FALSE)
             r == IF Column = 0 THEN page ELSE <<Spare(page)>>
  <2>1. chip' = [chip EXCEPT !.pin = "ready", !.reg = r] /\ cells' = cells
    BY <1>2 DEF chip_reads
  <2>2. page \in Layout
    BY <1>1, AllOfLayout
  <2>3. r \in Seq(Items)
    <3> HIDE DEF page
    <3>1. page \in Seq(Items) /\ Spare(page) \in Items
      BY <2>2, LayoutFacts
    <3>2. QED BY <3>1
  <2> HIDE DEF r
  <2>4. /\ chip' \in Chips /\ chip'.pin = "ready" /\ chip'.cmd = chip.cmd /\ chip'.addr = chip.addr
        /\ chip'.data = chip.data
    BY <1>1, <2>1, <2>3 DEF Chips
  <2>5. QED BY <1>1, <2>1, <2>4, ChipKeepsInv
<1>3. CASE chip_programs
  <2>1. PICK fail \in 0..1, kept \in BOOLEAN :
          /\ chip' = [chip EXCEPT !.pin = "ready", !.fail = fail]
          /\ cells' = [pg \in FlashPages |->
                         IF pg # RowOf THEN cells[pg]
                         ELSE IF fail = 0 THEN Programmed(cells[pg])
                         ELSE AllOf("??", Spare(cells[pg]).ff /\ (kept \/ Spare(chip.data).ff))]
    BY <1>3 DEF chip_programs
  <2>2. /\ chip' \in Chips /\ chip'.pin = "ready" /\ chip'.cmd = chip.cmd /\ chip'.addr = chip.addr
        /\ chip'.data = chip.data
    BY <1>1, <2>1 DEF Chips
  <2>3. cells' \in [FlashPages -> Layout]
    <3>1. ASSUME NEW pg \in FlashPages
          PROVE  /\ cells[pg] \in Layout /\ Programmed(cells[pg]) \in Layout
                 /\ AllOf("??", Spare(cells[pg]).ff /\ (kept \/ Spare(chip.data).ff)) \in Layout
      <4>1. cells[pg] \in Layout
        BY <1>1
      <4>2. (Spare(cells[pg]).ff /\ (kept \/ Spare(chip.data).ff)) \in BOOLEAN
        OBVIOUS
      <4>3. QED BY <4>1, <4>2, ProgrammedLayout, AllOfLayout
    <3>2. QED BY <2>1, <3>1
  <2>4. QED BY <1>1, <2>2, <2>3, ChipKeepsInv
<1>4. CASE chip_erases
  <2>1. PICK fail \in 0..1 :
          /\ chip' = [chip EXCEPT !.pin = "ready", !.fail = fail]
          /\ cells' = [pg \in FlashPages |->
                         IF fail = 0 /\ pg \in RowOf..RowOf + ppb - 1 THEN AllOf("ff", TRUE) ELSE cells[pg]]
    BY <1>4 DEF chip_erases
  <2>2. /\ chip' \in Chips /\ chip'.pin = "ready" /\ chip'.cmd = chip.cmd /\ chip'.addr = chip.addr
        /\ chip'.data = chip.data
    BY <1>1, <2>1 DEF Chips
  <2>3. cells' \in [FlashPages -> Layout]
    <3>1. AllOf("ff", TRUE) \in Layout
      BY AllOfLayout
    <3>2. QED BY <1>1, <2>1, <3>1
  <2>4. QED BY <1>1, <2>2, <2>3, ChipKeepsInv
<1>5. QED BY <1>2, <1>3, <1>4 DEF chip_gets_ready

LEMMA BusyKeeps ==
  ASSUME FlashInv, chip_goes_busy
  PROVE  FlashInv'
<1>1. /\ UnchangedDriver /\ chip \in Chips /\ cells' \in [FlashPages -> Layout]
      /\ chip' = [chip EXCEPT !.pin = "busy"] /\ chip.pin = "soon"
  BY DEF chip_goes_busy, FlashInv, FlashTypes
<1>2. /\ chip' \in Chips /\ chip'.pin = "busy" /\ chip'.cmd = chip.cmd /\ chip'.addr = chip.addr
      /\ chip'.data = chip.data
  BY <1>1 DEF Chips
<1>3. QED BY <1>1, <1>2, ChipKeepsInv

LEMMA DecayKeeps ==
  ASSUME FlashInv, page_decays
  PROVE  FlashInv'
<1> pagesize \in PageSizes
  BY DEF FlashInv, FlashTypes
<1>1. chip' = chip /\ UnchangedDriver /\ chip \in Chips /\ cells \in [FlashPages -> Layout]
  BY DEF page_decays, FlashInv, FlashTypes
<1>2. PICK pg \in FlashPages, i \in {1, ecccnt}, n \in {4, 5} : cells' = [cells EXCEPT ![pg][i].flips = n]
  BY DEF page_decays
<1> DEFINE page == cells[pg]
           x == [page[i] EXCEPT !.flips = n]
<1>3. page \in Layout /\ i \in 1..ecccnt + 1 /\ i # ecccnt + 1 /\ page[i] \in Items
  BY <1>1, LayoutFacts, Ecccnt
<1>4. x \in Items
  BY <1>3 DEF Items
<1>5. [page EXCEPT ![i] = x] \in Layout
  <2> HIDE DEF x
  <2>1. QED BY <1>3, <1>4, ChangedItem
<1>6. cells' = [cells EXCEPT ![pg] = [page EXCEPT ![i] = x]]
  BY <1>2
<1>7. cells' \in [FlashPages -> Layout]
  <2> HIDE DEF x, page
  <2>1. QED BY <1>1, <1>5, <1>6
<1>8. QED BY <1>1, <1>7, ChipKeepsInv

LEMMA ReturnKeeps ==
  ASSUME FlashInv, returns
  PROVE  FlashInv'
<1>1. /\ UNCHANGED <<pagesize, cells, chip, selected, script, waiting, timeout>>
      /\ script = <<>> /\ serving' = <<>> /\ got' = <<>>
  BY DEF returns
<1>2. /\ ecccnt' = ecccnt /\ Layout' = Layout /\ (Hears' <=> Hears) /\ \A d : ~Ahead(d)' /\ ~Ahead(d)
  BY <1>1 DEF ecccnt, Layout, Hears, Ahead
<1>3. FlashTypes'
  BY <1>1, <1>2 DEF FlashInv, FlashTypes
<1>4. WorksWhileWaiting' /\ AddressFits' /\ DataFits'
  BY <1>1, <1>2 DEF FlashInv, WorksWhileWaiting, AddressFits, DataFits
<1>5. Sound(script)' /\ Leaves(script, selected)'
  <2>1. StartsThenWaits(script)' /\ AddressBehindOpening(script)' /\ RowThenWaits(script)'
    BY <1>1 DEF FlashInv, Sound, StartsThenWaits, AddressBehindOpening, RowThenWaits
  <2>2. PageBehindAddress(script)'
    BY <1>1, <1>2 DEF FlashInv, Sound, PageBehindAddress
  <2>3. QED BY <1>1, <2>1, <2>2 DEF FlashInv, Sound
<1>6. QED BY <1>1, <1>3, <1>4, <1>5 DEF FlashInv

LEMMA StutterKeeps ==
  ASSUME FlashInv, UNCHANGED nandFlashVars
  PROVE  FlashInv'
<1>1. /\ UnchangedDriver /\ chip' = chip /\ cells' \in [FlashPages -> Layout] /\ chip' \in Chips
  BY DEF nandFlashVars, UnchangedDriver, FlashInv, FlashTypes
<1>2. QED BY <1>1, ChipKeepsInv

LEMMA FlashInitInv ==
  ASSUME FlashInit
  PROVE  FlashInv
<1> pagesize \in PageSizes
  BY DEF FlashInit
<1>1. cells \in [FlashPages -> Layout]
  <2>1. PICK bad \in SUBSET Blocks :
          cells = [pg \in FlashPages |-> AllOf("ff", \A b \in bad : pg # (b + 1) * ppb - 1)]
    BY DEF FlashInit
  <2>2. ASSUME NEW pg \in FlashPages PROVE AllOf("ff", \A b \in bad : pg # (b + 1) * ppb - 1) \in Layout
    <3>1. (\A b \in bad : pg # (b + 1) * ppb - 1) \in BOOLEAN
      OBVIOUS
    <3>2. QED BY <3>1, AllOfLayout
  <2>3. QED BY <2>1, <2>2
<1>2. chip \in Chips /\ chip.pin = "ready" /\ chip.data = <<>> /\ Len(chip.data) = 0
  <2>1. <<>> \in Seq(Int) /\ <<>> \in Seq(Items)
    OBVIOUS
  <2>2. QED BY <2>1 DEF FlashInit, Powered, Chips
<1>3. selected = FALSE /\ serving = <<>> /\ script = <<>> /\ waiting = "busy" /\ timeout = Timeout /\ got = <<>>
  BY DEF FlashInit, Powered
<1>4. FlashTypes
  <2>1. selected \in BOOLEAN /\ waiting \in {"busy", "ready"} /\ timeout \in 0..Timeout
    <3>1. timeout \in 0..Timeout
      BY <1>3, ConstantTypes
    <3>2. selected \in BOOLEAN
      BY <1>3, Zenon
    <3>3. QED BY <1>3, <3>1, <3>2
  <2>2. QED BY <1>1, <1>2, <2>1 DEF FlashTypes
<1>5. Sound(script) /\ Leaves(script, selected)
  BY <1>3 DEF Sound, StartsThenWaits, RowThenWaits, AddressBehindOpening, PageBehindAddress, Leaves
<1>6. WorksWhileWaiting /\ AddressFits
  BY <1>2, <1>3 DEF WorksWhileWaiting, AddressFits, Ahead
<1>7. DataFits
  BY <1>2, <1>3, Ecccnt DEF DataFits, Ahead
<1>8. QED BY <1>3, <1>4, <1>5, <1>6, <1>7 DEF FlashInv

\* The invariant is kept by every cycle of every script, and by the chip's own steps.
THEOREM FlashInvariant == FlashSpec => []FlashInv
<1>1. FlashInit => FlashInv
  BY FlashInitInv
<1>2. FlashInv /\ [FlashNext]_nandFlashVars => FlashInv'
  <2> SUFFICES ASSUME FlashInv, [FlashNext]_nandFlashVars PROVE FlashInv'
    OBVIOUS
  <2>1. CASE calls_driver
    BY <2>1, CallsKeep
  <2>2. CASE nand_cmd
    BY <2>2, CommandKeeps
  <2>3. CASE nand_addr
    BY <2>3, AddressKeeps
  <2>4. CASE write_proc
    BY <2>4, WriteKeeps
  <2>5. CASE read_proc
    BY <2>5, ReadKeeps
  <2>6. CASE nand_enable
    BY <2>6, SelectKeeps
  <2>7. CASE sync_polls \/ sync_first_ends
    BY <2>7, PollKeeps
  <2>8. CASE sync_ends
    BY <2>8, SyncEndsKeeps
  <2>9. CASE returns
    BY <2>9, ReturnKeeps
  <2>10. CASE chip_goes_busy
    BY <2>10, BusyKeeps
  <2>11. CASE chip_gets_ready
    BY <2>11, WorkKeeps
  <2>12. CASE page_decays
    BY <2>12, DecayKeeps
  <2>13. CASE Ended \/ UNCHANGED nandFlashVars
    BY <2>13, StutterKeeps DEF Ended
  <2>14. QED
    BY <2>1, <2>2, <2>3, <2>4, <2>5, <2>6, <2>7, <2>8, <2>9, <2>10, <2>11, <2>12, <2>13 DEF FlashNext
<1>3. QED BY <1>1, <1>2, PTL DEF FlashSpec

\* No command, address or datum is put on the bus while the chip works, each
\* page keeps its layout, and a call that is over leaves the chip disabled and
\* idle: whatever the pages, the row cycles and the time the pin takes to fall
\* (lines 40 to 51 and 59 to 470).
THEOREM DriverStateCorrect == FlashSpec => []DriverStateOK
<1>1. FlashInv => DriverStateOK
  <2> SUFFICES ASSUME FlashInv PROVE DriverStateOK
    OBVIOUS
  <2>1. DOMAIN cells = FlashPages
    BY DEF FlashInv, FlashTypes
  <2>2. \A pg \in FlashPages : Len(cells[pg]) = ecccnt + 1 /\ Len(Spare(cells[pg]).par) = ecccnt
    BY LayoutFacts DEF FlashInv, FlashTypes
  <2>3. chip.fail \in 0..1 /\ chip.pin \in {"ready", "soon", "busy"}
    BY DEF FlashInv, FlashTypes, Chips
  <2>4. serving = <<>> => script = <<>> /\ got = <<>> /\ ~selected /\ chip.pin = "ready"
    BY DEF FlashInv, Leaves, WorksWhileWaiting, Ahead
  <2>5. DriverTypeOK
    BY <2>1, <2>2, <2>3, <2>4 DEF DriverTypeOK, FlashInv, FlashTypes
  <2>6. QuietWhileBusy
    BY DEF QuietWhileBusy, FlashInv, WorksWhileWaiting, Ahead
  <2>7. QED BY <2>5, <2>6 DEF DriverStateOK
<1>2. QED BY <1>1, FlashInvariant, PTL

-----------------------------------------------------------------------------
(* The driver implements FlashOps.                                         *)

RowBytes(pg) == [k \in 1..row |-> rowaddr(pg)[k - 1] % 256]

\* Cycles that send the bytes b, or the items d, or read n times.
Addrs(b)  == [k \in 1..Len(b) |-> Addr(b[k])[1]]
Writes(d) == [k \in 1..Len(d) |-> Write(d[k])[1]]
Reads(n)  == [k \in 1..n |-> Read[1]]

LEMMA AsFunction ==
  ASSUME NEW S, NEW s \in Seq(S)
  PROVE  s = [k \in 1..Len(s) |-> s[k]]
  OBVIOUS

LEMMA FirstOf ==
  ASSUME NEW S, NEW s \in Seq(S), NEW t \in Seq(S), s # <<>>
  PROVE  /\ s \o t # <<>> /\ Head(s \o t) = Head(s) /\ Tail(s \o t) = Tail(s) \o t
         /\ Tail(s) \in Seq(S) /\ Head(s) \in S /\ s \o t \in Seq(S)
<1> DEFINE u == s \o t
<1>1. Len(s) \in Nat \ {0} /\ Len(t) \in Nat /\ DOMAIN s = 1..Len(s) /\ DOMAIN t = 1..Len(t)
  OBVIOUS
<1>2. /\ u \in Seq(S) /\ Len(u) = Len(s) + Len(t)
      /\ \A k \in 1..Len(s) : u[k] = s[k]
      /\ \A k \in 1..Len(t) : u[Len(s) + k] = t[k]
  BY Join
<1> HIDE DEF u
<1>3. u # <<>> /\ Head(u) = u[1] /\ Head(s) = s[1] /\ s[1] \in S
  BY <1>1, <1>2
<1>4. /\ Tail(u) \in Seq(S) /\ Len(Tail(u)) = Len(u) - 1
      /\ \A k \in 1..Len(u) - 1 : Tail(u)[k] = u[k + 1]
  BY <1>2, <1>3, TailOfScript
<1>5. /\ Tail(s) \in Seq(S) /\ Len(Tail(s)) = Len(s) - 1
      /\ \A k \in 1..Len(s) - 1 : Tail(s)[k] = s[k + 1]
  BY TailOfScript
<1> DEFINE v == Tail(s) \o t
<1>6. /\ v \in Seq(S) /\ Len(v) = Len(s) - 1 + Len(t)
      /\ \A k \in 1..Len(s) - 1 : v[k] = Tail(s)[k]
      /\ \A k \in 1..Len(t) : v[Len(s) - 1 + k] = t[k]
  BY <1>5, Join
<1> HIDE DEF v
<1>7. ASSUME NEW k \in 1..Len(u) - 1 PROVE Tail(u)[k] = v[k]
  <2>1. CASE k <= Len(s) - 1
    BY <1>1, <1>2, <1>4, <1>5, <1>6, <2>1
  <2>2. CASE k > Len(s) - 1
    <3>1. k - (Len(s) - 1) \in 1..Len(t) /\ k + 1 = Len(s) + (k - (Len(s) - 1))
          /\ k = Len(s) - 1 + (k - (Len(s) - 1))
      BY <1>1, <1>2, <2>2
    <3> DEFINE i == k - (Len(s) - 1)
    <3>2. u[Len(s) + i] = t[i] /\ v[Len(s) - 1 + i] = t[i]
      <4> HIDE DEF i
      <4>1. i \in 1..Len(t)
        BY <3>1 DEF i
      <4>2. QED BY <1>2, <1>6, <4>1
    <3>3. Tail(u)[k] = u[k + 1]
      BY <1>4
    <3>4. QED BY <3>1, <3>2, <3>3
  <2>3. QED BY <1>1, <1>2, <2>1, <2>2
<1>8. Tail(u) = v
  <2>1. Len(Tail(u)) = Len(v) /\ DOMAIN Tail(u) = 1..Len(u) - 1 /\ DOMAIN v = 1..Len(u) - 1
    BY <1>1, <1>2, <1>4, <1>6
  <2>2. QED BY <1>4, <1>6, <1>7, <2>1
<1>9. QED BY <1>2, <1>3, <1>5, <1>8 DEF u, v

LEMMA NothingBefore ==
  ASSUME NEW S, NEW s \in Seq(S)
  PROVE  <<>> \o s = s /\ s \o <<>> = s
  OBVIOUS

LEMMA OneBefore ==
  ASSUME NEW S, NEW c \in S, NEW s \in Seq(S)
  PROVE  /\ <<c>> \o s \in Seq(S) /\ <<c>> \o s # <<>> /\ Head(<<c>> \o s) = c /\ Tail(<<c>> \o s) = s
<1>1. <<c>> \in Seq(S) /\ <<c>> # <<>> /\ Head(<<c>>) = c /\ Tail(<<c>>) = <<>>
  OBVIOUS
<1>2. QED BY <1>1, FirstOf, NothingBefore

LEMMA Splits ==
  ASSUME NEW S, NEW s \in Seq(S), NEW t \in Seq(S), s # <<>>
  PROVE  /\ s \o t = <<Head(s)>> \o (Tail(s) \o t) /\ Tail(s) \o t \in Seq(S)
         /\ Head(s) \in S /\ Tail(s) \in Seq(S)
<1>1. Head(s) \in S /\ Tail(s) \in Seq(S) /\ <<Head(s)>> \in Seq(S)
  BY HeadTailProperties
<1>2. s = <<Head(s)>> \o Tail(s)
  OBVIOUS
<1>3. (<<Head(s)>> \o Tail(s)) \o t = <<Head(s)>> \o (Tail(s) \o t)
  BY <1>1, ConcatAssociative
<1>4. Tail(s) \o t \in Seq(S)
  BY <1>1, Join
<1>5. QED BY <1>1, <1>2, <1>3, <1>4

LEMMA EmptyHasNone ==
  ASSUME NEW S, NEW s \in Seq(S)
  PROVE  Len(s) \in Nat /\ (s = <<>> <=> Len(s) = 0)
  OBVIOUS

\* The cycles that send a sequence, one after the other.
LEMMA AddrsFirst ==
  ASSUME NEW b \in Seq(Int)
  PROVE  /\ Addrs(b) \in Seq(Cycles) /\ (b = <<>> => Addrs(b) = <<>>)
         /\ b # <<>> => /\ Addrs(b) # <<>> /\ Head(Addrs(b)) = [do |-> "addr", arg |-> Head(b)]
                        /\ Tail(Addrs(b)) = Addrs(Tail(b)) /\ Head(b) \in Int /\ Tail(b) \in Seq(Int)
<1>1. Len(b) \in Nat /\ \A k \in 1..Len(b) : b[k] \in Int
  OBVIOUS
<1>2. \A k \in 1..Len(b) : Addr(b[k])[1] = [do |-> "addr", arg |-> b[k]] /\ Addr(b[k])[1] \in Cycles
  <2> TAKE k \in 1..Len(b)
  <2>1. b[k] \in Int
    BY <1>1
  <2> DEFINE x == b[k]
  <2> HIDE DEF x
  <2>2. x \in Int => Addr(x)[1] = [do |-> "addr", arg |-> x] /\ [do |-> "addr", arg |-> x] \in Cycles
    BY DEF Addr, Cycles
  <2>3. QED BY <2>1, <2>2 DEF x
<1>3. Addrs(b) \in Seq(Cycles) /\ Len(Addrs(b)) = Len(b) /\ \A k \in 1..Len(b) : Addrs(b)[k] = Addr(b[k])[1]
  <2>1. Addrs(b) \in [1..Len(b) -> Cycles] /\ \A k \in 1..Len(b) : Addrs(b)[k] = Addr(b[k])[1]
    BY <1>2 DEF Addrs
  <2>2. QED BY <1>1, <2>1
<1>4. b = <<>> => Addrs(b) = <<>>
  BY <1>3
<1>5. ASSUME b # <<>>
      PROVE  /\ Addrs(b) # <<>> /\ Head(Addrs(b)) = [do |-> "addr", arg |-> Head(b)]
             /\ Tail(Addrs(b)) = Addrs(Tail(b)) /\ Head(b) \in Int /\ Tail(b) \in Seq(Int)
  <2>1. Len(b) \in Nat \ {0} /\ 1 \in 1..Len(b) /\ Head(b) = b[1]
    BY <1>1, <1>5
  <2>2. /\ Tail(b) \in Seq(Int) /\ Len(Tail(b)) = Len(b) - 1 /\ \A k \in 1..Len(b) - 1 : Tail(b)[k] = b[k + 1]
    BY <1>5, TailOfScript
  <2>3. Addrs(b) # <<>> /\ Head(Addrs(b)) = Addrs(b)[1]
    BY <1>3, <2>1
  <2>4. /\ Tail(Addrs(b)) \in Seq(Cycles) /\ Len(Tail(Addrs(b))) = Len(b) - 1
        /\ \A k \in 1..Len(b) - 1 : Tail(Addrs(b))[k] = Addrs(b)[k + 1]
    BY <1>3, <2>3, TailOfScript
  <2>5. Addrs(Tail(b)) = [k \in 1..Len(b) - 1 |-> Addr(Tail(b)[k])[1]]
    BY <2>2 DEF Addrs
  <2>6. \A k \in 1..Len(b) - 1 : Tail(Addrs(b))[k] = Addr(Tail(b)[k])[1]
    BY <1>3, <2>1, <2>2, <2>4
  <2>7. Tail(Addrs(b)) = [k \in 1..Len(b) - 1 |-> Addr(Tail(b)[k])[1]]
    <3>1. Tail(Addrs(b)) = [k \in 1..Len(b) - 1 |-> Tail(Addrs(b))[k]]
      BY <2>4, AsFunction
    <3>2. QED BY <2>6, <3>1
  <2>8. QED BY <1>1, <1>2, <1>3, <2>1, <2>2, <2>3, <2>5, <2>7
<1>6. QED BY <1>3, <1>4, <1>5

LEMMA WritesFirst ==
  ASSUME NEW d \in Seq(Items)
  PROVE  /\ Writes(d) \in Seq(Cycles) /\ (d = <<>> => Writes(d) = <<>>)
         /\ d # <<>> => /\ Writes(d) # <<>> /\ Head(Writes(d)) = [do |-> "write", arg |-> Head(d)]
                        /\ Tail(Writes(d)) = Writes(Tail(d)) /\ Head(d) \in Items /\ Tail(d) \in Seq(Items)
<1>1. Len(d) \in Nat /\ \A k \in 1..Len(d) : d[k] \in Items
  OBVIOUS
<1>2. \A k \in 1..Len(d) : Write(d[k])[1] = [do |-> "write", arg |-> d[k]] /\ Write(d[k])[1] \in Cycles
  <2> TAKE k \in 1..Len(d)
  <2>1. d[k] \in Items
    BY <1>1
  <2> DEFINE x == d[k]
  <2> HIDE DEF x
  <2>2. x \in Items => Write(x)[1] = [do |-> "write", arg |-> x] /\ [do |-> "write", arg |-> x] \in Cycles
    BY DEF Write, Cycles
  <2>3. QED BY <2>1, <2>2 DEF x
<1>3. Writes(d) \in Seq(Cycles) /\ Len(Writes(d)) = Len(d) /\ \A k \in 1..Len(d) : Writes(d)[k] = Write(d[k])[1]
  <2>1. Writes(d) \in [1..Len(d) -> Cycles] /\ \A k \in 1..Len(d) : Writes(d)[k] = Write(d[k])[1]
    BY <1>2 DEF Writes
  <2>2. QED BY <1>1, <2>1
<1>4. d = <<>> => Writes(d) = <<>>
  BY <1>3
<1>5. ASSUME d # <<>>
      PROVE  /\ Writes(d) # <<>> /\ Head(Writes(d)) = [do |-> "write", arg |-> Head(d)]
             /\ Tail(Writes(d)) = Writes(Tail(d)) /\ Head(d) \in Items /\ Tail(d) \in Seq(Items)
  <2>1. Len(d) \in Nat \ {0} /\ 1 \in 1..Len(d) /\ Head(d) = d[1]
    BY <1>1, <1>5
  <2>2. /\ Tail(d) \in Seq(Items) /\ Len(Tail(d)) = Len(d) - 1 /\ \A k \in 1..Len(d) - 1 : Tail(d)[k] = d[k + 1]
    BY <1>5, TailOfScript
  <2>3. Writes(d) # <<>> /\ Head(Writes(d)) = Writes(d)[1]
    BY <1>3, <2>1
  <2>4. /\ Tail(Writes(d)) \in Seq(Cycles) /\ Len(Tail(Writes(d))) = Len(d) - 1
        /\ \A k \in 1..Len(d) - 1 : Tail(Writes(d))[k] = Writes(d)[k + 1]
    BY <1>3, <2>3, TailOfScript
  <2>5. Writes(Tail(d)) = [k \in 1..Len(d) - 1 |-> Write(Tail(d)[k])[1]]
    BY <2>2 DEF Writes
  <2>6. \A k \in 1..Len(d) - 1 : Tail(Writes(d))[k] = Write(Tail(d)[k])[1]
    BY <1>3, <2>1, <2>2, <2>4
  <2>7. Tail(Writes(d)) = [k \in 1..Len(d) - 1 |-> Write(Tail(d)[k])[1]]
    <3>1. Tail(Writes(d)) = [k \in 1..Len(d) - 1 |-> Tail(Writes(d))[k]]
      BY <2>4, AsFunction
    <3>2. QED BY <2>6, <3>1
  <2>8. QED BY <1>1, <1>2, <1>3, <2>1, <2>2, <2>3, <2>5, <2>7
<1>6. QED BY <1>3, <1>4, <1>5

LEMMA ReadsFirst ==
  ASSUME NEW n \in Nat
  PROVE  /\ Reads(n) \in Seq(Cycles) /\ (n = 0 => Reads(n) = <<>>)
         /\ n # 0 => Reads(n) # <<>> /\ Head(Reads(n)) = [do |-> "read", arg |-> 0]
                     /\ Tail(Reads(n)) = Reads(n - 1)
<1>1. Read[1] = [do |-> "read", arg |-> 0] /\ Read[1] \in Cycles
  BY Signals
<1>2. Reads(n) \in Seq(Cycles) /\ Len(Reads(n)) = n /\ \A k \in 1..n : Reads(n)[k] = Read[1]
  BY <1>1 DEF Reads
<1>3. n = 0 => Reads(n) = <<>>
  BY <1>2
<1>4. ASSUME n # 0
      PROVE  Reads(n) # <<>> /\ Head(Reads(n)) = Read[1] /\ Tail(Reads(n)) = Reads(n - 1)
  <2>1. Reads(n) # <<>> /\ Head(Reads(n)) = Reads(n)[1] /\ 1 \in 1..n
    BY <1>2, <1>4
  <2>2. /\ Tail(Reads(n)) \in Seq(Cycles) /\ Len(Tail(Reads(n))) = n - 1
        /\ \A k \in 1..n - 1 : Tail(Reads(n))[k] = Reads(n)[k + 1]
    BY <1>2, <2>1, TailOfScript
  <2>3. \A k \in 1..n - 1 : Tail(Reads(n))[k] = Read[1]
    BY <1>2, <2>2
  <2>4. Tail(Reads(n)) = [k \in 1..n - 1 |-> Read[1]]
    <3>1. Tail(Reads(n)) = [k \in 1..n - 1 |-> Tail(Reads(n))[k]]
      BY <2>2, AsFunction
    <3>2. QED BY <2>3, <3>1
  <2>5. QED BY <1>2, <2>1, <2>4 DEF Reads
<1>5. QED BY <1>1, <1>2, <1>3, <1>4

LEMMA RowBytesType ==
  ASSUME NEW pg \in Int
  PROVE  /\ RowBytes(pg) \in Seq(Int) /\ Len(RowBytes(pg)) = row /\ Addrs(RowBytes(pg)) = Rows(pg)
         /\ \A k \in 1..row : RowBytes(pg)[k] = rowaddr(pg)[k - 1] % 256
<1>1. ASSUME NEW k \in 1..row PROVE rowaddr(pg)[k - 1] % 256 \in Int
  <2>1. k - 1 \in 0..row
    BY ConstantTypes
  <2>2. rowaddr(pg)[k - 1] \in Int
    BY <2>1, ShiftsAreNumbers
  <2>3. QED BY <2>2
<1>2. RowBytes(pg) \in [1..row -> Int] /\ \A k \in 1..row : RowBytes(pg)[k] = rowaddr(pg)[k - 1] % 256
  BY <1>1 DEF RowBytes
<1>3. RowBytes(pg) \in Seq(Int) /\ Len(RowBytes(pg)) = row
  BY <1>2, ConstantTypes
<1>4. Addrs(RowBytes(pg)) = Rows(pg)
  BY <1>2, <1>3 DEF Addrs, Rows
<1>5. QED BY <1>2, <1>3, <1>4

\* The chip puts the row together that the driver took apart.
LEMMA RowIs ==
  ASSUME NEW col \in Seq(Int), NEW pg \in Int, rowaddr(pg)[row] = 0, chip.addr = col \o RowBytes(pg)
  PROVE  RowOf = pg
<1> DEFINE Is(f) == f = [k \in 0..row |-> IF k = 0 THEN 0
                                           ELSE chip.addr[Len(chip.addr) + 1 - k] + 256 * f[k - 1]]
           g == [k \in 0..row |-> rowaddr(pg)[row - k]]
           high == CHOOSE f : Is(f)
<1>1. row \in Nat \ {0} /\ Len(col) \in Nat /\ Len(chip.addr) = Len(col) + row
  <2>1. RowBytes(pg) \in Seq(Int) /\ Len(RowBytes(pg)) = row
    BY RowBytesType
  <2>2. Len(col \o RowBytes(pg)) = Len(col) + Len(RowBytes(pg)) /\ Len(col) \in Nat
    BY <2>1, Join
  <2>3. QED BY <2>1, <2>2, ConstantTypes
<1>2. ASSUME NEW k \in 1..row
      PROVE  chip.addr[Len(chip.addr) + 1 - k] = rowaddr(pg)[row - k] % 256
  <2>1. /\ row + 1 - k \in 1..row /\ (row + 1 - k) - 1 = row - k
        /\ Len(chip.addr) + 1 - k = Len(col) + (row + 1 - k)
    BY <1>1
  <2> DEFINE i == row + 1 - k
  <2>2. chip.addr[Len(col) + i] = RowBytes(pg)[i]
    <3> HIDE DEF i
    <3>1. i \in 1..Len(RowBytes(pg))
      BY <2>1, RowBytesType DEF i
    <3>2. RowBytes(pg) \in Seq(Int)
      BY RowBytesType
    <3>3. \A j \in 1..Len(RowBytes(pg)) : (col \o RowBytes(pg))[Len(col) + j] = RowBytes(pg)[j]
      BY <3>2, Join
    <3>4. QED BY <3>1, <3>3
  <2>3. RowBytes(pg)[i] = rowaddr(pg)[i - 1] % 256
    BY <2>1, RowBytesType
  <2>4. QED BY <2>1, <2>2, <2>3
<1>3. ASSUME NEW k \in 0..row PROVE g[k] = rowaddr(pg)[row - k] /\ g[k] \in Int
  <2>1. row - k \in 0..row
    BY <1>1
  <2>2. rowaddr(pg)[row - k] \in Int
    BY <2>1, ShiftsAreNumbers
  <2>3. g[k] = rowaddr(pg)[row - k]
    BY <1>3
  <2>4. QED BY <2>2, <2>3
<1>4. ASSUME NEW k \in 1..row
      PROVE  g[k] = chip.addr[Len(chip.addr) + 1 - k] + 256 * g[k - 1]
  <2>1. /\ k \in 0..row /\ k - 1 \in 0..row /\ row - (k - 1) \in 1..row
        /\ (row - (k - 1)) - 1 = row - k
    BY <1>1
  <2>2. g[k - 1] = g[k] \div 256
    <3>1. rowaddr(pg)[row - (k - 1)] = rowaddr(pg)[row - k] \div 256
      BY <2>1, ShiftedRow
    <3>2. QED BY <1>3, <2>1, <3>1
  <2>3. g[k] \in Int /\ chip.addr[Len(chip.addr) + 1 - k] = g[k] % 256
    BY <1>2, <1>3, <2>1
  <2> HIDE DEF g
  <2>4. QED BY <2>2, <2>3
<1>5. g[0] = 0 /\ g[row] = pg
  <2>1. row - 0 = row /\ row - row = 0 /\ 0 \in 0..row /\ row \in 0..row
    BY <1>1
  <2>2. QED BY <1>3, <2>1, ShiftedRow
<1>6. Is(g)
  <2>1. \A k \in 0..row : g[k] = IF k = 0 THEN 0 ELSE chip.addr[Len(chip.addr) + 1 - k] + 256 * g[k - 1]
    <3> TAKE k \in 0..row
    <3> HIDE DEF g
    <3>1. k = 0 \/ k \in 1..row
      BY <1>1
    <3>2. CASE k = 0
      BY <1>5, <3>2
    <3>3. CASE k \in 1..row
      <4>1. k # 0
        BY <3>3
      <4>2. QED BY <1>4, <3>3, <4>1
    <3>4. QED BY <3>1, <3>2, <3>3
  <2>2. g = [k \in 0..row |-> g[k]]
    OBVIOUS
  <2> HIDE DEF g
  <2> DEFINE R(k) == IF k = 0 THEN 0 ELSE chip.addr[Len(chip.addr) + 1 - k] + 256 * g[k - 1]
  <2>3. \A k \in 0..row : g[k] = R(k)
    BY <2>1
  <2>4. g = [k \in 0..row |-> R(k)]
    <3> HIDE DEF R
    <3>1. QED BY <2>2, <2>3
  <2>5. QED BY <2>4
<1>7. Is(high)
  <2> HIDE DEF Is
  <2>1. QED BY <1>6
<1>8. RowOf = high[row]
  BY DEF RowOf
<1> HIDE DEF high, g
<1>9. \A k \in 0..row : high[k] = IF k = 0 THEN 0 ELSE chip.addr[Len(chip.addr) + 1 - k] + 256 * high[k - 1]
  <2> DEFINE R(k) == IF k = 0 THEN 0 ELSE chip.addr[Len(chip.addr) + 1 - k] + 256 * high[k - 1]
  <2>1. high = [k \in 0..row |-> R(k)]
    BY <1>7
  <2> HIDE DEF R, Is
  <2>2. \A k \in 0..row : high[k] = R(k)
    BY <2>1
  <2>3. QED BY <2>2 DEF R
<1> HIDE DEF Is
<1> DEFINE T == {k \in Nat : k <= row => high[k] = g[k]}
<1>10. 0 \in T
  BY <1>1, <1>5, <1>9
<1>11. ASSUME NEW k \in T PROVE k + 1 \in T
  <2>1. SUFFICES ASSUME k + 1 <= row PROVE high[k + 1] = g[k + 1]
    OBVIOUS
  <2>2. k + 1 \in 1..row /\ k + 1 \in 0..row /\ (k + 1) - 1 = k /\ k + 1 # 0 /\ high[k] = g[k]
    BY <1>1, <2>1
  <2>3. high[k + 1] = chip.addr[Len(chip.addr) + 1 - (k + 1)] + 256 * high[k]
    <3> DEFINE i == k + 1
    <3>1. i \in 0..row /\ i # 0 /\ i - 1 = k
      BY <2>2
    <3> HIDE DEF i, T
    <3>2. high[i] = chip.addr[Len(chip.addr) + 1 - i] + 256 * high[i - 1]
      BY <1>9, <3>1
    <3>3. QED BY <3>1, <3>2 DEF i
  <2>4. g[k + 1] = chip.addr[Len(chip.addr) + 1 - (k + 1)] + 256 * g[k]
    <3> DEFINE i == k + 1
    <3>1. i \in 1..row /\ i - 1 = k
      BY <2>2
    <3> HIDE DEF i, T
    <3>2. g[i] = chip.addr[Len(chip.addr) + 1 - i] + 256 * g[i - 1]
      BY <1>4, <3>1
    <3>3. QED BY <3>1, <3>2 DEF i
  <2>5. QED BY <2>2, <2>3, <2>4
<1>12. T = Nat
  <2>1. T \in SUBSET Nat
    OBVIOUS
  <2> HIDE DEF T
  <2>2. QED BY <1>10, <1>11, <2>1, Inductive
<1>13. high[row] = g[row]
  <2>1. row \in T
    <3> HIDE DEF T
    <3>1. QED BY <1>1, <1>12
  <2>2. QED BY <1>1, <2>1
<1>14. QED BY <1>5, <1>8, <1>13

-----------------------------------------------------------------------------
(* What a step of a call is.                                               *)

Running == UNCHANGED <<pagesize, serving, before, result>>

ReadsItem ==
  IF Listens /\ chip.reg # <<>>
  THEN got' = Append(got, Head(chip.reg)) /\ chip' = [chip EXCEPT !.reg = Tail(@)]
  ELSE got' = Append(got, Oob(Same("??"), FALSE)) /\ UNCHANGED chip

LEMMA CycleStep ==
  ASSUME serving # <<>>, FlashNext, chip.pin = "ready",
         NEW c \in Cycles, NEW rest \in Seq(Cycles), script = <<c>> \o rest, c.do # "sync"
  PROVE  /\ Running /\ cells' = cells /\ script' = rest
         /\ c.do = "cmd" => chip' = Commanded(c.arg) /\ got' = got
         /\ c.do = "addr" => chip' = Addressed(c.arg) /\ got' = got
         /\ c.do = "write" => /\ got' = got
                              /\ chip' = IF Listens /\ chip.cmd = "SEQIN"
                                         THEN [chip EXCEPT !.data = Append(@, c.arg)] ELSE chip
         /\ c.do = "read" => ReadsItem
         /\ c.do = "select" => chip' = chip /\ got' = got
<1>1. script # <<>> /\ Head(script) = c /\ Tail(script) = rest
  BY OneBefore
<1>2. ~calls_driver /\ ~page_decays /\ ~Ended /\ ~returns /\ ~chip_goes_busy /\ ~chip_gets_ready
  BY <1>1 DEF calls_driver, Call, page_decays, Ended, returns, chip_goes_busy, chip_gets_ready
<1>3. ~sync_polls /\ ~sync_first_ends /\ ~sync_ends
  BY <1>1 DEF sync_polls, sync_first_ends, sync_ends, Cycle
<1>4. CASE nand_cmd
  BY <1>1, <1>4 DEF nand_cmd, Cycle, Next, arg, UnchangedCall, Running
<1>5. CASE nand_addr
  BY <1>1, <1>5 DEF nand_addr, Cycle, Next, arg, UnchangedCall, Running
<1>6. CASE write_proc
  BY <1>1, <1>6 DEF write_proc, Cycle, Next, arg, UnchangedCall, Running
<1>7. CASE read_proc
  BY <1>1, <1>7 DEF read_proc, Cycle, Next, arg, UnchangedCall, Running, ReadsItem
<1>8. CASE nand_enable
  BY <1>1, <1>8 DEF nand_enable, Cycle, Next, arg, UnchangedCall, Running
<1>9. QED BY <1>2, <1>3, <1>4, <1>5, <1>6, <1>7, <1>8 DEF FlashNext

LEMMA SyncStep ==
  ASSUME FlashInv, serving # <<>>, FlashNext, NEW rest \in Seq(Cycles), script = Sync \o rest
  PROVE  /\ Running /\ got' = got
         /\ \/ script' = script /\ chip' = chip /\ cells' = cells
            \/ script' = rest /\ chip' = chip /\ cells' = cells /\ chip.pin = "ready"
            \/ script' = script /\ chip.pin = "soon" /\ chip' = [chip EXCEPT !.pin = "busy"] /\ cells' = cells
            \/ script' = script /\ chip.pin = "busy" /\ (chip_reads \/ chip_programs \/ chip_erases)
<1> DEFINE c == [do |-> "sync", arg |-> 0]
<1>0. c \in Cycles
  BY DEF Cycles
<1>1. script # <<>> /\ Head(script) = c /\ Tail(script) = rest
  <2>1. script = <<c>> \o rest
    BY DEF Sync
  <2>2. QED BY <1>0, <2>1, OneBefore
<1>2. ~calls_driver /\ ~page_decays /\ ~Ended /\ ~returns
  BY <1>1 DEF calls_driver, Call, page_decays, Ended, returns
<1>3. ~nand_cmd /\ ~nand_addr /\ ~write_proc /\ ~read_proc /\ ~nand_enable
  <2> Head(script).do = "sync"
    BY <1>1
  <2>1. QED BY DEF nand_cmd, nand_addr, write_proc, read_proc, nand_enable, Cycle
<1>4. CASE sync_polls
  BY <1>4 DEF sync_polls, UnchangedCall, Running
<1>5. CASE sync_first_ends
  BY <1>5 DEF sync_first_ends, UnchangedCall, Running
<1>6. CASE sync_ends
  <2>1. chip.pin = "ready"
    <3>1. chip.pin \in {"ready", "soon", "busy"}
      BY ChipTypes
    <3>2. QED BY <1>6, <3>1 DEF sync_ends, FlashInv, WorksWhileWaiting
  <2>2. QED BY <1>1, <1>6, <2>1 DEF sync_ends, UnchangedCall, Running, Next
<1>7. CASE chip_goes_busy
  BY <1>7 DEF chip_goes_busy, UnchangedDriver, Running
<1>8. CASE chip_gets_ready
  BY <1>8 DEF chip_gets_ready, UnchangedDriver, Running
<1>9. QED BY <1>2, <1>3, <1>4, <1>5, <1>6, <1>7, <1>8 DEF FlashNext

LEMMA EndStep ==
  ASSUME FlashInv, serving # <<>>, FlashNext, script = <<>>
  PROVE  returns
<1>1. chip.pin = "ready"
  BY DEF FlashInv, WorksWhileWaiting, Ahead
<1>2. ~calls_driver /\ ~page_decays /\ ~Ended /\ ~chip_goes_busy /\ ~chip_gets_ready
  BY <1>1 DEF calls_driver, Call, page_decays, Ended, chip_goes_busy, chip_gets_ready
<1>3. /\ ~nand_cmd /\ ~nand_addr /\ ~write_proc /\ ~read_proc /\ ~nand_enable
      /\ ~sync_polls /\ ~sync_first_ends /\ ~sync_ends
  BY DEF nand_cmd, nand_addr, write_proc, read_proc, nand_enable, sync_polls, sync_first_ends, sync_ends, Cycle
<1>4. QED BY <1>2, <1>3 DEF FlashNext

-----------------------------------------------------------------------------
(* A job of the chip: a command that opens, the address, data, and the     *)
(* command that starts the work.                                           *)

Jobs == [cmd : {"READA", "READC", "SEQIN", "ERASE_SETUP"}, addr : Seq(Int), data : Seq(Items),
         start : Seq(Cycles)]

StartsByItself(j) == pagesize = 512 /\ j.cmd \in {"READA", "READC"}

Proper(j) ==
  /\ j \in Jobs /\ Len(j.addr) = IF j.cmd = "ERASE_SETUP" THEN row ELSE ColumnCycles + row
  /\ j.data # <<>> => j.cmd = "SEQIN"
  /\ StartsByItself(j) => j.start = <<>>
  /\ ~StartsByItself(j) => \E c : <<c, j.cmd>> \in Starts /\ j.start = Cmd(c)

AfterAddress(j, rest) == Writes(j.data) \o (j.start \o (Sync \o rest))
Sends(j, rest)        == Cmd(j.cmd) \o (Addrs(j.addr) \o AfterAddress(j, rest))

Latched(j) ==
  /\ chip.cmd = j.cmd
  /\ pagesize = 512 /\ j.cmd # "ERASE_SETUP" => chip.area = IF j.cmd = "READC" THEN "oob" ELSE "data"

JobBegins(j, rest) ==
  /\ chip.pin = "ready" /\ script = Sends(j, rest)
  /\ pagesize = 512 /\ j.cmd = "SEQIN" => chip.area = "data"

JobAddresses(j, rest) ==
  /\ chip.pin = "ready" /\ Latched(j) /\ chip.data = <<>>
  /\ \E b \in Seq(Int) : b # <<>> /\ chip.addr \o b = j.addr /\ script = Addrs(b) \o AfterAddress(j, rest)

JobWrites(j, rest) ==
  /\ chip.pin = "ready" /\ Latched(j) /\ chip.addr = j.addr
  /\ \E d \in Seq(Items) : /\ d # <<>> \/ j.start # <<>>
                           /\ chip.data \o d = j.data /\ script = Writes(d) \o (j.start \o (Sync \o rest))

JobWorks(j, rest) ==
  /\ chip.pin # "ready" /\ Latched(j) /\ chip.addr = j.addr /\ chip.data = j.data
  /\ script = Sync \o rest

InJob(j, rest) == JobBegins(j, rest) \/ JobAddresses(j, rest) \/ JobWrites(j, rest) \/ JobWorks(j, rest)

LEMMA JobScripts ==
  ASSUME NEW j, Proper(j), NEW rest \in Seq(Cycles)
  PROVE  /\ Sync \o rest \in Seq(Cycles) /\ j.start \o (Sync \o rest) \in Seq(Cycles)
         /\ AfterAddress(j, rest) \in Seq(Cycles)
         /\ Addrs(j.addr) \o AfterAddress(j, rest) \in Seq(Cycles)
         /\ [do |-> "cmd", arg |-> j.cmd] \in Cycles
         /\ Sends(j, rest) = <<[do |-> "cmd", arg |-> j.cmd]>> \o (Addrs(j.addr) \o AfterAddress(j, rest))
<1>1. j \in Jobs /\ j.addr \in Seq(Int) /\ j.data \in Seq(Items) /\ j.start \in Seq(Cycles)
  BY DEF Proper, Jobs
<1>2. Sync \in Seq(Cycles)
  BY Signals
<1>3. Addrs(j.addr) \in Seq(Cycles) /\ Writes(j.data) \in Seq(Cycles)
  BY <1>1, AddrsFirst, WritesFirst
<1>4. \A s, t \in Seq(Cycles) : s \o t \in Seq(Cycles)
  BY Join
<1>5. [do |-> "cmd", arg |-> j.cmd] \in Cycles
  BY <1>1 DEF Jobs, Cycles, Opens
<1>6. Sync \o rest \in Seq(Cycles)
  BY <1>2, <1>4
<1>7. j.start \o (Sync \o rest) \in Seq(Cycles)
  BY <1>1, <1>4, <1>6
<1>8. AfterAddress(j, rest) \in Seq(Cycles)
  BY <1>3, <1>4, <1>7 DEF AfterAddress
<1>9. Addrs(j.addr) \o AfterAddress(j, rest) \in Seq(Cycles)
  BY <1>3, <1>4, <1>8
<1>10. QED BY <1>5, <1>6, <1>7, <1>8, <1>9 DEF Sends, Cmd

LEMMA Grows ==
  ASSUME NEW S, NEW s \in Seq(S), NEW t \in Seq(S), t # <<>>
  PROVE  /\ Append(s, Head(t)) \o Tail(t) = s \o t /\ Append(s, Head(t)) \in Seq(S)
         /\ Len(Append(s, Head(t))) = Len(s) + 1
<1>1. Head(t) \in S /\ Tail(t) \in Seq(S) /\ t = <<Head(t)>> \o Tail(t)
  BY HeadTailProperties, ConcatProperties
<1>2. Append(s, Head(t)) = s \o <<Head(t)>> /\ <<Head(t)>> \in Seq(S)
  BY <1>1
<1>3. (s \o <<Head(t)>>) \o Tail(t) = s \o (<<Head(t)>> \o Tail(t))
  BY <1>1, <1>2
<1>4. QED BY <1>1, <1>2, <1>3

LEMMA BeginsStep ==
  ASSUME FlashInv, HearsDisabled, serving # <<>>, FlashNext,
         NEW j, Proper(j), NEW rest \in Seq(Cycles), JobBegins(j, rest)
  PROVE  Running /\ cells' = cells /\ got' = got /\ JobAddresses(j, rest)'
<1> DEFINE c == [do |-> "cmd", arg |-> j.cmd]
           t == Addrs(j.addr) \o AfterAddress(j, rest)
<1>1. c \in Cycles /\ t \in Seq(Cycles) /\ script = <<c>> \o t /\ c.do # "sync" /\ c.do = "cmd" /\ c.arg = j.cmd
  BY JobScripts DEF JobBegins
<1> HIDE DEF c, t
<1>2. Running /\ cells' = cells /\ script' = t /\ chip' = Commanded(j.cmd) /\ got' = got
  BY <1>1, CycleStep DEF JobBegins
<1>3. j.cmd \in Opens /\ j.cmd \in {"READA", "READC", "SEQIN", "ERASE_SETUP"} /\ j.addr \in Seq(Int)
  BY DEF Proper, Jobs, Opens
<1>4. /\ chip' = [chip EXCEPT !.cmd = j.cmd, !.addr = <<>>, !.data = <<>>, !.reg = <<>>,
                   !.area = CASE j.cmd = "READA" -> "data" [] j.cmd = "READC" -> "oob" [] OTHER -> @]
  <2>1. Listens
    BY DEF Listens, Hears, JobBegins
  <2> DEFINE m == j.cmd
  <2>2. m \in Opens /\ chip' = Commanded(m)
    BY <1>2, <1>3
  <2> HIDE DEF m
  <2>3. chip' = [chip EXCEPT !.cmd = m, !.addr = <<>>, !.data = <<>>, !.reg = <<>>,
                   !.area = CASE m = "READA" -> "data" [] m = "READC" -> "oob" [] OTHER -> @]
    BY <2>1, <2>2 DEF Commanded, Opens, Starts
  <2>4. QED BY <2>3 DEF m
<1>5. /\ chip'.cmd = j.cmd /\ chip'.addr = <<>> /\ chip'.data = <<>> /\ chip'.pin = "ready"
      /\ chip'.area = IF j.cmd = "READA" THEN "data" ELSE IF j.cmd = "READC" THEN "oob" ELSE chip.area
  BY <1>3, <1>4, ChipTypes DEF Chips, JobBegins
<1>6. pagesize' = pagesize
  BY <1>2 DEF Running
<1>7. Latched(j)'
  BY <1>3, <1>5, <1>6 DEF Latched, JobBegins
<1>8. j.addr # <<>> /\ <<>> \o j.addr = j.addr
  <2>1. Len(j.addr) # 0
    BY ConstantTypes DEF Proper, ColumnCycles
  <2>2. QED BY <1>3, <2>1
<1>9. JobAddresses(j, rest)'
  <2>1. script' = Addrs(j.addr) \o AfterAddress(j, rest)'
    BY <1>2 DEF t, AfterAddress
  <2>2. QED BY <1>3, <1>5, <1>7, <1>8, <2>1 DEF JobAddresses
<1>10. QED BY <1>2, <1>9

LEMMA AddressesMove ==
  ASSUME FlashInv, HearsDisabled, serving # <<>>, FlashNext,
         NEW j, Proper(j), NEW rest \in Seq(Cycles), JobAddresses(j, rest)
  PROVE  Running /\ cells' = cells /\ got' = got /\ InJob(j, rest)'
<1>1. PICK b \in Seq(Int) : b # <<>> /\ chip.addr \o b = j.addr /\ script = Addrs(b) \o AfterAddress(j, rest)
  BY DEF JobAddresses
<1> DEFINE c == [do |-> "addr", arg |-> Head(b)]
           t == Addrs(Tail(b)) \o AfterAddress(j, rest)
<1>2. /\ c \in Cycles /\ t \in Seq(Cycles) /\ script = <<c>> \o t
      /\ Head(b) \in Int /\ Tail(b) \in Seq(Int)
  <2>1. /\ Addrs(b) \in Seq(Cycles) /\ Addrs(b) # <<>> /\ Head(Addrs(b)) = c
        /\ Tail(Addrs(b)) = Addrs(Tail(b)) /\ Head(b) \in Int /\ Tail(b) \in Seq(Int)
    BY <1>1, AddrsFirst
  <2>2. AfterAddress(j, rest) \in Seq(Cycles)
    BY JobScripts
  <2> HIDE DEF c
  <2>3. script = <<c>> \o t /\ t \in Seq(Cycles) /\ c \in Cycles
    <3> DEFINE u == Addrs(b)
               v == AfterAddress(j, rest)
    <3>1. u \in Seq(Cycles) /\ u # <<>> /\ v \in Seq(Cycles) /\ script = u \o v /\ c = Head(u) /\ t = Tail(u) \o v
      BY <1>1, <2>1, <2>2
    <3> HIDE DEF u, v, t
    <3>2. QED BY <3>1, Splits
  <2>4. QED BY <2>1, <2>3
<1>3. c.do = "addr" /\ c.arg = Head(b)
  OBVIOUS
<1> HIDE DEF c, t
<1>4. Running /\ cells' = cells /\ script' = t /\ chip' = Addressed(Head(b)) /\ got' = got
  BY <1>2, <1>3, CycleStep DEF JobAddresses
<1>5. pagesize' = pagesize
  BY <1>4 DEF Running
<1>6. /\ j.addr \in Seq(Int) /\ j.data \in Seq(Items) /\ chip \in Chips /\ chip.addr \in Seq(Int)
      /\ chip.cmd = j.cmd /\ chip.pin = "ready" /\ chip.data = <<>>
      /\ j.cmd \in {"READA", "READC", "SEQIN", "ERASE_SETUP"}
  BY ChipTypes DEF Proper, Jobs, JobAddresses, Latched
<1> DEFINE a == Append(chip.addr, Head(b))
           n == Len(a)
<1>7. /\ a \o Tail(b) = j.addr /\ a \in Seq(Int) /\ n \in Nat /\ Len(j.addr) = n + Len(Tail(b))
      /\ Len(Tail(b)) \in Nat /\ (Tail(b) = <<>> <=> Len(Tail(b)) = 0)
  <2>1. a \o Tail(b) = chip.addr \o b /\ a \in Seq(Int)
    BY <1>1, <1>6, Grows
  <2>2. Len(a \o Tail(b)) = Len(a) + Len(Tail(b)) /\ Len(a) \in Nat /\ Len(Tail(b)) \in Nat
    BY <1>2, <2>1, Join
  <2>3. Tail(b) = <<>> <=> Len(Tail(b)) = 0
    BY <1>2, EmptyHasNone
  <2>4. QED BY <1>1, <2>1, <2>2, <2>3
<1> HIDE DEF a
<1>8. chip' = IF StartsByItself(j) /\ n = 1 + row THEN [chip EXCEPT !.addr = a, !.pin = "soon"]
              ELSE [chip EXCEPT !.addr = a]
  <2>1. Addressed(Head(b)) =
          LET ch == [chip EXCEPT !.addr = Append(@, Head(b))]
          IN IF pagesize = 512 /\ chip.cmd \in {"READA", "READC"} /\ Len(ch.addr) = 1 + row
             THEN [ch EXCEPT !.pin = "soon"] ELSE ch
    BY <1>6 DEF Addressed, Listens, Hears
  <2>2. [chip EXCEPT !.addr = Append(@, Head(b))] = [chip EXCEPT !.addr = a]
    BY <1>6 DEF a, Chips
  <2>3. [chip EXCEPT !.addr = a].addr = a /\ [[chip EXCEPT !.addr = a] EXCEPT !.pin = "soon"] = [chip EXCEPT !.addr = a, !.pin = "soon"]
    BY <1>6 DEF Chips
  <2> DEFINE ch == [chip EXCEPT !.addr = a]
  <2>4. chip' = IF StartsByItself(j) /\ Len(ch.addr) = 1 + row THEN [ch EXCEPT !.pin = "soon"] ELSE ch
    BY <1>4, <1>6, <2>1, <2>2 DEF StartsByItself
  <2>5. QED BY <2>3, <2>4
<1>9. /\ chip'.cmd = chip.cmd /\ chip'.area = chip.area /\ chip'.data = <<>> /\ chip'.addr = a
      /\ chip'.pin = IF StartsByItself(j) /\ n = 1 + row THEN "soon" ELSE "ready"
  BY <1>6, <1>8 DEF Chips
<1>10. Latched(j)'
  BY <1>5, <1>9 DEF Latched, JobAddresses
<1>11. StartsByItself(j) => (n = 1 + row <=> Tail(b) = <<>>)
  <2>1. StartsByItself(j) => Len(j.addr) = 1 + row
    BY DEF StartsByItself, Proper, ColumnCycles
  <2>2. row \in Int
    BY ConstantTypes
  <2> HIDE DEF n
  <2>3. ASSUME StartsByItself(j) PROVE n = 1 + row <=> Len(Tail(b)) = 0
    <3>1. Len(j.addr) = 1 + row /\ Len(j.addr) = n + Len(Tail(b)) /\ n \in Nat /\ Len(Tail(b)) \in Nat
      BY <1>7, <2>1, <2>3
    <3>2. \A x, y \in Nat : 1 + row = x + y => (x = 1 + row <=> y = 0)
      BY <2>2
    <3> DEFINE y == Len(Tail(b))
               l == Len(j.addr)
    <3>3. n \in Nat /\ y \in Nat /\ 1 + row = n + y
      <4>1. l = 1 + row /\ l = n + y
        BY <3>1
      <4> HIDE DEF l, y
      <4>2. 1 + row = n + y
        BY <4>1
      <4>3. QED BY <3>1, <4>2 DEF y
    <3> HIDE DEF y, l
    <3>4. n = 1 + row <=> y = 0
      BY <3>2, <3>3
    <3>5. QED BY <3>4 DEF y
  <2>4. QED BY <1>7, <2>3
<1>12. CASE Tail(b) # <<>>
  <2>1. chip'.pin = "ready"
    BY <1>9, <1>11, <1>12
  <2>2. script' = Addrs(Tail(b)) \o AfterAddress(j, rest)'
    BY <1>4 DEF t, AfterAddress
  <2>3. JobAddresses(j, rest)'
    BY <1>2, <1>7, <1>9, <1>10, <1>12, <2>1, <2>2 DEF JobAddresses
  <2>4. QED BY <1>4, <2>3 DEF InJob
<1>13. CASE Tail(b) = <<>>
  <2>1. a = j.addr
    BY <1>7, <1>13, NothingBefore
  <2>2. script' = Writes(j.data) \o (j.start \o (Sync \o rest))
    <3>1. Addrs(Tail(b)) = <<>> /\ AfterAddress(j, rest) \in Seq(Cycles)
      BY <1>2, <1>13, AddrsFirst, JobScripts
    <3>2. QED BY <1>4, <3>1, NothingBefore DEF t, AfterAddress
  <2>3. CASE StartsByItself(j)
    <3>1. j.data = <<>> /\ j.start = <<>>
      BY <2>3 DEF StartsByItself, Proper
    <3>2. script' = Sync \o rest
      <4>1. Writes(j.data) = <<>>
        BY <3>1, <1>6, WritesFirst
      <4>2. Sync \o rest \in Seq(Cycles)
        BY JobScripts
      <4>3. QED BY <2>2, <3>1, <4>1, <4>2, NothingBefore
    <3>3. JobWorks(j, rest)'
      BY <1>9, <1>10, <1>11, <1>13, <2>1, <2>3, <3>1, <3>2 DEF JobWorks
    <3>4. QED BY <1>4, <3>3 DEF InJob
  <2>4. CASE ~StartsByItself(j)
    <3>1. j.start # <<>>
      <4>1. PICK x : j.start = Cmd(x)
        BY <2>4 DEF Proper
      <4>2. QED BY <4>1 DEF Cmd
    <3>2. <<>> \o j.data = j.data
      BY <1>6, NothingBefore
    <3>3. JobWrites(j, rest)'
      BY <1>6, <1>9, <1>10, <2>1, <2>2, <2>4, <3>1, <3>2 DEF JobWrites
    <3>4. QED BY <1>4, <3>3 DEF InJob
  <2>5. QED BY <2>3, <2>4
<1>14. QED BY <1>12, <1>13

LEMMA WritesMove ==
  ASSUME FlashInv, HearsDisabled, serving # <<>>, FlashNext,
         NEW j, Proper(j), NEW rest \in Seq(Cycles), JobWrites(j, rest)
  PROVE  Running /\ cells' = cells /\ got' = got /\ InJob(j, rest)'
<1>1. PICK d \in Seq(Items) : /\ d # <<>> \/ j.start # <<>>
                             /\ chip.data \o d = j.data /\ script = Writes(d) \o (j.start \o (Sync \o rest))
  BY DEF JobWrites
<1>2. /\ j.addr \in Seq(Int) /\ j.data \in Seq(Items) /\ chip \in Chips /\ chip.data \in Seq(Items)
      /\ chip.cmd = j.cmd /\ chip.pin = "ready" /\ chip.addr = j.addr
      /\ j.cmd \in {"READA", "READC", "SEQIN", "ERASE_SETUP"} /\ Listens
  BY ChipTypes DEF Proper, Jobs, JobWrites, Latched, Listens, Hears
<1>3. /\ Sync \o rest \in Seq(Cycles) /\ j.start \o (Sync \o rest) \in Seq(Cycles)
  BY JobScripts
<1>4. CASE d # <<>>
  <2> DEFINE c == [do |-> "write", arg |-> Head(d)]
             v == j.start \o (Sync \o rest)
             t == Writes(Tail(d)) \o v
  <2>1. /\ Writes(d) \in Seq(Cycles) /\ Writes(d) # <<>> /\ Head(Writes(d)) = c
        /\ Tail(Writes(d)) = Writes(Tail(d)) /\ Head(d) \in Items /\ Tail(d) \in Seq(Items)
    BY <1>4, WritesFirst
  <2>2. c.do = "write" /\ c.arg = Head(d)
    OBVIOUS
  <2> HIDE DEF c
  <2>3. script = <<c>> \o t /\ t \in Seq(Cycles) /\ c \in Cycles
    <3> DEFINE u == Writes(d)
    <3>1. u \in Seq(Cycles) /\ u # <<>> /\ v \in Seq(Cycles) /\ script = u \o v /\ c = Head(u) /\ t = Tail(u) \o v
      BY <1>1, <1>3, <2>1
    <3> HIDE DEF u, v, t
    <3>2. QED BY <3>1, Splits
  <2> HIDE DEF t, v
  <2>4. /\ Running /\ cells' = cells /\ script' = t /\ got' = got
        /\ chip' = IF Listens /\ chip.cmd = "SEQIN" THEN [chip EXCEPT !.data = Append(@, Head(d))] ELSE chip
    BY <1>2, <2>2, <2>3, CycleStep
  <2> DEFINE a == Append(chip.data, Head(d))
  <2>5. a \o Tail(d) = j.data /\ a \in Seq(Items)
    <3>1. a \o Tail(d) = chip.data \o d /\ a \in Seq(Items)
      <4> DEFINE e == chip.data
      <4>1. e \in Seq(Items)
        BY <1>2
      <4> HIDE DEF e
      <4>2. Append(e, Head(d)) \o Tail(d) = e \o d /\ Append(e, Head(d)) \in Seq(Items)
        BY <1>4, <4>1, Grows
      <4>3. QED BY <4>2 DEF e
    <3> HIDE DEF a
    <3>2. QED BY <1>1, <3>1
  <2>6. j.cmd = "SEQIN"
    <3>1. j.data # <<>>
      <4>1. Len(chip.data \o d) = Len(chip.data) + Len(d) /\ Len(chip.data) \in Nat /\ Len(d) \in Nat
        BY <1>2, Join
      <4>2. Len(d) # 0
        BY <1>4, EmptyHasNone
      <4>3. Len(j.data) # 0
        BY <1>1, <4>1, <4>2
      <4>4. QED BY <1>2, <4>3, EmptyHasNone
    <3>2. QED BY <3>1 DEF Proper
  <2> HIDE DEF a
  <2>7. chip' = [chip EXCEPT !.data = a]
    BY <1>2, <2>4, <2>6 DEF a, Chips
  <2>8. /\ chip'.cmd = chip.cmd /\ chip'.area = chip.area /\ chip'.data = a /\ chip'.addr = chip.addr
        /\ chip'.pin = "ready"
    BY <1>2, <2>7 DEF Chips
  <2>9. j.start # <<>>
    <3>1. PICK x : j.start = Cmd(x)
      BY <2>6 DEF Proper, StartsByItself
    <3>2. QED BY <3>1 DEF Cmd
  <2>10. pagesize' = pagesize
    BY <2>4 DEF Running
  <2>11. Latched(j)'
    BY <2>8, <2>10 DEF Latched, JobWrites
  <2>12. script' = Writes(Tail(d)) \o (j.start \o (Sync \o rest))
    BY <2>4 DEF t, v
  <2>13. JobWrites(j, rest)'
    BY <1>2, <2>1, <2>5, <2>8, <2>9, <2>11, <2>12 DEF JobWrites
  <2>14. QED BY <2>4, <2>13 DEF InJob
<1>5. CASE d = <<>>
  <2>1. PICK x : <<x, j.cmd>> \in Starts /\ j.start = Cmd(x)
    BY <1>1, <1>5 DEF Proper
  <2>2. x \in {"CONFIRM", "PGPROG", "ERASE"}
    BY <2>1 DEF Starts
  <2> DEFINE c == [do |-> "cmd", arg |-> x]
  <2>3. c \in Cycles /\ c.do = "cmd" /\ c.arg = x /\ j.start = <<c>>
    BY <2>1, <2>2 DEF Cycles, Cmd
  <2> HIDE DEF c
  <2>4. script = <<c>> \o (Sync \o rest)
    <3>1. Writes(d) = <<>>
      BY <1>5, WritesFirst
    <3>2. QED BY <1>1, <1>3, <2>3, <3>1, NothingBefore
  <2>5. Running /\ cells' = cells /\ script' = Sync \o rest /\ got' = got /\ chip' = Commanded(x)
    BY <1>2, <1>3, <2>3, <2>4, CycleStep
  <2>6. Complete
    BY <1>2 DEF Complete, Proper
  <2>7. chip' = [chip EXCEPT !.pin = "soon"]
    <3>1. <<x, chip.cmd>> \in Starts
      BY <1>2, <2>1
    <3>2. QED BY <1>2, <2>2, <2>5, <2>6, <3>1 DEF Commanded, Opens
  <2>8. /\ chip'.cmd = chip.cmd /\ chip'.area = chip.area /\ chip'.data = chip.data /\ chip'.addr = chip.addr
        /\ chip'.pin = "soon"
    BY <1>2, <2>7 DEF Chips
  <2>9. chip.data = j.data
    BY <1>1, <1>2, <1>5, NothingBefore
  <2>10. pagesize' = pagesize
    BY <2>5 DEF Running
  <2>11. Latched(j)'
    BY <2>8, <2>10 DEF Latched, JobWrites
  <2>12. JobWorks(j, rest)'
    BY <1>2, <2>5, <2>8, <2>9, <2>11 DEF JobWorks
  <2>13. QED BY <2>5, <2>12 DEF InJob
<1>6. QED BY <1>4, <1>5

\* The driver waits; the chip has not yet done its work, or does it now.
LEMMA WorksMove ==
  ASSUME FlashInv, serving # <<>>, FlashNext,
         NEW j, Proper(j), NEW rest \in Seq(Cycles), JobWorks(j, rest)
  PROVE  /\ Running /\ got' = got
         /\ \/ cells' = cells /\ InJob(j, rest)'
            \/ (chip_reads \/ chip_programs \/ chip_erases) /\ script' = script
<1>1. script = Sync \o rest /\ chip.pin # "ready" /\ chip \in Chips
  BY ChipTypes DEF JobWorks
<1>2. /\ Running /\ got' = got
      /\ \/ script' = script /\ chip' = chip /\ cells' = cells
         \/ script' = script /\ chip.pin = "soon" /\ chip' = [chip EXCEPT !.pin = "busy"] /\ cells' = cells
         \/ script' = script /\ chip.pin = "busy" /\ (chip_reads \/ chip_programs \/ chip_erases)
  BY <1>1, SyncStep
<1>3. pagesize' = pagesize
  BY <1>2 DEF Running
<1>4. ASSUME script' = script, cells' = cells, chip' = chip \/ chip' = [chip EXCEPT !.pin = "busy"]
      PROVE  InJob(j, rest)'
  <2>1. /\ chip'.cmd = chip.cmd /\ chip'.area = chip.area /\ chip'.data = chip.data /\ chip'.addr = chip.addr
        /\ chip'.pin # "ready"
    BY <1>1, <1>4 DEF Chips
  <2>2. Latched(j)'
    BY <1>3, <2>1 DEF Latched, JobWorks
  <2>3. JobWorks(j, rest)'
    BY <1>4, <2>1, <2>2 DEF JobWorks
  <2>4. QED BY <2>3 DEF InJob
<1>5. QED BY <1>2, <1>4

-----------------------------------------------------------------------------
(* The jobs of the driver, and the scripts that are made of them.          *)

Column0 == IF pagesize = 512 THEN <<0>> ELSE <<0, 0>>

OobJob(pg) ==
  [cmd |-> IF pagesize = 512 THEN "READC" ELSE "READA",
   addr |-> (IF pagesize = 512 THEN <<0>> ELSE <<pagesize % 256, pagesize \div 256>>) \o RowBytes(pg),
   data |-> <<>>, start |-> If(pagesize # 512, Cmd("CONFIRM"))]

DataJob(pg) ==
  [cmd |-> "READA", addr |-> Column0 \o RowBytes(pg),
   data |-> <<>>, start |-> If(pagesize # 512, Cmd("CONFIRM"))]

StoreJob(pg, items) ==
  [cmd |-> "SEQIN", addr |-> Column0 \o RowBytes(pg), data |-> items, start |-> Cmd("PGPROG")]

EraseJob(pg) ==
  [cmd |-> "ERASE_SETUP", addr |-> RowBytes(pg), data |-> <<>>, start |-> Cmd("ERASE")]

LEMMA Regroup ==
  ASSUME NEW S
  PROVE  /\ \A s, t \in Seq(S) : s \o t \in Seq(S)
         /\ \A s, t, u \in Seq(S) : (s \o t) \o u = s \o (t \o u)
  BY Join, ConcatAssociative

\* l and r are the same sequence, built of these; a lemma that says it as one
\* predicate is easily matched.
Same3(S, a, b, c, l, r) ==
  a \in Seq(S) /\ b \in Seq(S) /\ c \in Seq(S) => l = r /\ l \in Seq(S)
Same4(S, a, b, c, d, l, r) ==
  a \in Seq(S) /\ b \in Seq(S) /\ c \in Seq(S) /\ d \in Seq(S) => l = r /\ l \in Seq(S)
Same5(S, a, b, c, d, e, l, r) ==
  a \in Seq(S) /\ b \in Seq(S) /\ c \in Seq(S) /\ d \in Seq(S) /\ e \in Seq(S) => l = r /\ l \in Seq(S)

LEMMA Regroup3 ==
  ASSUME NEW S, NEW a, NEW b, NEW c
  PROVE  Same3(S, a, b, c, (a \o b) \o c, a \o (b \o c))
<1> SUFFICES ASSUME a \in Seq(S), b \in Seq(S), c \in Seq(S)
             PROVE  (a \o b) \o c = a \o (b \o c) /\ (a \o b) \o c \in Seq(S)
  BY DEF Same3
<1>1. a \o b \in Seq(S)
  BY Regroup
<1>2. (a \o b) \o c \in Seq(S)
  BY <1>1, Regroup
<1>3. (a \o b) \o c = a \o (b \o c)
  BY Regroup
<1>4. QED BY <1>2, <1>3

LEMMA Regroup4 ==
  ASSUME NEW S, NEW a, NEW b, NEW c, NEW d
  PROVE  Same4(S, a, b, c, d, ((a \o b) \o c) \o d, a \o (b \o (c \o d)))
<1> SUFFICES ASSUME a \in Seq(S), b \in Seq(S), c \in Seq(S), d \in Seq(S)
             PROVE  /\ ((a \o b) \o c) \o d = a \o (b \o (c \o d))
                    /\ ((a \o b) \o c) \o d \in Seq(S)
  BY DEF Same4
<1> DEFINE e == c \o d
           x == a \o b
<1>1. e \in Seq(S) /\ x \in Seq(S)
  BY Regroup
<1>2. x \o e = a \o (b \o e)
  <2>1. Same3(S, a, b, e, (a \o b) \o e, a \o (b \o e))
    BY Regroup3, Zenon
  <2>2. QED BY <1>1, <2>1 DEF Same3
<1> HIDE DEF x
<1>3. (x \o c) \o d = x \o e /\ (x \o c) \o d \in Seq(S)
  <2>1. Same3(S, x, c, d, (x \o c) \o d, x \o (c \o d))
    BY Regroup3, Zenon
  <2>2. QED BY <1>1, <2>1 DEF Same3
<1>4. QED BY <1>2, <1>3 DEF x, e

LEMMA Regroup5 ==
  ASSUME NEW S, NEW a, NEW b, NEW c, NEW d, NEW e
  PROVE  Same5(S, a, b, c, d, e, (((a \o b) \o c) \o d) \o e, a \o (b \o (c \o (d \o e))))
<1> SUFFICES ASSUME a \in Seq(S), b \in Seq(S), c \in Seq(S), d \in Seq(S), e \in Seq(S)
             PROVE  /\ (((a \o b) \o c) \o d) \o e = a \o (b \o (c \o (d \o e)))
                    /\ (((a \o b) \o c) \o d) \o e \in Seq(S)
  BY DEF Same5
<1> DEFINE f == d \o e
           x == (a \o b) \o c
<1>1. f \in Seq(S) /\ a \o b \in Seq(S)
  BY Regroup
<1>2. x \in Seq(S)
  BY <1>1, Regroup
<1>3. x \o f = a \o (b \o (c \o f))
  <2>1. Same4(S, a, b, c, f, ((a \o b) \o c) \o f, a \o (b \o (c \o f)))
    BY Regroup4, Zenon
  <2>2. QED BY <1>1, <2>1 DEF Same4
<1> HIDE DEF x
<1>4. (x \o d) \o e = x \o f /\ (x \o d) \o e \in Seq(S)
  <2>1. Same3(S, x, d, e, (x \o d) \o e, x \o (d \o e))
    BY Regroup3, Zenon
  <2>2. QED BY <1>2, <2>1 DEF Same3
<1>5. QED BY <1>3, <1>4 DEF x, f

LEMMA SameSequence ==
  ASSUME NEW S, NEW s \in Seq(S), NEW t \in Seq(S), Len(s) = Len(t), \A k \in 1..Len(s) : s[k] = t[k]
  PROVE  s = t
  OBVIOUS

LEMMA AddrsLong ==
  ASSUME NEW a \in Seq(Int)
  PROVE  Addrs(a) \in Seq(Cycles) /\ Len(Addrs(a)) = Len(a) /\ \A k \in 1..Len(a) : Addrs(a)[k] = Addr(a[k])[1]
<1>1. Addrs(a) \in Seq(Cycles)
  BY AddrsFirst
<1>2. QED BY <1>1 DEF Addrs

\* Bytes one after the other.
LEMMA AddrsJoin ==
  ASSUME NEW a \in Seq(Int), NEW b \in Seq(Int)
  PROVE  Addrs(a \o b) = Addrs(a) \o Addrs(b)
<1> DEFINE u == a \o b
<1>1. /\ u \in Seq(Int) /\ Len(u) = Len(a) + Len(b) /\ Len(a) \in Nat /\ Len(b) \in Nat
      /\ \A k \in 1..Len(a) : u[k] = a[k]
      /\ \A k \in Len(a) + 1..Len(a) + Len(b) : u[k] = b[k - Len(a)]
  BY Join
<1>2. /\ Addrs(a) \in Seq(Cycles) /\ Len(Addrs(a)) = Len(a) /\ Addrs(b) \in Seq(Cycles) /\ Len(Addrs(b)) = Len(b)
      /\ Addrs(u) \in Seq(Cycles) /\ Len(Addrs(u)) = Len(u)
      /\ \A k \in 1..Len(a) : Addrs(a)[k] = Addr(a[k])[1]
      /\ \A k \in 1..Len(b) : Addrs(b)[k] = Addr(b[k])[1]
      /\ \A k \in 1..Len(u) : Addrs(u)[k] = Addr(u[k])[1]
  BY <1>1, AddrsLong
<1> DEFINE v == Addrs(a) \o Addrs(b)
<1>3. /\ v \in Seq(Cycles) /\ Len(v) = Len(u)
      /\ \A k \in 1..Len(a) : v[k] = Addrs(a)[k]
      /\ \A k \in Len(a) + 1..Len(a) + Len(b) : v[k] = Addrs(b)[k - Len(a)]
  <2> DEFINE s == Addrs(a)
             t == Addrs(b)
  <2>1. s \in Seq(Cycles) /\ t \in Seq(Cycles) /\ Len(s) = Len(a) /\ Len(t) = Len(b) /\ v = s \o t
    BY <1>2
  <2> HIDE DEF s, t, v
  <2>2. /\ s \o t \in Seq(Cycles) /\ Len(s \o t) = Len(s) + Len(t)
        /\ \A k \in 1..Len(s) : (s \o t)[k] = s[k]
        /\ \A k \in Len(s) + 1..Len(s) + Len(t) : (s \o t)[k] = t[k - Len(s)]
    <3>1. s \in Seq(Cycles) /\ t \in Seq(Cycles)
      BY <2>1
    <3> HIDE DEF Cycles
    <3>2. QED BY <3>1, Join, ZenonT(40)
  <2>3. QED BY <1>1, <2>1, <2>2 DEF s, t
<1> HIDE DEF u, v
<1>4. ASSUME NEW k \in 1..Len(u) PROVE Addrs(u)[k] = v[k]
  <2>1. CASE k <= Len(a)
    <3>1. k \in 1..Len(a)
      BY <1>1, <2>1
    <3>2. QED BY <1>1, <1>2, <1>3, <3>1
  <2>2. CASE k > Len(a)
    <3>1. k \in Len(a) + 1..Len(a) + Len(b) /\ k - Len(a) \in 1..Len(b)
      BY <1>1, <2>2
    <3>2. QED BY <1>1, <1>2, <1>3, <3>1
  <2>3. QED BY <1>1, <2>1, <2>2
<1>5. Addrs(u) = v
  BY <1>1, <1>2, <1>3, <1>4, SameSequence
<1>6. QED BY <1>5 DEF u, v

LEMMA AddrsOfOne ==
  ASSUME NEW x \in Int, NEW y \in Int
  PROVE  Addrs(<<x>>) = Addr(x) /\ Addrs(<<x, y>>) = Addr(x) \o Addr(y)
<1>1. ASSUME NEW z \in Int PROVE Addrs(<<z>>) = Addr(z)
  <2>1. Addr(z) = <<[do |-> "addr", arg |-> z]>> /\ Addr(z)[1] = [do |-> "addr", arg |-> z]
    BY DEF Addr
  <2>2. Addrs(<<z>>) = [k \in 1..1 |-> Addr(z)[1]]
    BY DEF Addrs
  <2>3. QED BY <2>1, <2>2
<1>2. <<x, y>> = <<x>> \o <<y>> /\ <<x>> \in Seq(Int) /\ <<y>> \in Seq(Int)
  <2>1. <<x>> \in Seq(Int) /\ <<y>> \in Seq(Int) /\ <<x, y>> \in Seq(Int)
    OBVIOUS
  <2> DEFINE s == <<x, y>>
             t == <<x>> \o <<y>>
  <2>2. Len(s) = 2 /\ s[1] = x /\ s[2] = y
    OBVIOUS
  <2>3. t \in Seq(Int) /\ Len(t) = 2 /\ t[1] = x /\ t[2] = y
    OBVIOUS
  <2>4. s \in Seq(Int)
    BY <2>1
  <2> HIDE DEF s, t
  <2>5. \A k \in 1..2 : s[k] = t[k]
    <3>1. \A k \in 1..2 : k = 1 \/ k = 2
      OBVIOUS
    <3>2. QED BY <2>2, <2>3, <3>1
  <2>6. s = t
    BY <2>2, <2>3, <2>4, <2>5, SameSequence
  <2>7. QED BY <2>1, <2>6 DEF s, t
<1>3. Addrs(<<x, y>>) = Addrs(<<x>>) \o Addrs(<<y>>)
  BY <1>2, AddrsJoin
<1>4. QED BY <1>1, <1>3

LEMMA RecordProper ==
  ASSUME NEW c \in {"READA", "READC", "SEQIN", "ERASE_SETUP"}, NEW a \in Seq(Int), NEW d \in Seq(Items),
         NEW s \in Seq(Cycles), Len(a) = IF c = "ERASE_SETUP" THEN row ELSE ColumnCycles + row,
         d # <<>> => c = "SEQIN",
         pagesize = 512 /\ c \in {"READA", "READC"} => s = <<>>,
         ~(pagesize = 512 /\ c \in {"READA", "READC"}) => \E x : <<x, c>> \in Starts /\ s = Cmd(x)
  PROVE  Proper([cmd |-> c, addr |-> a, data |-> d, start |-> s])
<1> DEFINE j == [cmd |-> c, addr |-> a, data |-> d, start |-> s]
<1>1. j.cmd = c /\ j.addr = a /\ j.data = d /\ j.start = s /\ j \in Jobs
  BY DEF Jobs
<1> HIDE DEF j
<1>2. Proper(j)
  BY <1>1 DEF Proper, StartsByItself
<1>3. QED BY <1>2 DEF j

LEMMA JobsProper ==
  ASSUME pagesize \in PageSizes, NEW pg \in Int
  PROVE  /\ Proper(OobJob(pg)) /\ Proper(DataJob(pg)) /\ Proper(EraseJob(pg))
         /\ \A items \in Seq(Items) : Proper(StoreJob(pg, items))
<1> DEFINE s == If(pagesize # 512, Cmd("CONFIRM"))
           ob == IF pagesize = 512 THEN <<0>> ELSE <<pagesize % 256, pagesize \div 256>>
           r == RowBytes(pg)
<1>1. r \in Seq(Int) /\ Len(r) = row /\ row \in Nat
  BY RowBytesType, ConstantTypes
<1>2. s \in Seq(Cycles) /\ (pagesize = 512 => s = <<>>) /\ (pagesize # 512 => s = Cmd("CONFIRM"))
  <2>1. Cmd("CONFIRM") \in Seq(Cycles)
    BY Signals
  <2>2. <<>> \in Seq(Cycles)
    OBVIOUS
  <2>3. QED BY <2>1, <2>2 DEF If
<1>3. \A c \in {"PGPROG", "ERASE"} : Cmd(c) \in Seq(Cycles)
  BY Signals
<1>4. ob \in Seq(Int) /\ Len(ob) = ColumnCycles
  BY Ecccnt DEF ColumnCycles
<1>5. Column0 \in Seq(Int) /\ Len(Column0) = ColumnCycles
  BY DEF ColumnCycles, Column0
<1> HIDE DEF s, ob, r
<1>6. \A col \in Seq(Int) : Len(col) = ColumnCycles => col \o r \in Seq(Int) /\ Len(col \o r) = ColumnCycles + row
  BY <1>1, Join
<1>7. \A c \in {"READA", "READC"} : <<"CONFIRM", "READA">> \in Starts
  BY DEF Starts
<1>8. <<"PGPROG", "SEQIN">> \in Starts /\ <<"ERASE", "ERASE_SETUP">> \in Starts
  BY DEF Starts
<1>9. Proper(OobJob(pg))
  <2> DEFINE c == IF pagesize = 512 THEN "READC" ELSE "READA"
             a == ob \o r
  <2>1. /\ c \in {"READA", "READC"} /\ (pagesize # 512 => c = "READA")
        /\ a \in Seq(Int) /\ Len(a) = ColumnCycles + row
    BY <1>4, <1>6
  <2>2. OobJob(pg) = [cmd |-> c, addr |-> a, data |-> <<>>, start |-> s]
    BY DEF OobJob, s, ob, r
  <2> HIDE DEF c, a
  <2>3. Proper([cmd |-> c, addr |-> a, data |-> <<>>, start |-> s])
    <3>1. <<>> \in Seq(Items)
      OBVIOUS
    <3>2. QED BY <1>2, <1>7, <2>1, <3>1, RecordProper
  <2>4. QED BY <2>2, <2>3
<1>10. Proper(DataJob(pg))
  <2> DEFINE a == Column0 \o r
  <2>1. a \in Seq(Int) /\ Len(a) = ColumnCycles + row
    BY <1>5, <1>6
  <2>2. DataJob(pg) = [cmd |-> "READA", addr |-> a, data |-> <<>>, start |-> s]
    BY DEF DataJob, s, r
  <2> HIDE DEF a
  <2>3. Proper([cmd |-> "READA", addr |-> a, data |-> <<>>, start |-> s])
    <3>1. <<>> \in Seq(Items)
      OBVIOUS
    <3>2. QED BY <1>2, <1>7, <2>1, <3>1, RecordProper
  <2>4. QED BY <2>2, <2>3
<1>11. Proper(EraseJob(pg))
  <2>1. EraseJob(pg) = [cmd |-> "ERASE_SETUP", addr |-> r, data |-> <<>>, start |-> Cmd("ERASE")]
    BY DEF EraseJob, r
  <2>2. Proper([cmd |-> "ERASE_SETUP", addr |-> r, data |-> <<>>, start |-> Cmd("ERASE")])
    <3>1. <<>> \in Seq(Items)
      OBVIOUS
    <3>2. QED BY <1>1, <1>3, <1>8, <3>1, RecordProper
  <2>3. QED BY <2>1, <2>2
<1>12. ASSUME NEW items \in Seq(Items) PROVE Proper(StoreJob(pg, items))
  <2> DEFINE a == Column0 \o r
  <2>1. a \in Seq(Int) /\ Len(a) = ColumnCycles + row
    BY <1>5, <1>6
  <2>2. StoreJob(pg, items) = [cmd |-> "SEQIN", addr |-> a, data |-> items, start |-> Cmd("PGPROG")]
    BY DEF StoreJob, r
  <2> HIDE DEF a
  <2>3. Proper([cmd |-> "SEQIN", addr |-> a, data |-> items, start |-> Cmd("PGPROG")])
    BY <1>3, <1>8, <2>1, RecordProper
  <2>4. QED BY <2>2, <2>3
<1>13. QED BY <1>9, <1>10, <1>11, <1>12

LEMMA FetchCycles ==
  ASSUME pagesize \in PageSizes, NEW pg \in Int, NEW c \in {"READA", "READC"}, NEW cb \in Seq(Int),
         NEW rest \in Seq(Cycles)
  PROVE  Fetch(Cmd(c) \o Addrs(cb), pg) \o rest
         = Sends([cmd |-> c, addr |-> cb \o RowBytes(pg), data |-> <<>>,
                  start |-> If(pagesize # 512, Cmd("CONFIRM"))], rest)
<1> DEFINE s == If(pagesize # 512, Cmd("CONFIRM"))
           m == Cmd(c)
           a == Addrs(cb)
           b == Rows(pg)
<1>1. /\ s \in Seq(Cycles) /\ m \in Seq(Cycles) /\ a \in Seq(Cycles) /\ b \in Seq(Cycles) /\ Sync \in Seq(Cycles)
  <2>1. RowBytes(pg) \in Seq(Int) /\ Addrs(RowBytes(pg)) = Rows(pg)
    BY RowBytesType
  <2>2. QED BY <2>1, AddrsFirst, Signals DEF If, Opens
<1>2. Addrs(cb \o RowBytes(pg)) = a \o b
  BY RowBytesType, AddrsJoin
<1>3. Fetch(m \o a, pg) = (((m \o a) \o b) \o s) \o Sync
  BY DEF Fetch
<1>4. Sends([cmd |-> c, addr |-> cb \o RowBytes(pg), data |-> <<>>, start |-> s], rest)
      = m \o ((a \o b) \o (s \o (Sync \o rest)))
  <2> DEFINE j == [cmd |-> c, addr |-> cb \o RowBytes(pg), data |-> <<>>, start |-> s]
             x == s \o (Sync \o rest)
  <2>1. j.cmd = c /\ j.addr = cb \o RowBytes(pg) /\ j.data = <<>> /\ j.start = s
    OBVIOUS
  <2>2. Writes(<<>>) = <<>> /\ x \in Seq(Cycles)
    <3>1. <<>> \in Seq(Items)
      OBVIOUS
    <3>2. QED BY <1>1, <3>1, WritesFirst, Join
  <2> HIDE DEF j
  <2>3. AfterAddress(j, rest) = x
    <3>1. AfterAddress(j, rest) = <<>> \o x
      BY <2>1, <2>2 DEF AfterAddress
    <3>2. QED BY <2>2, <3>1, NothingBefore
  <2>4. Sends(j, rest) = m \o ((a \o b) \o x)
    BY <1>2, <2>1, <2>3 DEF Sends
  <2>5. QED BY <2>4 DEF j
<1> HIDE DEF s, m, a, b
<1>5. ((((m \o a) \o b) \o s) \o Sync) \o rest = m \o ((a \o b) \o (s \o (Sync \o rest)))
  <2> DEFINE ab == a \o b
  <2>1. (m \o a) \o b = m \o ab /\ ab \in Seq(Cycles)
    <3>1. Same3(Cycles, m, a, b, (m \o a) \o b, m \o (a \o b))
      BY Regroup3, Zenon
    <3>2. ab \in Seq(Cycles)
      BY <1>1, Regroup, Zenon
    <3>3. QED BY <1>1, <3>1, <3>2 DEF Same3
  <2> HIDE DEF ab
  <2>2. (((m \o ab) \o s) \o Sync) \o rest = m \o (ab \o (s \o (Sync \o rest)))
    <3>1. Same5(Cycles, m, ab, s, Sync, rest,
                (((m \o ab) \o s) \o Sync) \o rest, m \o (ab \o (s \o (Sync \o rest))))
      BY Regroup5, Zenon
    <3>2. QED BY <1>1, <2>1, <3>1 DEF Same5
  <2>3. QED BY <2>1, <2>2 DEF ab
<1>6. QED BY <1>3, <1>4, <1>5 DEF s, m, a

LEMMA Column0Cycles ==
  ASSUME pagesize \in PageSizes
  PROVE  /\ Addr(0) \o If(pagesize # 512, Addr(0)) = Addrs(Column0)
         /\ If(pagesize # 512, Addr(0)) \in Seq(Cycles) /\ Column0 \in Seq(Int)
<1>1. Addr(0) \in Seq(Cycles) /\ <<>> \in Seq(Cycles) /\ Addr(0) \o <<>> = Addr(0)
  <2>1. Addr(0) \in Seq(Cycles)
    <3>1. 0 \in Int
      OBVIOUS
    <3>2. QED BY <3>1, Signals, Zenon
  <2>2. <<>> \in Seq(Cycles)
    OBVIOUS
  <2>3. QED BY <2>1, <2>2, NothingBefore
<1>2. Column0 \in Seq(Int)
  BY DEF Column0
<1>3. Addrs(<<0>>) = Addr(0) /\ Addrs(<<0, 0>>) = Addr(0) \o Addr(0)
  BY AddrsOfOne
<1>4. QED BY <1>1, <1>2, <1>3, Zenon DEF If, Column0

LEMMA StoreCycles ==
  ASSUME pagesize \in PageSizes, NEW pg \in Int, NEW items \in Layout, NEW pre \in Seq(Cycles),
         NEW rest \in Seq(Cycles)
  PROVE  /\ Store(pre \o (Cmd("SEQIN") \o Addrs(Column0)), pg, items) \o rest
            = pre \o Sends(StoreJob(pg, items), rest)
         /\ Store(pre \o (Cmd("SEQIN") \o Addrs(Column0)), pg, items) \in Seq(Cycles)
<1> DEFINE m == Cmd("SEQIN")
           a == Addrs(Column0)
           b == Rows(pg)
           w == Writes(items)
           g == Cmd("PGPROG")
           ab == a \o b
           z == w \o (g \o (Sync \o rest))
           q == pre \o (m \o ab)
<1>1. /\ m \in Seq(Cycles) /\ a \in Seq(Cycles) /\ b \in Seq(Cycles) /\ w \in Seq(Cycles)
      /\ g \in Seq(Cycles) /\ Sync \in Seq(Cycles)
  <2>1. RowBytes(pg) \in Seq(Int) /\ Addrs(RowBytes(pg)) = b
    BY RowBytesType
  <2>2. b \in Seq(Cycles) /\ a \in Seq(Cycles)
    BY <2>1, Column0Cycles, AddrsFirst
  <2>3. w \in Seq(Cycles)
    BY LayoutFacts, WritesFirst
  <2>4. m \in Seq(Cycles) /\ g \in Seq(Cycles) /\ Sync \in Seq(Cycles)
    BY Signals DEF Opens
  <2>5. QED BY <2>2, <2>3, <2>4
<1>2. Addrs(Column0 \o RowBytes(pg)) = ab
  BY Column0Cycles, RowBytesType, AddrsJoin
<1>3. Store(pre \o (m \o a), pg, items) = ((((pre \o (m \o a)) \o b) \o w) \o g) \o Sync
  <2>1. Len(items) = ecccnt + 1
    BY LayoutFacts
  <2>2. w = [k \in 1..ecccnt + 1 |-> Write(items[k])[1]]
    BY <2>1 DEF Writes
  <2>3. QED BY <2>2 DEF Store
<1>4. Sends(StoreJob(pg, items), rest) = m \o (ab \o z)
  <2> DEFINE j == StoreJob(pg, items)
  <2>1. j.cmd = "SEQIN" /\ j.addr = Column0 \o RowBytes(pg) /\ j.data = items /\ j.start = g
    BY DEF StoreJob
  <2> HIDE DEF j
  <2>2. Sends(j, rest) = m \o (ab \o z)
    BY <1>2, <2>1 DEF Sends, AfterAddress
  <2>3. QED BY <2>2 DEF j
<1> HIDE DEF m, a, b, w, g
<1>5. ab \in Seq(Cycles) /\ m \o ab \in Seq(Cycles) /\ q \in Seq(Cycles)
  <2>1. ab \in Seq(Cycles)
    BY <1>1, Regroup, Zenon
  <2> HIDE DEF ab
  <2>2. m \o ab \in Seq(Cycles)
    BY <1>1, <2>1, Regroup, Zenon
  <2> DEFINE n == m \o ab
  <2>3. pre \o n \in Seq(Cycles)
    <3> HIDE DEF n
    <3>1. n \in Seq(Cycles)
      BY <2>2 DEF n
    <3>2. QED BY <3>1, Regroup, Zenon
  <2>4. QED BY <2>1, <2>2, <2>3
<1>6. (pre \o (m \o a)) \o b = q
  <2> DEFINE x == m \o a
  <2>1. x \in Seq(Cycles)
    BY <1>1, Regroup, Zenon
  <2>2. x \o b = m \o ab
    <3>1. Same3(Cycles, m, a, b, (m \o a) \o b, m \o (a \o b))
      BY Regroup3, Zenon
    <3>2. QED BY <1>1, <3>1 DEF Same3
  <2> HIDE DEF x, ab
  <2>3. (pre \o x) \o b = pre \o (x \o b)
    <3>1. Same3(Cycles, pre, x, b, (pre \o x) \o b, pre \o (x \o b))
      BY Regroup3, Zenon
    <3>2. QED BY <1>1, <2>1, <3>1 DEF Same3
  <2>4. QED BY <2>2, <2>3 DEF x
<1>7. (((q \o w) \o g) \o Sync) \o rest = q \o z /\ z \in Seq(Cycles)
  <2> HIDE DEF q
  <2>1. Same5(Cycles, q, w, g, Sync, rest,
              (((q \o w) \o g) \o Sync) \o rest, q \o (w \o (g \o (Sync \o rest))))
    BY Regroup5, Zenon
  <2>2. Sync \o rest \in Seq(Cycles)
    BY <1>1, Regroup, Zenon
  <2> DEFINE y == Sync \o rest
  <2>3. g \o y \in Seq(Cycles) /\ w \o (g \o y) \in Seq(Cycles)
    <3> HIDE DEF y
    <3>1. y \in Seq(Cycles)
      BY <2>2 DEF y
    <3>2. Same3(Cycles, w, g, y, (w \o g) \o y, w \o (g \o y))
      BY Regroup3, Zenon
    <3>3. QED BY <1>1, <3>1, <3>2, Regroup DEF Same3
  <2>4. QED BY <1>1, <1>5, <2>1, <2>3 DEF Same5
<1> HIDE DEF z, ab
<1>8. q \o z = pre \o (m \o (ab \o z))
  <2> DEFINE n == m \o ab
  <2>1. n \in Seq(Cycles) /\ n \o z = m \o (ab \o z)
    <3>1. Same3(Cycles, m, ab, z, (m \o ab) \o z, m \o (ab \o z))
      BY Regroup3, Zenon
    <3>2. QED BY <1>1, <1>5, <1>7, <3>1 DEF Same3
  <2> HIDE DEF n
  <2>2. (pre \o n) \o z = pre \o (n \o z)
    <3>1. Same3(Cycles, pre, n, z, (pre \o n) \o z, pre \o (n \o z))
      BY Regroup3, Zenon
    <3>2. QED BY <1>7, <2>1, <3>1 DEF Same3
  <2>3. QED BY <2>1, <2>2 DEF n
<1>9. ((q \o w) \o g) \o Sync \in Seq(Cycles)
  <2> HIDE DEF q
  <2>1. Same4(Cycles, q, w, g, Sync, ((q \o w) \o g) \o Sync, q \o (w \o (g \o Sync)))
    BY Regroup4, Zenon
  <2>2. QED BY <1>1, <1>5, <2>1 DEF Same4
<1> HIDE DEF q
<1>10. QED BY <1>3, <1>4, <1>6, <1>7, <1>8, <1>9 DEF m, a

StoreScript(pg, items) == Enable \o (Pointed \o Sends(StoreJob(pg, items), Status))
EraseBlockScript(pg)   == Enable \o Sends(EraseJob(pg), Status)
SpareScript(pg, rest)  == Enable \o Sends(OobJob(pg), Reads(1) \o (Disable \o rest))
PageScript(pg)         == Sends(DataJob(pg), Reads(ecccnt) \o Disable)

\* What nand_program_page puts into a page.
Written(v) == Append([k \in 1..ecccnt |-> Item(<<v, k>>)], Oob([k \in 1..ecccnt |-> <<v, k>>], TRUE))

LEMMA WrittenLayout ==
  ASSUME pagesize \in PageSizes, NEW v \in Contents
  PROVE  Written(v) \in Layout
<1>1. \A k \in 1..ecccnt : <<v, k>> \in Marks
  <2> ecccnt \in Nat
    BY Ecccnt
  <2>1. QED BY DEF Marks
<1>2. [k \in 1..ecccnt |-> Item(<<v, k>>)] \in [1..ecccnt -> Items]
  BY <1>1, ItemType
<1>3. [k \in 1..ecccnt |-> <<v, k>>] \in [1..ecccnt -> Marks]
  BY <1>1
<1>4. QED BY <1>2, <1>3, PagesHaveLayout DEF Written

LEMMA SendsType ==
  ASSUME NEW j, Proper(j), NEW rest \in Seq(Cycles)
  PROVE  Sends(j, rest) \in Seq(Cycles)
<1> DEFINE c == [do |-> "cmd", arg |-> j.cmd]
           t == Addrs(j.addr) \o AfterAddress(j, rest)
<1>1. c \in Cycles /\ t \in Seq(Cycles) /\ Sends(j, rest) = <<c>> \o t
  BY JobScripts
<1> HIDE DEF c, t
<1>2. QED BY <1>1, OneBefore

LEMMA StatusType ==
  /\ Status \in Seq(Cycles)
  /\ Status = <<[do |-> "cmd", arg |-> "READ_STATUS"]>> \o (Reads(1) \o Disable)
  /\ Reads(1) = Read /\ Reads(2) = Read \o Read /\ Reads(0) = <<>>
  /\ \A n \in Nat : Reads(n) \in Seq(Cycles)
  /\ Reads(1) \o Disable \in Seq(Cycles)
<1>1. Read \in Seq(Cycles) /\ Read = <<[do |-> "read", arg |-> 0]>> /\ Len(Read) = 1
  BY Signals DEF Read
<1>2. \A n \in Nat : Reads(n) \in Seq(Cycles)
  BY ReadsFirst
<1>3. Reads(0) = <<>>
  BY ReadsFirst
<1>4. Reads(1) = Read
  <2>1. Reads(1) = [k \in 1..1 |-> Read[1]]
    BY DEF Reads
  <2>2. QED BY <1>1, <2>1
<1>5. Reads(2) = Read \o Read
  <2>1. Reads(2) # <<>> /\ Head(Reads(2)) = [do |-> "read", arg |-> 0] /\ Tail(Reads(2)) = Reads(2 - 1)
    <3>1. \A n \in Nat : n # 0 => /\ Reads(n) # <<>> /\ Head(Reads(n)) = [do |-> "read", arg |-> 0]
                                   /\ Tail(Reads(n)) = Reads(n - 1)
      BY ReadsFirst
    <3>2. 2 \in Nat /\ 2 # 0
      OBVIOUS
    <3>3. QED BY <3>1, <3>2, Zenon
  <2>2. Reads(2) = <<Head(Reads(2))>> \o Tail(Reads(2))
    <3> DEFINE r == Reads(2)
    <3>1. r \in Seq(Cycles) /\ r # <<>>
      BY <1>2, <2>1
    <3> HIDE DEF r
    <3>2. r = <<Head(r)>> \o Tail(r)
      BY <3>1
    <3>3. QED BY <3>2 DEF r
  <2>3. 2 - 1 = 1
    OBVIOUS
  <2>4. Reads(2) = <<[do |-> "read", arg |-> 0]>> \o Reads(1)
    BY <2>1, <2>2, <2>3
  <2>5. QED BY <1>1, <1>4, <2>4
<1>6. Cmd("READ_STATUS") = <<[do |-> "cmd", arg |-> "READ_STATUS"]>> /\ Cmd("READ_STATUS") \in Seq(Cycles)
  BY Signals DEF Cmd
<1>7. Disable \in Seq(Cycles)
  BY Signals
<1>8. Status = Cmd("READ_STATUS") \o (Read \o Disable) /\ Status \in Seq(Cycles)
  <2> DEFINE c == Cmd("READ_STATUS")
  <2> HIDE DEF c
  <2>1. Same3(Cycles, c, Read, Disable, (c \o Read) \o Disable, c \o (Read \o Disable))
    BY Regroup3, Zenon
  <2>2. Status = (c \o Read) \o Disable
    BY DEF Status, c
  <2>3. QED BY <1>1, <1>6, <1>7, <2>1, <2>2 DEF Same3, c
<1>9. Reads(1) \o Disable \in Seq(Cycles)
  BY <1>2, <1>7, Regroup
<1>10. QED BY <1>2, <1>3, <1>4, <1>5, <1>6, <1>8, <1>9

MarksLast(b, pg, items) == pagesize # 4096 /\ pg = (b + 1) * ppb - 1 /\ items = AllOf("00", FALSE)

LEMMA StoreScripts ==
  ASSUME pagesize \in PageSizes
  PROVE  /\ \A v \in Contents : \A pg \in Int : nand_program_page(v, pg) = StoreScript(pg, Written(v))
         /\ \A b \in Blocks : \A pg, items :
              MarksLast(b, pg, items) => nand_mark_badblock(b) = StoreScript(pg, items)
<1> DEFINE col == Pointed \o Cmd("SEQIN") \o Addr(0) \o If(pagesize # 512, Addr(0))
<1>1. Pointed \in Seq(Cycles)
  <2>1. Cmd("READA") \in Seq(Cycles)
    BY Signals DEF Opens
  <2>2. <<>> \in Seq(Cycles)
    OBVIOUS
  <2>3. QED BY <2>1, <2>2 DEF Pointed, If
<1>2. col = Pointed \o (Cmd("SEQIN") \o Addrs(Column0))
  <2> DEFINE m == Cmd("SEQIN")
             x == Addr(0)
             y == If(pagesize # 512, Addr(0))
  <2>1. m \in Seq(Cycles) /\ x \in Seq(Cycles) /\ y \in Seq(Cycles) /\ x \o y = Addrs(Column0)
    <3>1. 0 \in Int /\ "SEQIN" \in Opens
      BY DEF Opens
    <3>2. m \in Seq(Cycles)
      BY <3>1, Signals, Zenon
    <3>3. x \in Seq(Cycles)
      BY <3>1, Signals, Zenon
    <3>4. QED BY <3>2, <3>3, Column0Cycles
  <2> HIDE DEF m, x, y
  <2>2. Same4(Cycles, Pointed, m, x, y, ((Pointed \o m) \o x) \o y, Pointed \o (m \o (x \o y)))
    BY Regroup4, Zenon
  <2>3. ((Pointed \o m) \o x) \o y = Pointed \o (m \o Addrs(Column0))
    BY <1>1, <2>1, <2>2 DEF Same4
  <2>4. QED BY <2>3 DEF m, x, y
<1> HIDE DEF col
<1>3. ASSUME NEW pg \in Int, NEW items \in Layout
      PROVE  (Enable \o Store(col, pg, items)) \o Status = StoreScript(pg, items)
  <2> DEFINE w == Store(col, pg, items)
             r == Pointed \o Sends(StoreJob(pg, items), Status)
  <2>1. w \o Status = r
    BY <1>1, <1>2, StoreCycles, StatusType
  <2>2. w \in Seq(Cycles)
    BY <1>1, <1>2, StoreCycles, StatusType
  <2> HIDE DEF w, r
  <2>3. Same3(Cycles, Enable, w, Status, (Enable \o w) \o Status, Enable \o (w \o Status))
    BY Regroup3, Zenon
  <2>4. Enable \in Seq(Cycles) /\ Status \in Seq(Cycles)
    BY Signals, StatusType
  <2>5. (Enable \o w) \o Status = Enable \o r
    BY <2>1, <2>2, <2>3, <2>4 DEF Same3
  <2>6. QED BY <2>5 DEF StoreScript, w, r
<1>4. ASSUME NEW v \in Contents, NEW pg \in Int PROVE nand_program_page(v, pg) = StoreScript(pg, Written(v))
  <2>1. Written(v) \in Layout
    BY WrittenLayout
  <2>2. nand_program_page(v, pg) = (Enable \o Store(col, pg, Written(v))) \o Status
    BY DEF nand_program_page, Written, col
  <2>3. QED BY <1>3, <2>1, <2>2
<1>5. ASSUME NEW b \in Blocks, NEW pg, NEW items, MarksLast(b, pg, items)
      PROVE  nand_mark_badblock(b) = StoreScript(pg, items)
  <2>1. AllOf("00", FALSE) \in Layout /\ pg \in Int
    <3>1. pg \in Int
      BY <1>5, PageNumbers DEF MarksLast
    <3>2. QED BY <3>1, AllOfLayout
  <2>2. pagesize \in {512, 2048}
    BY <1>5, Ecccnt DEF MarksLast
  <2>3. /\ If(pagesize # 2048, Cmd("READA")) = Pointed
        /\ If(pagesize = 2048, Addr(0)) = If(pagesize # 512, Addr(0))
    BY <2>2 DEF Pointed, If
  <2>4. nand_mark_badblock(b) = (Enable \o Store(col, pg, AllOf("00", FALSE))) \o Status
    <3> DEFINE c == If(pagesize # 2048, Cmd("READA")) \o Cmd("SEQIN") \o Addr(0) \o If(pagesize = 2048, Addr(0))
    <3>1. c = col
      <4> DEFINE u == If(pagesize # 2048, Cmd("READA"))
                 x == If(pagesize = 2048, Addr(0))
                 y == If(pagesize # 512, Addr(0))
      <4>1. u = Pointed /\ x = y
        BY <2>3
      <4>2. c = u \o Cmd("SEQIN") \o Addr(0) \o x
        OBVIOUS
      <4>3. col = Pointed \o Cmd("SEQIN") \o Addr(0) \o y
        BY DEF col
      <4> HIDE DEF c, u, x, y
      <4>4. QED BY <4>1, <4>2, <4>3
    <3>2. nand_mark_badblock(b) = (Enable \o Store(c, pg, AllOf("00", FALSE))) \o Status
      BY <1>5 DEF nand_mark_badblock, MarksLast
    <3> HIDE DEF c
    <3>3. QED BY <3>1, <3>2
  <2>5. items = AllOf("00", FALSE)
    BY <1>5 DEF MarksLast
  <2>6. QED BY <1>3, <2>1, <2>4, <2>5
<1>6. QED BY <1>4, <1>5

LEMMA EraseScripts ==
  ASSUME pagesize \in PageSizes, NEW b \in Blocks
  PROVE  nand_erase_block(b) = EraseBlockScript(b * ppb)
<1> DEFINE pg == b * ppb
           m == Cmd("ERASE_SETUP")
           r == Rows(pg)
           g == Cmd("ERASE")
           w == m \o r \o g \o Sync
<1>0. pg \in Int
  BY PageNumbers
<1> HIDE DEF pg
<1>1. m \in Seq(Cycles) /\ r \in Seq(Cycles) /\ g \in Seq(Cycles) /\ Sync \in Seq(Cycles)
      /\ Enable \in Seq(Cycles) /\ Status \in Seq(Cycles) /\ Addrs(RowBytes(pg)) = r
  <2>1. RowBytes(pg) \in Seq(Int) /\ Addrs(RowBytes(pg)) = r
    BY <1>0, RowBytesType
  <2>2. r \in Seq(Cycles)
    BY <2>1, AddrsFirst
  <2>3. "ERASE_SETUP" \in Opens
    BY DEF Opens
  <2>4. m \in Seq(Cycles) /\ g \in Seq(Cycles) /\ Sync \in Seq(Cycles) /\ Enable \in Seq(Cycles)
    BY <2>3, Signals
  <2>5. QED BY <2>1, <2>2, <2>4, StatusType
<1>2. Sends(EraseJob(pg), Status) = m \o (r \o (g \o (Sync \o Status)))
  <2> DEFINE j == EraseJob(pg)
             x == g \o (Sync \o Status)
  <2>1. j.cmd = "ERASE_SETUP" /\ j.addr = RowBytes(pg) /\ j.data = <<>> /\ j.start = g
    BY DEF EraseJob
  <2>2. Writes(<<>>) = <<>>
    <3>1. <<>> \in Seq(Items)
      OBVIOUS
    <3>2. QED BY <3>1, WritesFirst
  <2>3. x \in Seq(Cycles)
    <3> HIDE DEF g
    <3>1. Same3(Cycles, g, Sync, Status, (g \o Sync) \o Status, x)
      BY Regroup3, Zenon
    <3>2. QED BY <1>1, <3>1 DEF Same3
  <2> HIDE DEF j
  <2>4. AfterAddress(j, Status) = x
    <3>1. AfterAddress(j, Status) = <<>> \o x
      BY <2>1, <2>2 DEF AfterAddress
    <3>2. QED BY <2>3, <3>1, NothingBefore
  <2>5. Sends(j, Status) = m \o (r \o x)
    BY <1>1, <2>1, <2>4 DEF Sends
  <2>6. QED BY <2>5 DEF j
<1>3. nand_erase_block(b) = (Enable \o w) \o Status
  BY DEF nand_erase_block, pg
<1> HIDE DEF m, r, g
<1>4. w \o Status = m \o (r \o (g \o (Sync \o Status)))
  <2>1. Same5(Cycles, m, r, g, Sync, Status, w \o Status, m \o (r \o (g \o (Sync \o Status))))
    BY Regroup5, Zenon
  <2>2. QED BY <1>1, <2>1 DEF Same5
<1>5. w \in Seq(Cycles)
  <2>1. Same4(Cycles, m, r, g, Sync, w, m \o (r \o (g \o Sync)))
    BY Regroup4, Zenon
  <2>2. QED BY <1>1, <2>1 DEF Same4
<1> HIDE DEF w
<1>6. (Enable \o w) \o Status = Enable \o (w \o Status)
  <2>1. Same3(Cycles, Enable, w, Status, (Enable \o w) \o Status, Enable \o (w \o Status))
    BY Regroup3, Zenon
  <2>2. QED BY <1>1, <1>5, <2>1 DEF Same3
<1>7. QED BY <1>2, <1>3, <1>4, <1>6 DEF EraseBlockScript, pg

LEMMA FetchType ==
  ASSUME pagesize \in PageSizes, NEW pg \in Int, NEW c \in {"READA", "READC"}, NEW cb \in Seq(Int)
  PROVE  Fetch(Cmd(c) \o Addrs(cb), pg) \in Seq(Cycles)
<1> DEFINE s == If(pagesize # 512, Cmd("CONFIRM"))
           m == Cmd(c) \o Addrs(cb)
           b == Rows(pg)
<1>1. s \in Seq(Cycles) /\ m \in Seq(Cycles) /\ b \in Seq(Cycles) /\ Sync \in Seq(Cycles)
  <2>1. RowBytes(pg) \in Seq(Int) /\ Addrs(RowBytes(pg)) = Rows(pg)
    BY RowBytesType
  <2>2. b \in Seq(Cycles) /\ Addrs(cb) \in Seq(Cycles)
    BY <2>1, AddrsFirst
  <2>3. c \in Opens
    BY DEF Opens
  <2>4. Cmd(c) \in Seq(Cycles) /\ Cmd("CONFIRM") \in Seq(Cycles) /\ Sync \in Seq(Cycles)
    BY <2>3, Signals
  <2>5. <<>> \in Seq(Cycles)
    OBVIOUS
  <2>6. QED BY <2>2, <2>4, <2>5, Regroup DEF If
<1> HIDE DEF m, s, b
<1>2. Same4(Cycles, m, b, s, Sync, ((m \o b) \o s) \o Sync, m \o (b \o (s \o Sync)))
  BY Regroup4, Zenon
<1>3. QED BY <1>1, <1>2 DEF Same4, Fetch, m, b, s

LEMMA SpareCycles ==
  ASSUME pagesize \in PageSizes, NEW pg \in Int, NEW rest \in Seq(Cycles)
  PROVE  read_oob(pg) \o rest = SpareScript(pg, rest) /\ read_oob(pg) \in Seq(Cycles)
<1> DEFINE cb == IF pagesize = 512 THEN <<0>> ELSE <<pagesize % 256, pagesize \div 256>>
           c == IF pagesize = 512 THEN "READC" ELSE "READA"
           col == IF pagesize = 512 THEN Cmd("READC") \o Addr(0)
                  ELSE Cmd("READA") \o Addr(pagesize % 256) \o Addr(pagesize \div 256)
           f == Fetch(col, pg)
<1>1. cb \in Seq(Int) /\ c \in {"READA", "READC"}
  BY Ecccnt
<1>2. col = Cmd(c) \o Addrs(cb)
  <2>1. CASE pagesize = 512
    <3>1. Addrs(<<0>>) = Addr(0)
      <4>1. 0 \in Int
        OBVIOUS
      <4>2. QED BY <4>1, AddrsOfOne, Zenon
    <3>2. cb = <<0>> /\ c = "READC" /\ col = Cmd("READC") \o Addr(0)
      BY <2>1
    <3> HIDE DEF cb, c, col
    <3>3. QED BY <3>1, <3>2
  <2>2. CASE pagesize # 512
    <3> DEFINE x == pagesize % 256
               y == pagesize \div 256
               m == Cmd("READA")
    <3>1. x \in Int /\ y \in Int
      BY Ecccnt
    <3> HIDE DEF x, y
    <3>2. Addrs(<<x, y>>) = Addr(x) \o Addr(y) /\ Addr(x) \in Seq(Cycles) /\ Addr(y) \in Seq(Cycles)
          /\ m \in Seq(Cycles)
      BY <3>1, AddrsOfOne, Signals DEF Opens
    <3> HIDE DEF m
    <3>3. Same3(Cycles, m, Addr(x), Addr(y), (m \o Addr(x)) \o Addr(y), m \o (Addr(x) \o Addr(y)))
      BY Regroup3, Zenon
    <3>4. (m \o Addr(x)) \o Addr(y) = m \o Addrs(<<x, y>>)
      BY <3>2, <3>3 DEF Same3
    <3>5. QED BY <2>2, <3>4 DEF x, y, m
  <2>3. QED BY <2>1, <2>2
<1>3. OobJob(pg) = [cmd |-> c, addr |-> cb \o RowBytes(pg), data |-> <<>>,
                    start |-> If(pagesize # 512, Cmd("CONFIRM"))]
  BY DEF OobJob
<1>4. read_oob(pg) = ((Enable \o f) \o Read) \o Disable
  BY DEF read_oob
<1> HIDE DEF c, cb, col
<1>5. f \in Seq(Cycles)
  BY <1>1, <1>2, FetchType
<1>6. \A r \in Seq(Cycles) : f \o r = Sends(OobJob(pg), r)
  <2> TAKE r \in Seq(Cycles)
  <2>1. f \o r = Sends([cmd |-> c, addr |-> cb \o RowBytes(pg), data |-> <<>>,
                        start |-> If(pagesize # 512, Cmd("CONFIRM"))], r)
    BY <1>1, <1>2, FetchCycles
  <2>2. QED BY <1>3, <2>1
<1> HIDE DEF f
<1>7. Enable \in Seq(Cycles) /\ Read \in Seq(Cycles) /\ Disable \in Seq(Cycles)
  BY Signals
<1>8. (((Enable \o f) \o Read) \o Disable) \o rest = Enable \o (f \o (Read \o (Disable \o rest)))
  <2>1. Same5(Cycles, Enable, f, Read, Disable, rest, (((Enable \o f) \o Read) \o Disable) \o rest,
              Enable \o (f \o (Read \o (Disable \o rest))))
    BY Regroup5, Zenon
  <2>2. QED BY <1>5, <1>7, <2>1 DEF Same5
<1>9. Read \o (Disable \o rest) \in Seq(Cycles)
  <2>1. Same3(Cycles, Read, Disable, rest, (Read \o Disable) \o rest, Read \o (Disable \o rest))
    BY Regroup3, Zenon
  <2>2. QED BY <1>7, <2>1 DEF Same3
<1>10. read_oob(pg) \o rest = SpareScript(pg, rest)
  <2>1. f \o (Read \o (Disable \o rest)) = Sends(OobJob(pg), Read \o (Disable \o rest))
    BY <1>6, <1>9
  <2>2. read_oob(pg) \o rest = Enable \o (f \o (Read \o (Disable \o rest)))
    BY <1>4, <1>8
  <2>3. QED BY <2>1, <2>2, StatusType DEF SpareScript
<1>11. read_oob(pg) \in Seq(Cycles)
  <2>1. Same4(Cycles, Enable, f, Read, Disable, ((Enable \o f) \o Read) \o Disable,
              Enable \o (f \o (Read \o Disable)))
    BY Regroup4, Zenon
  <2>2. QED BY <1>4, <1>5, <1>7, <2>1 DEF Same4
<1>12. QED BY <1>10, <1>11

LEMMA PageCycles ==
  ASSUME pagesize \in PageSizes, NEW pg \in Int
  PROVE  /\ nand_read_page(pg) = Enable \o SpareScript(pg, PageScript(pg))
         /\ PageScript(pg) \in Seq(Cycles)
<1> DEFINE x == Cmd("READA")
           y == Addr(0)
           z == If(pagesize # 512, Addr(0))
           col == x \o y \o z
           o == read_oob(pg)
           f == Fetch(col, pg)
           k == Reads(ecccnt)
<1>1. x \in Seq(Cycles) /\ y \in Seq(Cycles) /\ z \in Seq(Cycles) /\ y \o z = Addrs(Column0) /\ Column0 \in Seq(Int)
  <2>1. 0 \in Int /\ "READA" \in Opens
    BY DEF Opens
  <2>2. x \in Seq(Cycles)
    BY <2>1, Signals, Zenon
  <2>3. y \in Seq(Cycles)
    BY <2>1, Signals, Zenon
  <2>4. QED BY <2>2, <2>3, Column0Cycles
<1>2. nand_read_page(pg) = (((Enable \o o) \o f) \o k) \o Disable
  BY DEF nand_read_page, Reads
<1>3. col = Cmd("READA") \o Addrs(Column0)
  <2> HIDE DEF x, y, z
  <2>1. Same3(Cycles, x, y, z, (x \o y) \o z, x \o (y \o z))
    BY Regroup3, Zenon
  <2>2. col = x \o Addrs(Column0)
    BY <1>1, <2>1 DEF Same3
  <2>3. QED BY <2>2 DEF x
<1> HIDE DEF x, y, z, col
<1>4. f \in Seq(Cycles) /\ \A r \in Seq(Cycles) : f \o r = Sends(DataJob(pg), r)
  <2>1. f \in Seq(Cycles)
    BY <1>1, <1>3, FetchType
  <2>2. ASSUME NEW r \in Seq(Cycles) PROVE f \o r = Sends(DataJob(pg), r)
    <3>1. f \o r = Sends([cmd |-> "READA", addr |-> Column0 \o RowBytes(pg), data |-> <<>>,
                          start |-> If(pagesize # 512, Cmd("CONFIRM"))], r)
      BY <1>1, <1>3, FetchCycles
    <3>2. QED BY <3>1 DEF DataJob
  <2>3. QED BY <2>1, <2>2
<1>5. o \in Seq(Cycles) /\ \A r \in Seq(Cycles) : o \o r = SpareScript(pg, r)
  <2>1. <<>> \in Seq(Cycles)
    OBVIOUS
  <2>2. o \in Seq(Cycles)
    BY <2>1, SpareCycles
  <2>3. \A r \in Seq(Cycles) : o \o r = SpareScript(pg, r)
    BY SpareCycles
  <2>4. QED BY <2>2, <2>3
<1>6. k \in Seq(Cycles) /\ Enable \in Seq(Cycles) /\ Disable \in Seq(Cycles)
  BY Ecccnt, StatusType, Signals
<1> HIDE DEF f, k, o
<1>7. k \o Disable \in Seq(Cycles)
  BY <1>6, Regroup, Zenon
<1>8. f \o (k \o Disable) = PageScript(pg) /\ PageScript(pg) \in Seq(Cycles)
  <2>1. f \o (k \o Disable) = PageScript(pg)
    BY <1>4, <1>7 DEF PageScript, k
  <2>2. f \o (k \o Disable) \in Seq(Cycles)
    <3>1. Same3(Cycles, f, k, Disable, (f \o k) \o Disable, f \o (k \o Disable))
      BY Regroup3, Zenon
    <3>2. QED BY <1>4, <1>6, <3>1 DEF Same3
  <2>3. QED BY <2>1, <2>2
<1>9. (((Enable \o o) \o f) \o k) \o Disable = Enable \o (o \o (f \o (k \o Disable)))
  <2>1. Same5(Cycles, Enable, o, f, k, Disable, (((Enable \o o) \o f) \o k) \o Disable,
              Enable \o (o \o (f \o (k \o Disable))))
    BY Regroup5, Zenon
  <2>2. QED BY <1>4, <1>5, <1>6, <2>1 DEF Same5
<1>10. QED BY <1>2, <1>5, <1>8, <1>9

LEMMA CheckCycles ==
  ASSUME pagesize \in PageSizes, NEW b \in Blocks
  PROVE  nand_check_badblock(b) = SpareScript((b + 1) * ppb - 1, <<>>)
<1> DEFINE pg == (b + 1) * ppb - 1
<1>1. pg \in Int /\ nand_check_badblock(b) = read_oob(pg)
  BY PageNumbers DEF nand_check_badblock
<1> HIDE DEF pg
<1>2. <<>> \in Seq(Cycles)
  OBVIOUS
<1>3. read_oob(pg) \in Seq(Cycles) /\ read_oob(pg) \o <<>> = SpareScript(pg, <<>>)
  BY <1>1, <1>2, SpareCycles
<1>4. QED BY <1>1, <1>3, NothingBefore DEF pg

LEMMA QueryCycles ==
  /\ nand_query_4740 = <<[do |-> "cmd", arg |-> "READID"]>> \o (<<[do |-> "addr", arg |-> 0]>> \o Reads(2))
  /\ <<[do |-> "addr", arg |-> 0]>> \o Reads(2) \in Seq(Cycles)
<1> DEFINE x == Cmd("READID")
           y == Addr(0)
<1>1. x \in Seq(Cycles) /\ y \in Seq(Cycles)
  <2>1. 0 \in Int /\ "READID" \in Opens
    BY DEF Opens
  <2>2. x \in Seq(Cycles)
    BY <2>1, Signals, Zenon
  <2>3. y \in Seq(Cycles)
    BY <2>1, Signals, Zenon
  <2>4. QED BY <2>2, <2>3
<1>2. x = <<[do |-> "cmd", arg |-> "READID"]>> /\ y = <<[do |-> "addr", arg |-> 0]>>
  BY DEF Cmd, Addr
<1>3. nand_query_4740 = ((x \o y) \o Read) \o Read
  BY DEF nand_query_4740
<1> HIDE DEF x, y
<1>4. Read \in Seq(Cycles)
  BY Signals
<1>5. ((x \o y) \o Read) \o Read = x \o (y \o (Read \o Read))
  <2>1. Same4(Cycles, x, y, Read, Read, ((x \o y) \o Read) \o Read, x \o (y \o (Read \o Read)))
    BY Regroup4, Zenon
  <2>2. QED BY <1>1, <1>4, <2>1 DEF Same4
<1>6. y \o (Read \o Read) \in Seq(Cycles)
  <2>1. Same3(Cycles, y, Read, Read, (y \o Read) \o Read, y \o (Read \o Read))
    BY Regroup3, Zenon
  <2>2. QED BY <1>1, <1>4, <2>1 DEF Same3
<1>7. QED BY <1>2, <1>3, <1>5, <1>6, StatusType

-----------------------------------------------------------------------------
(* What the chip does when it has a job.                                   *)

\* The row bytes are enough for the number of the page.
Fits(pg) == pg \in Int /\ rowaddr(pg)[row] = 0

LEMMA ColumnIs ==
  ASSUME pagesize \in PageSizes, NEW pg \in Int, NEW x \in Int, NEW y \in Int,
         pagesize # 512, chip.addr = <<x, y>> \o RowBytes(pg)
  PROVE  Column = x + 256 * y
<1> DEFINE s == <<x, y>>
           t == RowBytes(pg)
<1>1. s \in Seq(Int) /\ Len(s) = 2 /\ s[1] = x /\ s[2] = y /\ t \in Seq(Int) /\ 1 \in 1..2 /\ 2 \in 1..2
  BY RowBytesType
<1> HIDE DEF s, t
<1>2. \A k \in 1..Len(s) : (s \o t)[k] = s[k]
  <2>1. s \in Seq(Int) /\ t \in Seq(Int)
    BY <1>1
  <2>2. QED BY <2>1, Join
<1>3. chip.addr[1] = x /\ chip.addr[2] = y
  <2>1. chip.addr = s \o t
    BY DEF s, t
  <2>2. (s \o t)[1] = s[1] /\ (s \o t)[2] = s[2]
    BY <1>1, <1>2, Zenon
  <2>3. QED BY <1>1, <2>1, <2>2
<1>4. QED BY <1>3 DEF Column

LEMMA DataColumn ==
  ASSUME pagesize \in PageSizes, NEW pg \in Int, chip.addr = Column0 \o RowBytes(pg),
         pagesize = 512 => chip.area = "data"
  PROVE  Column = 0
<1>1. CASE pagesize = 512
  BY <1>1 DEF Column
<1>2. CASE pagesize # 512
  <2>1. chip.addr = <<0, 0>> \o RowBytes(pg) /\ 0 \in Int
    BY <1>2 DEF Column0
  <2>2. Column = 0 + 256 * 0
    BY <1>2, <2>1, ColumnIs
  <2>3. QED BY <2>2
<1>3. QED BY <1>1, <1>2

LEMMA ReadWorks ==
  ASSUME FlashInv, NEW pg \in FlashPages, Fits(pg), NEW j, NEW rest, JobWorks(j, rest),
         chip_reads \/ chip_programs \/ chip_erases
  PROVE  /\ j = OobJob(pg) => cells' = cells /\ chip'.pin = "ready" /\ chip'.reg = <<Spare(cells[pg])>>
         /\ j = DataJob(pg) => cells' = cells /\ chip'.pin = "ready" /\ chip'.reg = cells[pg]
<1> pagesize \in PageSizes /\ chip \in Chips /\ pg \in Int
  BY ChipTypes DEF Fits
<1>1. ASSUME j.cmd \in {"READA", "READC"}, RowOf = pg
      PROVE  cells' = cells /\ chip'.pin = "ready" /\ chip'.reg = IF Column = 0 THEN cells[pg] ELSE <<Spare(cells[pg])>>
  <2>1. chip.cmd \in {"READA", "READC"}
    BY <1>1 DEF JobWorks, Latched
  <2>2. chip_reads
    BY <2>1 DEF chip_programs, chip_erases
  <2> DEFINE r == IF Column = 0 THEN cells[pg] ELSE <<Spare(cells[pg])>>
  <2>3. chip' = [chip EXCEPT !.pin = "ready", !.reg = r] /\ cells' = cells
    BY <1>1, <2>2 DEF chip_reads
  <2> HIDE DEF r
  <2>4. chip'.pin = "ready" /\ chip'.reg = r
    BY <2>3 DEF Chips
  <2>5. QED BY <2>3, <2>4 DEF r
<1>2. ASSUME NEW col \in Seq(Int), j.addr = col \o RowBytes(pg) PROVE RowOf = pg
  <2>1. chip.addr = col \o RowBytes(pg)
    BY <1>2 DEF JobWorks
  <2>2. QED BY <2>1, RowIs DEF Fits
<1>3. ASSUME j = OobJob(pg) PROVE cells' = cells /\ chip'.pin = "ready" /\ chip'.reg = <<Spare(cells[pg])>>
  <2> DEFINE cb == IF pagesize = 512 THEN <<0>> ELSE <<pagesize % 256, pagesize \div 256>>
  <2>1. cb \in Seq(Int)
    BY Ecccnt
  <2>2. j.addr = cb \o RowBytes(pg) /\ j.cmd = (IF pagesize = 512 THEN "READC" ELSE "READA")
    BY <1>3 DEF OobJob
  <2>3. RowOf = pg
    <3> HIDE DEF cb
    <3>1. QED BY <1>2, <2>1, <2>2
  <2>4. Column # 0
    <3>1. CASE pagesize = 512
      <4>1. chip.area = "oob"
        BY <2>2, <3>1 DEF JobWorks, Latched
      <4>2. QED BY <3>1, <4>1 DEF Column
    <3>2. CASE pagesize # 512
      <4>1. chip.addr = <<pagesize % 256, pagesize \div 256>> \o RowBytes(pg)
        BY <2>2, <3>2 DEF JobWorks
      <4>2. pagesize \in {2048, 4096} /\ pagesize % 256 \in Int /\ pagesize \div 256 \in Int
        BY <3>2, Ecccnt
      <4>3. Column = (pagesize % 256) + 256 * (pagesize \div 256)
        BY <3>2, <4>1, <4>2, ColumnIs
      <4>4. QED BY <4>2, <4>3
    <3>3. QED BY <3>1, <3>2
  <2>5. QED BY <1>1, <2>2, <2>3, <2>4
<1>4. ASSUME j = DataJob(pg) PROVE cells' = cells /\ chip'.pin = "ready" /\ chip'.reg = cells[pg]
  <2>1. j.addr = Column0 \o RowBytes(pg) /\ j.cmd = "READA"
    BY <1>4 DEF DataJob
  <2>2. RowOf = pg
    BY <1>2, <2>1, Column0Cycles
  <2>3. Column = 0
    BY <2>1, DataColumn DEF JobWorks, Latched
  <2>4. QED BY <1>1, <2>1, <2>2, <2>3
<1>5. QED BY <1>3, <1>4

\* A page after items were programmed into it.
Filled(page, items) ==
  IF items = AllOf("00", FALSE) THEN items
  ELSE IF page = AllOf("ff", Spare(page).ff) THEN [items EXCEPT ![ecccnt + 1].ff = @ /\ Spare(page).ff]
  ELSE Rubbish(page)

\* The pages after a program or an erase that failed or not.
StoredAs(old, pg, items, fail, kept) ==
  [q \in FlashPages |->
     IF q # pg THEN old[q]
     ELSE IF fail = 0 THEN Filled(old[q], items)
     ELSE AllOf("??", Spare(old[q]).ff /\ (kept \/ Spare(items).ff))]

ErasedAs(old, pg, fail) ==
  [q \in FlashPages |-> IF fail = 0 /\ q \in pg..pg + ppb - 1 THEN AllOf("ff", TRUE) ELSE old[q]]

LEMMA StoreWorks ==
  ASSUME FlashInv, NEW pg, Fits(pg), NEW items \in Layout, NEW j, NEW rest, JobWorks(j, rest),
         j = StoreJob(pg, items), chip_reads \/ chip_programs \/ chip_erases
  PROVE  chip'.pin = "ready" /\ \E kept \in BOOLEAN : cells' = StoredAs(cells, pg, items, chip'.fail, kept)
<1> pagesize \in PageSizes /\ chip \in Chips /\ pg \in Int
  BY ChipTypes DEF Fits
<1>1. j.cmd = "SEQIN" /\ j.addr = Column0 \o RowBytes(pg) /\ j.data = items
  BY DEF StoreJob
<1>2. chip.cmd = "SEQIN" /\ chip.addr = Column0 \o RowBytes(pg) /\ chip.data = items
      /\ (pagesize = 512 => chip.area = "data")
  BY <1>1 DEF JobWorks, Latched
<1>3. RowOf = pg
  BY <1>2, Column0Cycles, RowIs DEF Fits
<1>4. Column = 0
  BY <1>2, DataColumn
<1>5. chip_programs
  BY <1>2 DEF chip_reads, chip_erases
<1>6. PICK fail \in 0..1, kept \in BOOLEAN :
        /\ chip' = [chip EXCEPT !.pin = "ready", !.fail = fail]
        /\ cells' = [q \in FlashPages |->
                       IF q # RowOf THEN cells[q]
                       ELSE IF fail = 0 THEN Programmed(cells[q])
                       ELSE AllOf("??", Spare(cells[q]).ff /\ (kept \/ Spare(chip.data).ff))]
  BY <1>5 DEF chip_programs
<1>7. chip'.pin = "ready" /\ chip'.fail = fail
  BY <1>6 DEF Chips
<1>8. ASSUME NEW page PROVE Programmed(page) = Filled(page, items)
  <2>1. Len(items) = ecccnt + 1
    BY LayoutFacts
  <2>2. Programmed(page) = IF chip.data = AllOf("00", FALSE) THEN chip.data
                           ELSE IF page = AllOf("ff", Spare(page).ff)
                                THEN [chip.data EXCEPT ![ecccnt + 1].ff = @ /\ Spare(page).ff]
                           ELSE Rubbish(page)
    BY <1>2, <1>4, <2>1 DEF Programmed
  <2>3. QED BY <1>2, <2>2 DEF Filled
<1>9. cells' = StoredAs(cells, pg, items, fail, kept)
  BY <1>2, <1>3, <1>6, <1>8 DEF StoredAs
<1>10. QED BY <1>7, <1>9

LEMMA EraseWorks ==
  ASSUME FlashInv, NEW pg, Fits(pg), NEW j, NEW rest, JobWorks(j, rest),
         j = EraseJob(pg), chip_reads \/ chip_programs \/ chip_erases
  PROVE  chip'.pin = "ready" /\ cells' = ErasedAs(cells, pg, chip'.fail)
<1> chip \in Chips /\ pg \in Int
  BY ChipTypes DEF Fits
<1>1. j.cmd = "ERASE_SETUP" /\ j.addr = RowBytes(pg)
  BY DEF EraseJob
<1>2. chip.cmd = "ERASE_SETUP" /\ chip.addr = RowBytes(pg)
  BY <1>1 DEF JobWorks, Latched
<1>3. RowOf = pg
  <2>1. <<>> \in Seq(Int)
    OBVIOUS
  <2>2. chip.addr = <<>> \o RowBytes(pg)
    BY <1>2, RowBytesType, NothingBefore
  <2>3. QED BY <2>1, <2>2, RowIs DEF Fits
<1>4. chip_erases
  BY <1>2 DEF chip_reads, chip_programs
<1>5. PICK fail \in 0..1 :
        /\ chip' = [chip EXCEPT !.pin = "ready", !.fail = fail]
        /\ cells' = [q \in FlashPages |->
                       IF fail = 0 /\ q \in RowOf..RowOf + ppb - 1 THEN AllOf("ff", TRUE) ELSE cells[q]]
  BY <1>4 DEF chip_erases
<1>6. chip'.pin = "ready" /\ chip'.fail = fail
  BY <1>5 DEF Chips
<1>7. cells' = ErasedAs(cells, pg, fail)
  BY <1>3, <1>5 DEF ErasedAs
<1>8. QED BY <1>6, <1>7

-----------------------------------------------------------------------------
(* Reading the register, and the select cycles.                            *)

\* m items are read of those in E, and then the rest follows.
InReads(E, m, rest) ==
  /\ chip.pin = "ready" /\ got \in Seq(Items) /\ Len(got) <= m /\ got \o chip.reg = E
  /\ \E s : /\ s = Reads(m - Len(got)) \o rest
            /\ script = s \/ script = Sync \o s

Holds(E, m) == got \in Seq(Items) /\ Len(got) = m /\ \A k \in 1..m : got[k] = E[k]

\* What is expected of the items and of the rest.
Readable(E, m, rest) == E \in Seq(Items) /\ m \in Nat /\ m <= Len(E) /\ rest \in Seq(Cycles)

LEMMA ReadsStep ==
  ASSUME FlashInv, HearsDisabled, serving # <<>>, FlashNext,
         NEW E, NEW m, NEW rest, Readable(E, m, rest), InReads(E, m, rest)
  PROVE  \/ Running /\ cells' = cells /\ InReads(E, m, rest)'
         \/ Len(got) = m /\ script = rest /\ Holds(E, m)
<1> DEFINE n == m - Len(got)
           s == Reads(n) \o rest
<1>1. /\ E \in Seq(Items) /\ m \in Nat /\ m <= Len(E) /\ rest \in Seq(Cycles) /\ chip.pin = "ready"
      /\ got \in Seq(Items) /\ Len(got) \in Nat /\ Len(got) <= m /\ got \o chip.reg = E
      /\ chip.reg \in Seq(Items) /\ chip \in Chips /\ n \in Nat
      /\ script = s \/ script = Sync \o s
  <2>1. script = s \/ script = Sync \o s
    BY DEF InReads
  <2>2. /\ E \in Seq(Items) /\ m \in Nat /\ m <= Len(E) /\ rest \in Seq(Cycles) /\ chip.pin = "ready"
        /\ got \in Seq(Items) /\ Len(got) <= m /\ got \o chip.reg = E
    BY DEF Readable, InReads
  <2>3. Len(got) \in Nat
    BY <2>2, EmptyHasNone
  <2>4. n \in Nat
    BY <2>2, <2>3
  <2>5. QED BY <2>1, <2>2, <2>3, <2>4, ChipTypes
<1>2. s \in Seq(Cycles)
  <2> HIDE DEF n
  <2>1. Reads(n) \in Seq(Cycles)
    BY <1>1, StatusType
  <2>2. QED BY <1>1, <2>1, Regroup
<1>3. CASE script = Sync \o s
  <2> HIDE DEF s
  <2>1. /\ Running /\ got' = got /\ chip' = chip /\ cells' = cells
        /\ script' = script \/ script' = s
    BY <1>1, <1>2, <1>3, SyncStep
  <2>2. InReads(E, m, rest)'
    BY <1>1, <1>3, <2>1 DEF InReads, s
  <2>3. QED BY <2>1, <2>2
<1>4. CASE script = s /\ n # 0
  <2> DEFINE c == [do |-> "read", arg |-> 0]
             t == Reads(n - 1) \o rest
  <2>1. Reads(n) \in Seq(Cycles) /\ Reads(n) # <<>> /\ Head(Reads(n)) = c /\ Tail(Reads(n)) = Reads(n - 1)
    <3> HIDE DEF n
    <3>1. QED BY <1>1, <1>4, ReadsFirst
  <2>2. c.do = "read"
    OBVIOUS
  <2> HIDE DEF c
  <2>3. script = <<c>> \o t /\ t \in Seq(Cycles) /\ c \in Cycles
    <3> DEFINE u == Reads(n)
    <3>1. u \in Seq(Cycles) /\ u # <<>> /\ script = u \o rest /\ c = Head(u) /\ t = Tail(u) \o rest
      BY <1>4, <2>1
    <3> HIDE DEF u, t, n, s
    <3>2. QED BY <1>1, <3>1, Splits
  <2> HIDE DEF t
  <2>4. Running /\ cells' = cells /\ script' = t /\ ReadsItem
    BY <1>1, <2>2, <2>3, CycleStep
  <2>5. chip.reg # <<>>
    <3>1. Len(got \o chip.reg) = Len(got) + Len(chip.reg) /\ Len(chip.reg) \in Nat
      BY <1>1, Join
    <3>2. Len(chip.reg) # 0
      BY <1>1, <1>4, <3>1
    <3>3. QED BY <1>1, <3>2, EmptyHasNone
  <2>6. Listens
    BY <1>1 DEF Listens, Hears
  <2>7. got' = Append(got, Head(chip.reg)) /\ chip' = [chip EXCEPT !.reg = Tail(chip.reg)]
    BY <2>4, <2>5, <2>6 DEF ReadsItem
  <2>8. chip'.pin = "ready" /\ chip'.reg = Tail(chip.reg)
    BY <1>1, <2>7 DEF Chips
  <2>9. /\ got' \o chip'.reg = E /\ got' \in Seq(Items) /\ Len(got') = Len(got) + 1
    <3> DEFINE g == got
               r == chip.reg
    <3>1. g \in Seq(Items) /\ r \in Seq(Items) /\ r # <<>> /\ g \o r = E
      BY <1>1, <2>5
    <3> HIDE DEF g, r
    <3>2. Append(g, Head(r)) \o Tail(r) = g \o r /\ Append(g, Head(r)) \in Seq(Items)
          /\ Len(Append(g, Head(r))) = Len(g) + 1
      BY <3>1, Grows
    <3>3. QED BY <2>7, <2>8, <3>1, <3>2 DEF g, r
  <2>10. Len(got') <= m /\ n - 1 = m - Len(got')
    BY <1>1, <1>4, <2>9
  <2>11. script' = Reads(m - Len(got')) \o rest
    BY <2>4, <2>10 DEF t
  <2>12. InReads(E, m, rest)'
    BY <2>8, <2>9, <2>10, <2>11 DEF InReads
  <2>13. QED BY <2>4, <2>12
<1>5. CASE script = s /\ n = 0
  <2>1. Len(got) = m
    BY <1>1, <1>5
  <2>2. script = rest
    <3>1. Reads(0) = <<>>
      BY StatusType
    <3>2. QED BY <1>1, <1>5, <3>1, NothingBefore
  <2>3. \A k \in 1..Len(got) : E[k] = got[k]
    <3>1. \A k \in 1..Len(got) : (got \o chip.reg)[k] = got[k]
      BY <1>1, Join
    <3>2. QED BY <1>1, <3>1
  <2>4. Holds(E, m)
    BY <1>1, <2>1, <2>3 DEF Holds
  <2>5. QED BY <2>1, <2>2, <2>4
<1>6. QED BY <1>1, <1>3, <1>4, <1>5

LEMMA SelectStep ==
  ASSUME serving # <<>>, FlashNext, chip.pin = "ready", NEW rest \in Seq(Cycles),
         script = Enable \o rest \/ script = Disable \o rest
  PROVE  Running /\ cells' = cells /\ chip' = chip /\ got' = got /\ script' = rest
<1>1. ASSUME NEW on \in BOOLEAN, script = <<[do |-> "select", arg |-> on]>> \o rest
      PROVE  Running /\ cells' = cells /\ chip' = chip /\ got' = got /\ script' = rest
  <2> DEFINE c == [do |-> "select", arg |-> on]
  <2>1. c \in Cycles /\ c.do = "select"
    BY DEF Cycles
  <2>2. script = <<c>> \o rest
    BY <1>1
  <2> HIDE DEF c
  <2>3. QED BY <2>1, <2>2, CycleStep
<1>2. QED BY <1>1 DEF Enable, Disable

LEMMA JobStep ==
  ASSUME FlashInv, HearsDisabled, serving # <<>>, FlashNext,
         NEW j, Proper(j), NEW rest \in Seq(Cycles), InJob(j, rest)
  PROVE  /\ Running /\ got' = got
         /\ \/ cells' = cells /\ InJob(j, rest)'
            \/ JobWorks(j, rest) /\ (chip_reads \/ chip_programs \/ chip_erases) /\ script' = script
<1>1. CASE JobBegins(j, rest)
  BY <1>1, BeginsStep DEF InJob
<1>2. CASE JobAddresses(j, rest)
  BY <1>2, AddressesMove
<1>3. CASE JobWrites(j, rest)
  BY <1>3, WritesMove
<1>4. CASE JobWorks(j, rest)
  BY <1>4, WorksMove
<1>5. QED BY <1>1, <1>2, <1>3, <1>4 DEF InJob

LEMMA SameJobs ==
  ASSUME pagesize' = pagesize
  PROVE  /\ ecccnt' = ecccnt /\ Layout' = Layout /\ Pointed' = Pointed
         /\ \A pg : OobJob(pg)' = OobJob(pg) /\ DataJob(pg)' = DataJob(pg)
         /\ \A pg, items : StoreJob(pg, items)' = StoreJob(pg, items)
         /\ \A page : Spare(page)' = Spare(page)
         /\ \A v, ff : AllOf(v, ff)' = AllOf(v, ff)
         /\ \A v : Written(v)' = Written(v)
<1>1. ecccnt' = ecccnt /\ Column0' = Column0
  BY DEF ecccnt, Column0
<1>2. ecccnt' = ecccnt /\ Layout' = Layout /\ Pointed' = Pointed
  BY <1>1 DEF Layout, Pointed
<1>3. ASSUME NEW pg PROVE OobJob(pg)' = OobJob(pg)
  BY DEF OobJob
<1>4. ASSUME NEW pg PROVE DataJob(pg)' = DataJob(pg)
  BY <1>1 DEF DataJob
<1>5. ASSUME NEW pg, NEW items PROVE StoreJob(pg, items)' = StoreJob(pg, items)
  BY <1>1 DEF StoreJob
<1>6. ASSUME NEW page PROVE Spare(page)' = Spare(page)
  BY <1>1 DEF Spare
<1>7. ASSUME NEW v, NEW ff PROVE AllOf(v, ff)' = AllOf(v, ff)
  BY <1>1 DEF AllOf, Same
<1>8. ASSUME NEW v PROVE Written(v)' = Written(v)
  BY <1>1 DEF Written
<1>9. QED BY <1>2, <1>3, <1>4, <1>5, <1>6, <1>7, <1>8

-----------------------------------------------------------------------------
(* The spare bytes of a page.                                              *)

InSpare(pg, rest) ==
  /\ cells = before
  /\ \/ got = <<>> /\ chip.pin = "ready" /\ script = SpareScript(pg, rest)
     \/ /\ got = <<>>
        /\ \E j, r : j = OobJob(pg) /\ r = Reads(1) \o (Disable \o rest) /\ InJob(j, r)
     \/ \E e : e = <<Spare(before[pg])>> /\ InReads(e, 1, Disable \o rest)

Spared(pg) ==
  /\ cells = before /\ chip.pin = "ready"
  /\ \E e : e = <<Spare(before[pg])>> /\ Holds(e, 1)

LEMMA SpareStep ==
  ASSUME FlashInv, HearsDisabled, serving # <<>>, FlashNext, NEW pg \in FlashPages, Fits(pg),
         NEW rest \in Seq(Cycles), before \in [FlashPages -> Layout], InSpare(pg, rest)
  PROVE  /\ Running /\ cells' = cells
         /\ InSpare(pg, rest)' \/ (Spared(pg)' /\ script' = rest)
<1> DEFINE r == Reads(1) \o (Disable \o rest)
           e == <<Spare(before[pg])>>
<1>1. pagesize \in PageSizes /\ pg \in Int /\ cells = before /\ chip \in Chips
  BY ChipTypes DEF Fits, InSpare
<1>2. Disable \o rest \in Seq(Cycles) /\ r \in Seq(Cycles)
  <2>1. Disable \in Seq(Cycles) /\ Reads(1) \in Seq(Cycles)
    BY Signals, StatusType
  <2>2. Disable \o rest \in Seq(Cycles)
    BY <2>1, Regroup
  <2>3. QED BY <2>1, <2>2, Regroup
<1>3. e \in Seq(Items) /\ Len(e) = 1 /\ Spare(before[pg]) \in Items
  <2>1. before[pg] \in Layout
    OBVIOUS
  <2>2. Spare(before[pg]) \in Items
    BY <1>1, <2>1, LayoutFacts
  <2>3. QED BY <2>2
<1>4. CASE got = <<>> /\ chip.pin = "ready" /\ script = SpareScript(pg, rest)
  <2> DEFINE s == Sends(OobJob(pg), r)
  <2>1. script = Enable \o s /\ s \in Seq(Cycles)
    BY <1>1, <1>2, <1>4, JobsProper, SendsType DEF SpareScript
  <2> HIDE DEF s
  <2>2. Running /\ cells' = cells /\ chip' = chip /\ got' = got /\ script' = s
    BY <1>4, <2>1, SelectStep
  <2>3. PICK j : j = OobJob(pg)
    OBVIOUS
  <2>4. JobBegins(j, r)'
    <3>1. script' = Sends(j, r)'
      BY <2>2, <2>3 DEF s, Sends, AfterAddress
    <3>2. j.cmd # "SEQIN"
      BY <2>3 DEF OobJob
    <3>3. QED BY <1>4, <2>2, <3>1, <3>2 DEF JobBegins
  <2>5. j = OobJob(pg)' /\ cells' = before'
    BY <1>1, <2>2, <2>3, SameJobs DEF Running
  <2>6. InSpare(pg, rest)'
    BY <1>4, <2>2, <2>4, <2>5 DEF InSpare, InJob
  <2>7. QED BY <2>2, <2>6
<1>5. ASSUME got = <<>>, NEW j, j = OobJob(pg), InJob(j, r)
      PROVE  Running /\ cells' = cells /\ InSpare(pg, rest)'
  <2>1. /\ Running /\ got' = got
        /\ \/ cells' = cells /\ InJob(j, r)'
           \/ JobWorks(j, r) /\ (chip_reads \/ chip_programs \/ chip_erases) /\ script' = script
    <3>1. Proper(j)
      BY <1>1, <1>5, JobsProper
    <3> HIDE DEF r
    <3>2. QED BY <1>2, <1>5, <3>1, JobStep
  <2>2. before' = before /\ pagesize' = pagesize
    BY <2>1 DEF Running
  <2>3. CASE cells' = cells /\ InJob(j, r)'
    <3>1. j = OobJob(pg)'
      BY <1>5, <2>2, SameJobs
    <3>2. InSpare(pg, rest)'
      BY <1>1, <1>5, <2>1, <2>2, <2>3, <3>1 DEF InSpare
    <3>3. QED BY <2>1, <2>3, <3>2
  <2>4. CASE JobWorks(j, r) /\ (chip_reads \/ chip_programs \/ chip_erases) /\ script' = script
    <3>1. cells' = cells /\ chip'.pin = "ready" /\ chip'.reg = <<Spare(cells[pg])>>
      <4> HIDE DEF r
      <4>1. QED BY <1>5, <2>4, ReadWorks
    <3>2. PICK x : x = e
      OBVIOUS
    <3>3. x = <<Spare(before[pg])>>'
      BY <2>2, <3>2, SameJobs
    <3>4. got' \o chip'.reg = x /\ got' = <<>>
      <4>1. chip'.reg = x
        BY <1>1, <3>1, <3>2
      <4>2. x \in Seq(Items)
        BY <1>3, <3>2
      <4>3. QED BY <1>5, <2>1, <4>1, <4>2, NothingBefore
    <3>5. script' = Sync \o (Reads(1 - Len(got')) \o (Disable \o rest))
      <4>1. 1 - Len(got') = 1
        BY <3>4
      <4>2. script' = Sync \o r
        BY <2>4 DEF JobWorks
      <4>3. QED BY <4>1, <4>2
    <3>6. InReads(x, 1, Disable \o rest)'
      <4>1. <<>> \in Seq(Items) /\ Len(<<>>) = 0
        OBVIOUS
      <4>2. got' \in Seq(Items) /\ Len(got') <= 1
        BY <3>4, <4>1
      <4>3. script' = Sync \o (Reads(1 - Len(got')) \o (Disable \o rest))
        BY <3>5
      <4>4. QED BY <3>1, <3>4, <4>2, <4>3 DEF InReads
    <3>7. InSpare(pg, rest)'
      BY <1>1, <2>2, <3>1, <3>3, <3>6 DEF InSpare
    <3>8. QED BY <2>1, <3>1, <3>7
  <2>5. QED BY <2>1, <2>3, <2>4
<1>6. ASSUME NEW x, x = e, InReads(x, 1, Disable \o rest)
      PROVE  /\ Running /\ cells' = cells
             /\ InSpare(pg, rest)' \/ (Spared(pg)' /\ script' = rest)
  <2>1. Readable(x, 1, Disable \o rest)
    BY <1>2, <1>3, <1>6 DEF Readable
  <2>2. \/ Running /\ cells' = cells /\ InReads(x, 1, Disable \o rest)'
        \/ Len(got) = 1 /\ script = Disable \o rest /\ Holds(x, 1)
    <3> DEFINE y == Disable \o rest
               m == 1
    <3>1. Readable(x, m, y) /\ InReads(x, m, y)
      BY <1>6, <2>1
    <3> HIDE DEF y, m, e, r
    <3>2. \/ Running /\ cells' = cells /\ InReads(x, m, y)'
          \/ Len(got) = m /\ script = y /\ Holds(x, m)
      BY <3>1, ReadsStep
    <3>3. QED BY <3>2 DEF y, m
  <2>3. ASSUME Running PROVE before' = before /\ x = <<Spare(before[pg])>>'
    <3>1. before' = before /\ pagesize' = pagesize
      BY <2>3 DEF Running
    <3>2. QED BY <1>6, <3>1, SameJobs
  <2>4. CASE Running /\ cells' = cells /\ InReads(x, 1, Disable \o rest)'
    BY <1>1, <2>3, <2>4 DEF InSpare
  <2>5. CASE Len(got) = 1 /\ script = Disable \o rest /\ Holds(x, 1)
    <3>1. chip.pin = "ready"
      BY <1>6 DEF InReads
    <3>2. Running /\ cells' = cells /\ chip' = chip /\ got' = got /\ script' = rest
      BY <2>5, <3>1, SelectStep
    <3>3. Holds(x, 1)'
      BY <2>5, <3>2 DEF Holds
    <3>4. Spared(pg)'
      BY <1>1, <2>3, <3>1, <3>2, <3>3 DEF Spared
    <3>5. QED BY <3>2, <3>4
  <2>6. QED BY <2>2, <2>4, <2>5
<1>7. QED
  <2>1. CASE got = <<>> /\ \E j, s : j = OobJob(pg) /\ s = r /\ InJob(j, s)
    BY <1>5, <2>1
  <2>2. CASE \E x : x = e /\ InReads(x, 1, Disable \o rest)
    BY <1>6, <2>2
  <2>3. QED BY <1>4, <2>1, <2>2 DEF InSpare

LEMMA WholeStep ==
  ASSUME FlashInv, FlashNext
  PROVE  FlashInv'
<1>1. QED BY CallsKeep, CommandKeeps, AddressKeeps, WriteKeeps, ReadKeeps, SelectKeeps, PollKeeps, SyncEndsKeeps,
         ReturnKeeps, BusyKeeps, WorkKeeps, DecayKeeps, StutterKeeps DEF FlashNext, Ended

\* The chip is disabled after the last read.
LEMMA LastStep ==
  ASSUME FlashInv, HearsDisabled, serving # <<>>, FlashNext,
         NEW E, NEW m, Readable(E, m, Disable), InReads(E, m, Disable)
  PROVE  /\ Running /\ cells' = cells
         /\ InReads(E, m, Disable)' \/ (Holds(E, m)' /\ script' = <<>>)
<1>1. \/ Running /\ cells' = cells /\ InReads(E, m, Disable)'
      \/ Len(got) = m /\ script = Disable /\ Holds(E, m)
  BY ReadsStep
<1>2. CASE Len(got) = m /\ script = Disable /\ Holds(E, m)
  <2>1. script = Disable \o <<>> /\ <<>> \in Seq(Cycles)
    <3>1. Disable \in Seq(Cycles) /\ <<>> \in Seq(Cycles)
      BY Signals
    <3>2. QED BY <1>2, <3>1, NothingBefore
  <2>2. chip.pin = "ready"
    BY DEF InReads
  <2>3. Running /\ cells' = cells /\ chip' = chip /\ got' = got /\ script' = <<>>
    BY <2>1, <2>2, SelectStep
  <2>4. Holds(E, m)'
    BY <1>2, <2>3 DEF Holds
  <2>5. QED BY <2>3, <2>4
<1>3. QED BY <1>1, <1>2

-----------------------------------------------------------------------------
(* Whether the work failed.                                                *)

Told(fail) == <<Item(<<"status", fail>>)>>

InReport(fail) ==
  \/ chip.pin = "ready" /\ chip.fail = fail /\ got = <<>> /\ (script = Status \/ script = Sync \o Status)
  \/ InReads(Told(fail), 1, Disable)
  \/ Holds(Told(fail), 1) /\ script = <<>>

LEMMA ToldType ==
  ASSUME NEW fail \in 0..1
  PROVE  Told(fail) \in Seq(Items) /\ Len(Told(fail)) = 1 /\ Readable(Told(fail), 1, Disable)
         /\ Told(fail)[1].v = <<"status", fail>>
<1>1. <<"status", fail>> \in Marks
  BY DEF Marks
<1>2. Item(<<"status", fail>>) \in Items
  BY <1>1, ItemType
<1>3. Told(fail) \in Seq(Items) /\ Len(Told(fail)) = 1
  BY <1>2 DEF Told
<1>4. Disable \in Seq(Cycles)
  BY Signals
<1>5. QED BY <1>3, <1>4 DEF Readable, Told, Item

LEMMA ReportStep ==
  ASSUME FlashInv, HearsDisabled, serving # <<>>, FlashNext, script # <<>>,
         NEW fail \in 0..1, InReport(fail)
  PROVE  Running /\ cells' = cells /\ InReport(fail)'
<1> DEFINE e == Told(fail)
<1>1. Readable(e, 1, Disable) /\ e \in Seq(Items)
  BY ToldType
<1>2. CASE InReads(e, 1, Disable)
  BY <1>1, <1>2, LastStep DEF InReport
<1>3. CASE chip.pin = "ready" /\ chip.fail = fail /\ got = <<>> /\ script = Sync \o Status
  <2>1. /\ Running /\ got' = got /\ chip' = chip /\ cells' = cells
        /\ script' = script \/ script' = Status
    <3>1. Status \in Seq(Cycles)
      BY StatusType
    <3>2. /\ Running /\ got' = got
          /\ \/ script' = script /\ chip' = chip /\ cells' = cells
             \/ script' = Status /\ chip' = chip /\ cells' = cells /\ chip.pin = "ready"
             \/ script' = script /\ chip.pin = "soon" /\ chip' = [chip EXCEPT !.pin = "busy"] /\ cells' = cells
             \/ script' = script /\ chip.pin = "busy" /\ (chip_reads \/ chip_programs \/ chip_erases)
      BY <1>3, <3>1, SyncStep
    <3>3. QED BY <1>3, <3>2
  <2>2. QED BY <1>3, <2>1 DEF InReport
<1>4. CASE chip.pin = "ready" /\ chip.fail = fail /\ got = <<>> /\ script = Status
  <2> DEFINE c == [do |-> "cmd", arg |-> "READ_STATUS"]
             r == Reads(1) \o Disable
  <2>1. c \in Cycles /\ c.do = "cmd" /\ c.arg = "READ_STATUS"
    BY DEF Cycles
  <2>2. script = <<c>> \o r /\ r \in Seq(Cycles)
    BY <1>4, StatusType
  <2> HIDE DEF c, r
  <2>3. Running /\ cells' = cells /\ script' = r /\ chip' = Commanded("READ_STATUS") /\ got' = got
    BY <1>4, <2>1, <2>2, CycleStep
  <2>4. chip' = [chip EXCEPT !.reg = e]
    <3> DEFINE m == "READ_STATUS"
               w == <<Item(<<"status", chip.fail>>)>>
    <3>1. m \notin Opens /\ m = "READ_STATUS" /\ Hears /\ <<m, chip.cmd>> \notin Starts
      BY DEF Opens, Hears, Starts
    <3>2. w = e
      BY <1>4 DEF Told
    <3> HIDE DEF e
    <3>3. Commanded(m) = [chip EXCEPT !.reg = w]
      <4> HIDE DEF m
      <4>1. QED BY <3>1 DEF Commanded
    <3> HIDE DEF w
    <3>4. QED BY <2>3, <3>2, <3>3
  <2>5. chip'.pin = "ready" /\ chip'.reg = e
    BY <1>4, <2>4, ChipTypes DEF Chips
  <2>6. got' \o chip'.reg = e /\ got' \in Seq(Items) /\ Len(got') = 0
    <3>1. got' = <<>> /\ <<>> \in Seq(Items) /\ Len(<<>>) = 0
      BY <1>4, <2>3
    <3> HIDE DEF e
    <3>2. QED BY <1>1, <2>5, <3>1, NothingBefore
  <2>7. script' = Reads(1 - Len(got')) \o Disable
    BY <2>3, <2>6 DEF r
  <2>8. InReads(e, 1, Disable)'
    <3>1. Len(got') <= 1
      BY <2>6
    <3> HIDE DEF e
    <3>2. PICK x : x = e
      OBVIOUS
    <3>3. InReads(x, 1, Disable)'
      BY <2>5, <2>6, <2>7, <3>1, <3>2 DEF InReads
    <3>4. QED BY <3>2, <3>3 DEF e, Told
  <2>9. QED BY <2>3, <2>8 DEF InReport
<1>5. QED BY <1>2, <1>3, <1>4 DEF InReport

-----------------------------------------------------------------------------
(* Programming a page, or marking one.                                     *)

InStore(pg, items) ==
  \/ cells = before /\ got = <<>> /\ chip.pin = "ready" /\ script = StoreScript(pg, items)
  \/ /\ cells = before /\ got = <<>> /\ chip.pin = "ready"
     /\ script = Pointed \o Sends(StoreJob(pg, items), Status)
  \/ cells = before /\ got = <<>> /\ \E j : j = StoreJob(pg, items) /\ InJob(j, Status)
  \/ \E fail \in 0..1, kept \in BOOLEAN :
       cells = StoredAs(before, pg, items, fail, kept) /\ InReport(fail)

LEMMA SameStore ==
  ASSUME pagesize' = pagesize, before' = before, NEW pg, NEW items, NEW fail, NEW kept
  PROVE  /\ StoredAs(before, pg, items, fail, kept)' = StoredAs(before, pg, items, fail, kept)
         /\ ErasedAs(before, pg, fail)' = ErasedAs(before, pg, fail)
<1>1. ecccnt' = ecccnt
  BY DEF ecccnt
<1>2. ASSUME NEW v, NEW ff PROVE AllOf(v, ff)' = AllOf(v, ff)
  BY SameJobs
<1>3. ASSUME NEW page PROVE Spare(page)' = Spare(page)
  BY SameJobs
<1>4. ASSUME NEW page PROVE Filled(page, items)' = Filled(page, items)
  BY <1>1, <1>2, <1>3 DEF Filled, Rubbish
<1>5. QED BY <1>2, <1>3, <1>4 DEF StoredAs, ErasedAs

LEMMA StoreStep ==
  ASSUME FlashInv, HearsDisabled, serving # <<>>, FlashNext, script # <<>>, NEW pg, Fits(pg),
         NEW items \in Layout, InStore(pg, items)
  PROVE  Running /\ InStore(pg, items)'
<1>1. /\ pagesize \in PageSizes /\ pg \in Int /\ chip \in Chips /\ Status \in Seq(Cycles)
      /\ Pointed \in Seq(Cycles) /\ items \in Seq(Items)
  <2>1. Cmd("READA") \in Seq(Cycles)
    BY Signals DEF Opens
  <2>2. <<>> \in Seq(Cycles)
    OBVIOUS
  <2>3. Pointed \in Seq(Cycles)
    BY <2>1, <2>2 DEF Pointed, If
  <2>4. items \in Seq(Items)
    BY LayoutFacts, ChipTypes
  <2>5. QED BY <2>3, <2>4, ChipTypes, StatusType DEF Fits
<1>2. Proper(StoreJob(pg, items))
  BY <1>1, JobsProper
<1>3. PICK j : j = StoreJob(pg, items)
  OBVIOUS
<1> DEFINE s == Sends(j, Status)
<1>4. s \in Seq(Cycles) /\ j.cmd = "SEQIN" /\ Proper(j)
  BY <1>1, <1>2, <1>3, SendsType DEF StoreJob
<1>5. ASSUME Running
      PROVE  /\ before' = before /\ pagesize' = pagesize /\ j = StoreJob(pg, items)' /\ s' = s
             /\ Pointed' = Pointed
  <2>1. before' = before /\ pagesize' = pagesize
    BY <1>5 DEF Running
  <2>2. s' = s
    BY DEF Sends, AfterAddress
  <2>3. QED BY <1>3, <2>1, <2>2, SameJobs
<1>6. CASE cells = before /\ got = <<>> /\ chip.pin = "ready" /\ script = StoreScript(pg, items)
  <2> DEFINE r == Pointed \o s
  <2>1. r \in Seq(Cycles)
    <3> HIDE DEF s
    <3>1. QED BY <1>1, <1>4, Regroup
  <2>2. script = Enable \o r
    BY <1>3, <1>6 DEF StoreScript
  <2> HIDE DEF r
  <2>3. Running /\ cells' = cells /\ chip' = chip /\ got' = got /\ script' = r
    BY <1>6, <2>1, <2>2, SelectStep
  <2>4. script' = (Pointed \o Sends(StoreJob(pg, items), Status))'
    BY <1>3, <1>5, <2>3 DEF r
  <2>5. InStore(pg, items)'
    BY <1>5, <1>6, <2>3, <2>4 DEF InStore
  <2>6. QED BY <2>3, <2>5
<1>7. CASE cells = before /\ got = <<>> /\ InJob(j, Status)
  <2>1. /\ Running /\ got' = got
        /\ \/ cells' = cells /\ InJob(j, Status)'
           \/ JobWorks(j, Status) /\ (chip_reads \/ chip_programs \/ chip_erases) /\ script' = script
    BY <1>1, <1>4, <1>7, JobStep
  <2>2. CASE cells' = cells /\ InJob(j, Status)'
    BY <1>5, <1>7, <2>1, <2>2 DEF InStore
  <2>3. CASE JobWorks(j, Status) /\ (chip_reads \/ chip_programs \/ chip_erases) /\ script' = script
    <3>1. chip'.pin = "ready" /\ \E kept \in BOOLEAN : cells' = StoredAs(cells, pg, items, chip'.fail, kept)
      BY <1>1, <1>3, <2>3, StoreWorks
    <3>2. PICK kept \in BOOLEAN : cells' = StoredAs(cells, pg, items, chip'.fail, kept)
      BY <3>1
    <3>3. chip'.fail \in 0..1
      <4>1. FlashInv'
        BY WholeStep
      <4>2. QED BY <4>1 DEF FlashInv, FlashTypes, Chips
    <3>4. PICK fail \in 0..1 : fail = chip'.fail
      BY <3>3
    <3>5. InReport(fail)'
      BY <1>7, <2>1, <2>3, <3>1, <3>4 DEF InReport, JobWorks
    <3>6. cells' = StoredAs(before, pg, items, fail, kept)'
      <4>1. pagesize' = pagesize /\ before' = before
        BY <1>5, <2>1
      <4>2. StoredAs(before, pg, items, fail, kept)' = StoredAs(before, pg, items, fail, kept)
        BY <4>1, SameStore
      <4>3. QED BY <1>7, <3>2, <3>4, <4>2
    <3>7. InStore(pg, items)'
      BY <3>5, <3>6 DEF InStore
    <3>8. QED BY <2>1, <3>7
  <2>4. QED BY <2>1, <2>2, <2>3
<1>8. CASE /\ cells = before /\ got = <<>> /\ chip.pin = "ready"
           /\ script = Pointed \o Sends(StoreJob(pg, items), Status)
  <2>1. script = Pointed \o s
    BY <1>3, <1>8
  <2>2. CASE pagesize # 512
    <3>1. Pointed = <<>>
      BY <2>2 DEF Pointed, If
    <3>2. script = s
      <4> HIDE DEF s
      <4>1. QED BY <1>4, <2>1, <3>1, NothingBefore
    <3>3. InJob(j, Status)
      BY <1>8, <2>2, <3>2 DEF InJob, JobBegins
    <3>4. QED BY <1>7, <1>8, <3>3
  <2>3. CASE pagesize = 512
    <3> DEFINE c == [do |-> "cmd", arg |-> "READA"]
    <3>1. Pointed = <<c>>
      BY <2>3 DEF Pointed, If, Cmd
    <3>2. c \in Cycles /\ c.do = "cmd" /\ c.arg = "READA"
      BY DEF Cycles, Opens
    <3> HIDE DEF c, s
    <3>3. /\ Running /\ cells' = cells /\ script' = s /\ got' = got /\ chip' = Commanded("READA")
      BY <1>4, <1>8, <2>1, <3>1, <3>2, CycleStep
    <3>4. chip' = [chip EXCEPT !.cmd = "READA", !.addr = <<>>, !.data = <<>>, !.reg = <<>>, !.area = "data"]
      <4> DEFINE m == "READA"
      <4>1. Listens
        BY <1>8 DEF Listens, Hears
      <4>2. m \in Opens /\ m = "READA" /\ chip' = Commanded(m)
        BY <3>3 DEF Opens
      <4> HIDE DEF m
      <4>3. chip' = [chip EXCEPT !.cmd = m, !.addr = <<>>, !.data = <<>>, !.reg = <<>>,
                       !.area = CASE m = "READA" -> "data" [] m = "READC" -> "oob" [] OTHER -> @]
        BY <4>1, <4>2 DEF Commanded, Opens, Starts
      <4>4. QED BY <4>2, <4>3
    <3>5. chip'.pin = "ready" /\ chip'.area = "data"
      BY <1>1, <1>8, <3>4 DEF Chips
    <3>6. JobBegins(j, Status)'
      BY <1>5, <3>3, <3>5 DEF JobBegins, s
    <3>7. InStore(pg, items)'
      BY <1>5, <1>8, <3>3, <3>6 DEF InStore, InJob
    <3>8. QED BY <3>3, <3>7
  <2>4. QED BY <2>2, <2>3
<1>9. ASSUME NEW fail \in 0..1, NEW kept \in BOOLEAN,
             cells = StoredAs(before, pg, items, fail, kept), InReport(fail)
      PROVE  Running /\ InStore(pg, items)'
  <2>1. Running /\ cells' = cells /\ InReport(fail)'
    BY <1>9, ReportStep
  <2>2. StoredAs(before, pg, items, fail, kept)' = StoredAs(before, pg, items, fail, kept)
    BY <1>5, <2>1, SameStore
  <2>3. QED BY <1>9, <2>1, <2>2 DEF InStore
<1>10. QED BY <1>3, <1>6, <1>7, <1>8, <1>9 DEF InStore

-----------------------------------------------------------------------------
(* Erasing a block.                                                        *)

InErase(pg) ==
  \/ cells = before /\ got = <<>> /\ chip.pin = "ready" /\ script = EraseBlockScript(pg)
  \/ cells = before /\ got = <<>> /\ \E j : j = EraseJob(pg) /\ InJob(j, Status)
  \/ \E fail \in 0..1 : cells = ErasedAs(before, pg, fail) /\ InReport(fail)

LEMMA EraseStep ==
  ASSUME FlashInv, HearsDisabled, serving # <<>>, FlashNext, script # <<>>, NEW pg, Fits(pg), InErase(pg)
  PROVE  Running /\ InErase(pg)'
<1>1. pagesize \in PageSizes /\ pg \in Int /\ chip \in Chips /\ Status \in Seq(Cycles)
  BY ChipTypes, StatusType DEF Fits
<1>2. PICK j : j = EraseJob(pg)
  OBVIOUS
<1> DEFINE s == Sends(j, Status)
<1>3. s \in Seq(Cycles) /\ j.cmd = "ERASE_SETUP" /\ Proper(j)
  BY <1>1, <1>2, JobsProper, SendsType DEF EraseJob
<1>4. ASSUME Running PROVE before' = before /\ pagesize' = pagesize /\ j = EraseJob(pg)' /\ s' = s
  <2>1. s' = s
    BY DEF Sends, AfterAddress
  <2>2. EraseJob(pg)' = EraseJob(pg)
    BY DEF EraseJob
  <2>3. QED BY <1>2, <1>4, <2>1, <2>2 DEF Running
<1>5. CASE cells = before /\ got = <<>> /\ chip.pin = "ready" /\ script = EraseBlockScript(pg)
  <2>1. script = Enable \o s
    BY <1>2, <1>5 DEF EraseBlockScript
  <2>2. Running /\ cells' = cells /\ chip' = chip /\ got' = got /\ script' = s
    <3> HIDE DEF s
    <3>1. QED BY <1>3, <1>5, <2>1, SelectStep
  <2>3. JobBegins(j, Status)'
    BY <1>3, <1>4, <1>5, <2>2 DEF JobBegins
  <2>4. InErase(pg)'
    BY <1>4, <1>5, <2>2, <2>3 DEF InErase, InJob
  <2>5. QED BY <2>2, <2>4
<1>6. CASE cells = before /\ got = <<>> /\ InJob(j, Status)
  <2>1. /\ Running /\ got' = got
        /\ \/ cells' = cells /\ InJob(j, Status)'
           \/ JobWorks(j, Status) /\ (chip_reads \/ chip_programs \/ chip_erases) /\ script' = script
    BY <1>1, <1>3, <1>6, JobStep
  <2>2. CASE cells' = cells /\ InJob(j, Status)'
    BY <1>4, <1>6, <2>1, <2>2 DEF InErase
  <2>3. CASE JobWorks(j, Status) /\ (chip_reads \/ chip_programs \/ chip_erases) /\ script' = script
    <3>1. chip'.pin = "ready" /\ cells' = ErasedAs(cells, pg, chip'.fail)
      BY <1>1, <1>2, <2>3, EraseWorks
    <3>2. chip'.fail \in 0..1
      <4>1. FlashInv'
        BY WholeStep
      <4>2. QED BY <4>1 DEF FlashInv, FlashTypes, Chips
    <3>3. PICK fail \in 0..1 : fail = chip'.fail
      BY <3>2
    <3>4. InReport(fail)'
      BY <1>6, <2>1, <2>3, <3>1, <3>3 DEF InReport, JobWorks
    <3>5. cells' = ErasedAs(before, pg, fail)'
      <4>1. pagesize' = pagesize /\ before' = before
        BY <1>4, <2>1
      <4>2. ErasedAs(before, pg, fail)' = ErasedAs(before, pg, fail)
        BY <4>1, SameStore
      <4>3. QED BY <1>6, <3>1, <3>3, <4>2
    <3>6. InErase(pg)'
      BY <3>4, <3>5 DEF InErase
    <3>7. QED BY <2>1, <3>6
  <2>4. QED BY <2>1, <2>2, <2>3
<1>7. ASSUME NEW fail \in 0..1, cells = ErasedAs(before, pg, fail), InReport(fail)
      PROVE  Running /\ InErase(pg)'
  <2>1. Running /\ cells' = cells /\ InReport(fail)'
    BY <1>7, ReportStep
  <2>2. ErasedAs(before, pg, fail)' = ErasedAs(before, pg, fail)
    BY <1>4, <2>1, SameStore
  <2>3. QED BY <1>7, <2>1, <2>2 DEF InErase
<1>8. QED BY <1>2, <1>5, <1>6, <1>7 DEF InErase

-----------------------------------------------------------------------------
(* Looking for the mark, and the names of the chip.                        *)

InCheck(pg) == InSpare(pg, <<>>) \/ (Spared(pg) /\ script = <<>>)

LEMMA CheckStep ==
  ASSUME FlashInv, HearsDisabled, serving # <<>>, FlashNext, script # <<>>, NEW pg \in FlashPages, Fits(pg),
         before \in [FlashPages -> Layout], InCheck(pg)
  PROVE  Running /\ InCheck(pg)'
<1>1. <<>> \in Seq(Cycles)
  OBVIOUS
<1>2. InSpare(pg, <<>>)
  BY DEF InCheck
<1>3. Running /\ (InSpare(pg, <<>>)' \/ (Spared(pg)' /\ script' = <<>>))
  BY <1>1, <1>2, SpareStep
<1>4. QED BY <1>3 DEF InCheck

Names == <<Item(<<"vid", 0>>), Item(<<"did", 0>>)>>

InQuery ==
  /\ cells = before
  /\ \/ got = <<>> /\ chip.pin = "ready" /\ script = nand_query_4740
     \/ /\ got = <<>> /\ chip.pin = "ready" /\ chip.cmd = "READID"
        /\ script = <<[do |-> "addr", arg |-> 0]>> \o Reads(2)
     \/ InReads(Names, 2, <<>>)

LEMMA NamesType ==
  Readable(Names, 2, <<>>) /\ Names \in Seq(Items) /\ Names[1].v[1] = "vid" /\ Names[2].v[1] = "did"
<1>1. <<"vid", 0>> \in Marks /\ <<"did", 0>> \in Marks
  BY DEF Marks
<1>2. Item(<<"vid", 0>>) \in Items /\ Item(<<"did", 0>>) \in Items
  BY <1>1, ItemType
<1> DEFINE x == Item(<<"vid", 0>>)
           y == Item(<<"did", 0>>)
<1>3. x.v[1] = "vid" /\ y.v[1] = "did"
  BY DEF Item
<1> HIDE DEF x, y
<1>4. <<x, y>> \in Seq(Items) /\ Len(<<x, y>>) = 2 /\ <<x, y>>[1] = x /\ <<x, y>>[2] = y
  BY <1>2 DEF x, y
<1>5. Names = <<x, y>>
  BY DEF Names, x, y
<1>6. <<>> \in Seq(Cycles)
  OBVIOUS
<1>7. QED BY <1>3, <1>4, <1>5, <1>6 DEF Readable

LEMMA QueryStep ==
  ASSUME FlashInv, HearsDisabled, serving # <<>>, FlashNext, script # <<>>, InQuery
  PROVE  Running /\ InQuery'
<1>1. chip \in Chips /\ chip.pin \in {"ready", "soon", "busy"} /\ cells = before
  BY ChipTypes DEF InQuery
<1> DEFINE c == [do |-> "cmd", arg |-> "READID"]
           a == [do |-> "addr", arg |-> 0]
           r == <<a>> \o Reads(2)
<1>2. /\ c \in Cycles /\ c.do = "cmd" /\ c.arg = "READID" /\ a \in Cycles /\ a.do = "addr" /\ a.arg = 0
  BY DEF Cycles, Opens
<1>3. nand_query_4740 = <<c>> \o r /\ r \in Seq(Cycles) /\ Reads(2) \in Seq(Cycles)
  BY QueryCycles, StatusType
<1> HIDE DEF c, a, r
<1>4. CASE got = <<>> /\ chip.pin = "ready" /\ script = nand_query_4740
  <2>1. Running /\ cells' = cells /\ script' = r /\ chip' = Commanded("READID") /\ got' = got
    BY <1>2, <1>3, <1>4, CycleStep
  <2>2. chip'.pin = "ready" /\ chip'.cmd = "READID"
    <3> DEFINE m == "READID"
    <3>1. Listens
      BY <1>4 DEF Listens, Hears
    <3>2. m \in Opens /\ m = "READID" /\ chip' = Commanded(m)
      BY <2>1 DEF Opens
    <3> HIDE DEF m
    <3>3. chip' = [chip EXCEPT !.cmd = m, !.addr = <<>>, !.data = <<>>, !.reg = <<>>,
                     !.area = CASE m = "READA" -> "data" [] m = "READC" -> "oob" [] OTHER -> @]
      BY <3>1, <3>2 DEF Commanded, Opens, Starts
    <3>4. QED BY <1>1, <1>4, <3>2, <3>3 DEF Chips
  <2>3. before' = before
    BY <2>1 DEF Running
  <2>4. QED BY <1>1, <1>4, <2>1, <2>2, <2>3 DEF InQuery, r, a
<1>5. CASE got = <<>> /\ chip.pin = "ready" /\ chip.cmd = "READID" /\ script = r
  <2>1. Running /\ cells' = cells /\ script' = Reads(2) /\ chip' = Addressed(0) /\ got' = got
    BY <1>2, <1>3, <1>5, CycleStep DEF r
  <2>2. chip'.pin = "ready" /\ chip'.reg = Names
    <3> DEFINE b == Append(chip.addr, 0)
    <3>1. Listens
      BY <1>5 DEF Listens, Hears
    <3>2. chip' = [[chip EXCEPT !.addr = b] EXCEPT !.reg = Names]
      BY <1>5, <2>1, <3>1 DEF Addressed, Names
    <3> HIDE DEF b
    <3>3. QED BY <1>1, <1>5, <3>2 DEF Chips
  <2>3. got' \o chip'.reg = Names /\ got' \in Seq(Items) /\ Len(got') = 0
    <3>1. got' = <<>> /\ <<>> \in Seq(Items) /\ Len(<<>>) = 0
      BY <1>5, <2>1
    <3>2. Names \in Seq(Items)
      BY NamesType
    <3>3. QED BY <2>2, <3>1, <3>2, NothingBefore
  <2>4. script' = Reads(2 - Len(got')) \o <<>>
    <3>1. Reads(2) = Reads(2) \o <<>>
      BY <1>3, NothingBefore
    <3>2. 2 - Len(got') = 2
      BY <2>3
    <3>3. QED BY <2>1, <3>1, <3>2
  <2>5. InReads(Names, 2, <<>>)'
    <3>1. PICK x : x = Names
      OBVIOUS
    <3>2. InReads(x, 2, <<>>)'
      BY <2>2, <2>3, <2>4, <3>1 DEF InReads
    <3>3. QED BY <3>1, <3>2 DEF Names
  <2>6. before' = before
    BY <2>1 DEF Running
  <2>7. QED BY <1>1, <2>1, <2>5, <2>6 DEF InQuery
<1>6. CASE InReads(Names, 2, <<>>)
  <2>1. PICK x : x = Names
    OBVIOUS
  <2>2. \/ Running /\ cells' = cells /\ InReads(x, 2, <<>>)'
        \/ Len(got) = 2 /\ script = <<>> /\ Holds(x, 2)
    <3> DEFINE m == 2
               y == <<>>
    <3>1. Readable(x, m, y) /\ InReads(x, m, y)
      BY <1>6, <2>1, NamesType
    <3> HIDE DEF m, y
    <3>2. \/ Running /\ cells' = cells /\ InReads(x, m, y)'
          \/ Len(got) = m /\ script = y /\ Holds(x, m)
      BY <3>1, ReadsStep
    <3>3. QED BY <3>2 DEF m, y
  <2>3. Running /\ cells' = cells /\ InReads(x, 2, <<>>)'
    BY <2>2
  <2>4. InReads(Names, 2, <<>>)'
    BY <2>1, <2>3 DEF Names
  <2>5. QED BY <1>1, <2>3, <2>4 DEF InQuery, Running
<1>7. QED BY <1>4, <1>5, <1>6 DEF InQuery, r, a

-----------------------------------------------------------------------------
(* Reading a page.                                                         *)

InRead(pg) ==
  /\ cells = before
  /\ \/ got = <<>> /\ chip.pin = "ready" /\ script = Enable \o SpareScript(pg, PageScript(pg))
     \/ \E r : r = PageScript(pg) /\ InSpare(pg, r)
     \/ /\ \E e : e = <<Spare(before[pg])>> /\ Holds(e, 1)
        /\ \E j, r : j = DataJob(pg) /\ r = Reads(ecccnt) \o Disable /\ InJob(j, r)
     \/ \E e : /\ e = <<Spare(before[pg])>> \o before[pg]
               /\ \/ InReads(e, ecccnt + 1, Disable)
                  \/ Holds(e, ecccnt + 1) /\ script = <<>>

LEMMA ReadStep ==
  ASSUME FlashInv, HearsDisabled, serving # <<>>, FlashNext, script # <<>>, NEW pg \in FlashPages, Fits(pg),
         before \in [FlashPages -> Layout], InRead(pg)
  PROVE  Running /\ InRead(pg)'
<1>1. pagesize \in PageSizes /\ pg \in Int /\ cells = before /\ chip \in Chips /\ ecccnt \in Nat \ {0}
  BY ChipTypes, Ecccnt DEF Fits, InRead
<1>2. PICK rest : rest = PageScript(pg)
  OBVIOUS
<1>3. PICK j : j = DataJob(pg)
  OBVIOUS
<1>4. PICK r : r = Reads(ecccnt) \o Disable
  OBVIOUS
<1>5. PICK m : m = ecccnt + 1
  OBVIOUS
<1>6. PICK e : e = <<Spare(before[pg])>>
  OBVIOUS
<1>7. PICK f : f = e \o before[pg]
  OBVIOUS
<1>8. /\ before[pg] \in Seq(Items) /\ Len(before[pg]) = ecccnt + 1 /\ Spare(before[pg]) \in Items
      /\ e \in Seq(Items) /\ f \in Seq(Items) /\ Len(f) = ecccnt + 2 /\ Len(e) = 1
  <2>1. before[pg] \in Layout
    OBVIOUS
  <2>2. before[pg] \in Seq(Items) /\ Len(before[pg]) = ecccnt + 1 /\ Spare(before[pg]) \in Items
    BY <1>1, <2>1, LayoutFacts
  <2>3. e \in Seq(Items) /\ Len(e) = 1
    BY <1>6, <2>2
  <2>4. f \in Seq(Items) /\ Len(f) = Len(e) + Len(before[pg])
    BY <1>7, <2>2, <2>3, Join
  <2>5. Len(f) = ecccnt + 2
    BY <1>1, <2>2, <2>3, <2>4
  <2>6. QED BY <2>2, <2>3, <2>4, <2>5
<1>9. /\ rest \in Seq(Cycles) /\ r \in Seq(Cycles) /\ rest = Sends(j, r) /\ Proper(j)
      /\ Disable \in Seq(Cycles) /\ j.cmd = "READA"
  <2>1. rest \in Seq(Cycles)
    BY <1>1, <1>2, PageCycles
  <2>2. Disable \in Seq(Cycles)
    BY Signals
  <2>3. Reads(ecccnt) \in Seq(Cycles)
    BY <1>1, StatusType
  <2>4. r \in Seq(Cycles)
    BY <1>4, <2>2, <2>3, Regroup
  <2>5. rest = Sends(j, r)
    BY <1>2, <1>3, <1>4 DEF PageScript
  <2>6. Proper(j) /\ j.cmd = "READA"
    BY <1>1, <1>3, JobsProper DEF DataJob
  <2>7. QED BY <2>1, <2>2, <2>4, <2>5, <2>6
<1>10. Readable(f, m, Disable)
  <2>1. m \in Nat /\ m <= Len(f)
    BY <1>1, <1>5, <1>8
  <2>2. QED BY <1>8, <1>9, <2>1 DEF Readable
<1>11. ASSUME Running
       PROVE  /\ before' = before /\ pagesize' = pagesize /\ j = DataJob(pg)' /\ rest = PageScript(pg)'
              /\ r = (Reads(ecccnt) \o Disable)' /\ m = ecccnt' + 1 /\ e = <<Spare(before[pg])>>'
              /\ f = e \o before[pg]'
  <2>1. before' = before /\ pagesize' = pagesize
    BY <1>11 DEF Running
  <2>2. ecccnt' = ecccnt /\ DataJob(pg)' = DataJob(pg) /\ Spare(before[pg])' = Spare(before[pg])
    BY <2>1, SameJobs
  <2>3. r = (Reads(ecccnt) \o Disable)'
    BY <1>4, <2>2
  <2>4. PageScript(pg)' = PageScript(pg)
    BY <2>2 DEF PageScript, Sends, AfterAddress
  <2>5. QED BY <1>2, <1>3, <1>5, <1>6, <1>7, <2>1, <2>2, <2>3, <2>4
<1>12. CASE got = <<>> /\ chip.pin = "ready" /\ script = Enable \o SpareScript(pg, PageScript(pg))
  <2> DEFINE s == SpareScript(pg, rest)
  <2>1. s \in Seq(Cycles)
    <3> DEFINE x == Reads(1) \o (Disable \o rest)
               y == Sends(OobJob(pg), x)
    <3>1. Disable \o rest \in Seq(Cycles) /\ Reads(1) \in Seq(Cycles)
      BY <1>9, Regroup, StatusType
    <3>2. x \in Seq(Cycles)
      BY <3>1, Regroup
    <3> HIDE DEF x
    <3>3. y \in Seq(Cycles)
      BY <1>1, <3>2, JobsProper, SendsType
    <3> HIDE DEF y
    <3>4. Enable \o y \in Seq(Cycles)
      BY <3>3, Signals, Regroup
    <3>5. QED BY <3>4 DEF SpareScript, x, y
  <2>2. script = Enable \o s
    BY <1>2, <1>12
  <2> HIDE DEF s
  <2>3. Running /\ cells' = cells /\ chip' = chip /\ got' = got /\ script' = s
    BY <1>12, <2>1, <2>2, SelectStep
  <2>4. SpareScript(pg, rest)' = SpareScript(pg, rest)
    <3>1. pagesize' = pagesize
      BY <1>11, <2>3
    <3>2. OobJob(pg)' = OobJob(pg)
      BY <3>1, SameJobs
    <3>3. QED BY <3>2 DEF SpareScript, Sends, AfterAddress
  <2>5. InSpare(pg, rest)'
    BY <1>1, <1>11, <1>12, <2>3, <2>4 DEF InSpare, s
  <2>6. InRead(pg)'
    BY <1>1, <1>11, <2>3, <2>5 DEF InRead
  <2>7. QED BY <2>3, <2>6
<1>13. CASE InSpare(pg, rest)
  <2>1. Running /\ cells' = cells /\ (InSpare(pg, rest)' \/ (Spared(pg)' /\ script' = rest))
    BY <1>9, <1>13, SpareStep
  <2>2. before' = before /\ cells' = before'
    BY <1>1, <1>11, <2>1
  <2>3. CASE InSpare(pg, rest)'
    BY <1>11, <2>1, <2>2, <2>3 DEF InRead
  <2>4. CASE Spared(pg)' /\ script' = rest
    <3>1. Holds(e, 1)' /\ chip'.pin = "ready"
      BY <1>11, <2>1, <2>4 DEF Spared
    <3>2. JobBegins(j, r)'
      <4>1. Sends(j, r)' = Sends(j, r)
        BY DEF Sends, AfterAddress
      <4>2. QED BY <1>9, <2>4, <3>1, <4>1 DEF JobBegins
    <3>3. InRead(pg)'
      BY <1>11, <2>1, <2>2, <3>1, <3>2 DEF InRead, InJob
    <3>4. QED BY <2>1, <3>3
  <2>5. QED BY <2>1, <2>3, <2>4
<1>14. CASE Holds(e, 1) /\ InJob(j, r)
  <2>1. /\ Running /\ got' = got
        /\ \/ cells' = cells /\ InJob(j, r)'
           \/ JobWorks(j, r) /\ (chip_reads \/ chip_programs \/ chip_erases) /\ script' = script
    BY <1>9, <1>14, JobStep
  <2>2. Holds(e, 1)' /\ before' = before
    BY <1>11, <1>14, <2>1 DEF Holds
  <2>3. CASE cells' = cells /\ InJob(j, r)'
    BY <1>1, <1>11, <2>1, <2>2, <2>3 DEF InRead
  <2>4. CASE JobWorks(j, r) /\ (chip_reads \/ chip_programs \/ chip_erases) /\ script' = script
    <3>1. cells' = cells /\ chip'.pin = "ready" /\ chip'.reg = cells[pg]
      BY <1>3, <2>4, ReadWorks
    <3>2. got' \in Seq(Items) /\ Len(got') = 1 /\ got' = e
      <4>1. got' \in Seq(Items) /\ Len(got') = 1 /\ got'[1] = e[1]
        BY <2>2 DEF Holds
      <4>2. \A k \in 1..Len(got') : got'[k] = e[k]
        BY <2>2 DEF Holds
      <4>3. got' = e
        BY <1>8, <4>1, <4>2, SameSequence
      <4>4. QED BY <4>1, <4>3
    <3>3. got' \o chip'.reg = f
      BY <1>1, <1>7, <3>1, <3>2
    <3>4. script' = Sync \o (Reads(m - Len(got')) \o Disable)
      <4>1. m - Len(got') = ecccnt
        BY <1>1, <1>5, <3>2
      <4>2. script' = Sync \o r
        BY <2>4 DEF JobWorks
      <4>3. QED BY <1>4, <4>1, <4>2
    <3>5. InReads(f, m, Disable)'
      <4>1. Len(got') <= m
        BY <1>1, <1>5, <3>2
      <4>2. QED BY <3>1, <3>2, <3>3, <3>4, <4>1 DEF InReads
    <3>6. InRead(pg)'
      BY <1>1, <1>11, <2>1, <3>1, <3>5 DEF InRead
    <3>7. QED BY <2>1, <3>6
  <2>5. QED BY <2>1, <2>3, <2>4
<1>15. CASE InReads(f, m, Disable)
  <2>1. Running /\ cells' = cells /\ (InReads(f, m, Disable)' \/ (Holds(f, m)' /\ script' = <<>>))
    BY <1>10, <1>15, LastStep
  <2>2. InRead(pg)'
    BY <1>1, <1>11, <2>1 DEF InRead
  <2>3. QED BY <2>1, <2>2
<1>16. QED
  <2>1. CASE \E x : x = PageScript(pg) /\ InSpare(pg, x)
    BY <1>2, <1>13, <2>1
  <2>2. CASE /\ \E x : x = <<Spare(before[pg])>> /\ Holds(x, 1)
             /\ \E x, y : x = DataJob(pg) /\ y = Reads(ecccnt) \o Disable /\ InJob(x, y)
    BY <1>3, <1>4, <1>6, <1>14, <2>2
  <2>3. CASE \E x : x = <<Spare(before[pg])>> \o before[pg] /\ InReads(x, ecccnt + 1, Disable)
    BY <1>5, <1>6, <1>7, <1>15, <2>3
  <2>4. QED BY <1>12, <2>1, <2>2, <2>3 DEF InRead

-----------------------------------------------------------------------------
(* What a page shows.                                                      *)

End(page) == [i \in 1..ecccnt |-> Corrected(page[i], Spare(page).par[i])]

\* A page that reads as erased is erased.
Honest(page) == End(page) = Same("ff") => page = AllOf("ff", Spare(page).ff)

LEMMA SameFacts ==
  ASSUME pagesize \in PageSizes, NEW v, NEW w
  PROVE  /\ Same(v) = Same(w) => v = w
         /\ \A f : DOMAIN f = 1..ecccnt => [i \in DOMAIN f |-> <<v, 0>>] = Same(v)
         /\ \A i \in 1..ecccnt : Same(v)[i] = <<v, 0>>
<1>1. 1 \in 1..ecccnt
  BY Ecccnt
<1>2. \A i \in 1..ecccnt : Same(v)[i] = <<v, 0>> /\ Same(w)[i] = <<w, 0>>
  BY DEF Same
<1>3. ASSUME Same(v) = Same(w) PROVE v = w
  <2>1. <<v, 0>> = <<w, 0>>
    BY <1>1, <1>2, <1>3
  <2>2. QED BY <2>1
<1>4. QED BY <1>2, <1>3 DEF Same

\* A page of items that nothing changed.
Whole(page, vs, par, ff) ==
  /\ page = Append([i \in 1..ecccnt |-> Item(vs[i])], Oob(par, ff))
  /\ vs = [i \in 1..ecccnt |-> vs[i]]

LEMMA WholeEnd ==
  ASSUME pagesize \in PageSizes, NEW vs, NEW par, NEW ff, NEW page, Whole(page, vs, par, ff)
  PROVE  /\ Spare(page).ff = ff /\ Len(page) = ecccnt + 1
         /\ \A i \in 1..ecccnt : page[i] = Item(vs[i])
         /\ End(page) = vs
<1> DEFINE items == [i \in 1..ecccnt |-> Item(vs[i])]
           o == Oob(par, ff)
           S == {items[i] : i \in 1..ecccnt} \cup {o}
<1>1. ecccnt \in Nat \ {0}
  BY Ecccnt
<1>2. items \in Seq(S) /\ Len(items) = ecccnt /\ o \in S
  <2>1. items \in [1..ecccnt -> S]
    OBVIOUS
  <2> HIDE DEF items, S, o
  <2>2. items \in Seq(S) /\ Len(items) = ecccnt
    BY <1>1, <2>1
  <2>3. QED BY <2>2 DEF S
<1>3. Len(page) = ecccnt + 1 /\ page[ecccnt + 1] = o /\ \A i \in 1..ecccnt : page[i] = items[i]
  <2> HIDE DEF items, S, o
  <2>1. page = Append(items, o)
    BY DEF items, o, Whole
  <2>2. QED BY <1>1, <1>2, <2>1
<1>4. Spare(page).ff = ff
  <2>1. o.ff = ff
    BY DEF Oob
  <2> HIDE DEF o, items
  <2>2. QED BY <1>3, <2>1 DEF Spare
<1>5. \A i \in 1..ecccnt : page[i] = Item(vs[i])
  BY <1>3
<1>6. ASSUME NEW i \in 1..ecccnt PROVE Corrected(page[i], Spare(page).par[i]) = vs[i]
  <2>1. Item(vs[i]).flips = 0 /\ Item(vs[i]).v = vs[i]
    BY DEF Item
  <2>2. page[i].flips = 0 /\ page[i].v = vs[i]
    BY <1>5, <2>1
  <2>3. QED BY <2>2 DEF Corrected
<1>7. End(page) = vs
  BY <1>6 DEF End, Whole
<1>8. QED BY <1>3, <1>4, <1>5, <1>7

LEMMA AllEnd ==
  ASSUME pagesize \in PageSizes, NEW v, NEW ff
  PROVE  End(AllOf(v, ff)) = Same(v) /\ Spare(AllOf(v, ff)).ff = ff /\ Honest(AllOf(v, ff))
<1> DEFINE vs == [i \in 1..ecccnt |-> <<v, 0>>]
           par == Same(v)
<1>1. PICK page : page = AllOf(v, ff)
  OBVIOUS
<1>2. vs = Same(v) /\ [i \in 1..ecccnt |-> vs[i]] = vs
  BY DEF Same
<1>7. page = Append([i \in 1..ecccnt |-> Item(vs[i])], Oob(par, ff))
  BY <1>1 DEF AllOf
<1>8. PICK us, w : us = vs /\ w = par
  OBVIOUS
<1>9. Whole(page, us, w, ff)
  BY <1>7, <1>8 DEF Whole
<1> HIDE DEF vs, par
<1>10. Spare(page).ff = ff /\ End(page) = us
  BY <1>9, WholeEnd
<1>3. Spare(page).ff = ff /\ End(page) = vs
  BY <1>8, <1>10
<1>4. End(AllOf(v, ff)) = Same(v) /\ Spare(AllOf(v, ff)).ff = ff
  BY <1>1, <1>2, <1>3
<1>5. Same(v) = Same("ff") => v = "ff"
  BY SameFacts
<1>6. QED BY <1>4, <1>5 DEF Honest

LEMMA WrittenEnd ==
  ASSUME pagesize \in PageSizes, NEW v \in Contents
  PROVE  /\ End(Written(v)) = [i \in 1..ecccnt |-> <<v, i>>] /\ Spare(Written(v)).ff = TRUE
         /\ Len(Written(v)) = ecccnt + 1 /\ DOMAIN Written(v) = 1..ecccnt + 1
<1> DEFINE vs == [i \in 1..ecccnt |-> <<v, i>>]
<1>1. PICK page, us, ff : page = Written(v) /\ us = vs /\ ff = TRUE
  OBVIOUS
<1>2. [i \in 1..ecccnt |-> us[i]] = us
  BY <1>1
<1>6. Whole(page, us, us, ff)
  BY <1>1 DEF Written, Whole
<1> HIDE DEF vs
<1>3. Spare(page).ff = ff /\ End(page) = us /\ Len(page) = ecccnt + 1
  BY <1>6, WholeEnd
<1>4. DOMAIN page = 1..ecccnt + 1
  <2>1. ecccnt \in Nat
    BY Ecccnt
  <2>3. \E S : page \in Seq(S)
    <3>1. Written(v) \in Layout
      BY WrittenLayout
    <3>2. QED BY <1>1, <3>1 DEF Layout
  <2>2. QED BY <1>3, <2>1, <2>3
<1>5. QED BY <1>1, <1>2, <1>3, <1>4 DEF vs

\* What programming a page makes of it.
LEMMA FilledEnd ==
  ASSUME pagesize \in PageSizes, "ff" \notin Contents, NEW v \in Contents, NEW old \in Layout, Honest(old),
         NEW new, new = Filled(old, Written(v))
  PROVE  /\ End(new) = IF End(old) = Same("ff") THEN [i \in 1..ecccnt |-> <<v, i>>] ELSE Same("??")
         /\ Spare(new).ff = Spare(old).ff /\ Honest(new)
<1>1. PICK w, ff : w = Written(v) /\ ff = Spare(old).ff
  OBVIOUS
<1>2. /\ End(w) = [i \in 1..ecccnt |-> <<v, i>>] /\ Spare(w).ff = TRUE
      /\ w \in Layout /\ ff \in BOOLEAN /\ ecccnt \in Nat \ {0}
  BY <1>1, WrittenEnd, WrittenLayout, LayoutFacts
<1>3. w # AllOf("00", FALSE)
  BY <1>2, AllEnd
<1>4. CASE old = AllOf("ff", ff)
  <2> DEFINE o == w[ecccnt + 1]
             x == [o EXCEPT !.ff = ff]
  <2>1. o \in Items /\ o.ff = TRUE /\ o.par = Spare(w).par /\ w \in Seq(Items) /\ Len(w) = ecccnt + 1
    BY <1>2, LayoutFacts DEF Spare
  <2>2. x.ff = ff /\ x.par = o.par
    BY <2>1 DEF Items
  <2>3. new = [w EXCEPT ![ecccnt + 1] = x]
    <3>1. new = [w EXCEPT ![ecccnt + 1].ff = @ /\ Spare(old).ff]
      BY <1>1, <1>3, <1>4 DEF Filled
    <3>2. (TRUE /\ ff) = ff
      BY <1>2
    <3>3. [o EXCEPT !.ff = @ /\ ff] = x
      BY <2>1, <3>2
    <3>4. QED BY <1>1, <3>1, <3>3
  <2> HIDE DEF x, o
  <2>4. new[ecccnt + 1] = x /\ \A i \in 1..ecccnt : new[i] = w[i]
    BY <1>2, <2>1, <2>3
  <2>5. Spare(new).ff = ff /\ Spare(new).par = Spare(w).par
    BY <2>1, <2>2, <2>4 DEF Spare
  <2>6. End(new) = End(w)
    BY <2>4, <2>5 DEF End
  <2>7. End(old) = Same("ff")
    BY <1>4, AllEnd
  <2>8. End(new) # Same("ff")
    <3>1. 1 \in 1..ecccnt
      BY <1>2
    <3>2. End(new)[1] = <<v, 1>> /\ Same("ff")[1] = <<"ff", 0>>
      BY <1>2, <2>6, <3>1 DEF Same
    <3>3. QED BY <3>2
  <2>9. QED BY <1>1, <1>2, <2>5, <2>6, <2>7, <2>8 DEF Honest
<1>5. CASE old # AllOf("ff", ff)
  <2>1. new = AllOf("??", ff)
    BY <1>1, <1>3, <1>5 DEF Filled, Rubbish
  <2>2. End(old) # Same("ff")
    BY <1>1, <1>5 DEF Honest
  <2>3. QED BY <1>1, <2>1, <2>2, AllEnd
<1>6. QED BY <1>4, <1>5

Decayed(page, i, n) == [page EXCEPT ![i].flips = n]

\* What a symbol that changes makes of a page.
LEMMA DecayEnd ==
  ASSUME pagesize \in PageSizes, "ff" \notin Contents, NEW old \in Layout, NEW i \in 1..ecccnt, NEW n \in {4, 5},
         old[i].v[1] \in Contents, old[i].flips = 0, NEW new, new = Decayed(old, i, n)
  PROVE  /\ End(new) = End(old) \/ End(new) = [End(old) EXCEPT ![i] = <<"??", 0>>]
         /\ Spare(new).ff = Spare(old).ff /\ Honest(new)
<1>1. /\ old \in Seq(Items) /\ Len(old) = ecccnt + 1 /\ ecccnt \in Nat \ {0} /\ old[i] \in Items
      /\ i \in 1..ecccnt + 1
  BY LayoutFacts, Ecccnt
<1> DEFINE x == [old[i] EXCEPT !.flips = n]
<1>2. x.v = old[i].v /\ x.flips = n
  BY <1>1 DEF Items
<1>3. new = [old EXCEPT ![i] = x]
  BY DEF Decayed
<1> HIDE DEF x
<1>4. /\ new[i] = x /\ new[ecccnt + 1] = old[ecccnt + 1]
      /\ \A k \in 1..ecccnt : k # i => new[k] = old[k]
  BY <1>1, <1>3
<1>5. Spare(new) = Spare(old)
  BY <1>4 DEF Spare
<1> DEFINE par == Spare(old).par[i]
           c == Corrected(new[i], par)
<1>6. \A k \in 1..ecccnt : k # i => End(new)[k] = End(old)[k]
  BY <1>4, <1>5 DEF End
<1>7. End(new)[i] = c /\ End(old)[i] = old[i].v
  <2>1. End(new)[i] = c
    BY <1>5 DEF End
  <2>2. End(old)[i] = Corrected(old[i], par)
    BY DEF End
  <2>3. QED BY <2>1, <2>2 DEF Corrected
<1>8. c = old[i].v \/ c = <<"??", 0>>
  BY <1>2, <1>4 DEF Corrected
<1> HIDE DEF c
<1>9. DOMAIN End(new) = 1..ecccnt /\ DOMAIN End(old) = 1..ecccnt
      /\ End(new) = [k \in 1..ecccnt |-> End(new)[k]] /\ End(old) = [k \in 1..ecccnt |-> End(old)[k]]
  BY DEF End
<1>10. End(new) = End(old) \/ End(new) = [End(old) EXCEPT ![i] = <<"??", 0>>]
  <2>1. CASE c = old[i].v
    <3>1. \A k \in 1..ecccnt : End(new)[k] = End(old)[k]
      BY <1>6, <1>7, <2>1
    <3>2. End(new) = End(old)
      BY <3>1 DEF End
    <3>3. QED BY <3>2
  <2>2. CASE c = <<"??", 0>>
    BY <1>6, <1>7, <1>9, <2>2
  <2>3. QED BY <1>8, <2>1, <2>2
<1>11. Honest(new)
  <2>1. Same("ff")[i] = <<"ff", 0>>
    BY DEF Same
  <2>2. c # <<"ff", 0>>
    <3>1. old[i].v # <<"ff", 0>>
      OBVIOUS
    <3>2. QED BY <1>8, <3>1
  <2>3. QED BY <1>7, <2>1, <2>2 DEF Honest
<1>12. QED BY <1>5, <1>10, <1>11

\* What the refinement takes: the row bytes hold the page numbers, "ff" is the
\* mark of erased pages and of no contents, and the chip hears its cycles.
Exact ==
  /\ HearsDisabled
  /\ "ff" \notin Contents
  /\ \A pg \in FlashPages : rowaddr(pg)[row] = 0

LEMMA PagesOfBlocks ==
  ASSUME NEW b \in Blocks
  PROVE  /\ Ops!Pages = FlashPages
         /\ (b + 1) * ppb - 1 \in FlashPages /\ Ops!LastPage(b) = (b + 1) * ppb - 1
         /\ b * ppb \in FlashPages
         /\ \A pg \in FlashPages : pg \in b * ppb..b * ppb + ppb - 1 <=> pg \in Ops!PagesOf(b)
<1>1. b \in Nat /\ ppb \in Nat \ {0} /\ b * ppb \in Nat /\ (b + 1) * ppb = b * ppb + ppb
  BY FlashAssumption, Multiples
<1>2. PICK n, m : n = b * ppb /\ m = (b + 1) * ppb
  OBVIOUS
<1>3. n \in Nat /\ m = n + ppb
  BY <1>1, <1>2
<1>4. ASSUME NEW q \in 0..ppb - 1 PROVE n + q \in FlashPages
  BY <1>2, <1>4 DEF FlashPages
<1>5. 0 \in 0..ppb - 1 /\ ppb - 1 \in 0..ppb - 1 /\ n + 0 = n /\ n + (ppb - 1) = m - 1
  BY <1>1, <1>3
<1>6. n \in FlashPages /\ m - 1 \in FlashPages
  BY <1>4, <1>5
<1>7. ASSUME NEW pg \in FlashPages PROVE pg \in n..n + ppb - 1 <=> pg \in Ops!PagesOf(b)
  <2>1. Ops!PagesOf(b) = {n + q : q \in 0..ppb - 1}
    BY <1>2 DEF Ops!PagesOf
  <2>2. pg \in Int
    BY PageNumbers
  <2>3. ASSUME pg \in n..n + ppb - 1 PROVE pg \in Ops!PagesOf(b)
    <3>1. pg - n \in 0..ppb - 1 /\ pg = n + (pg - n)
      BY <1>1, <1>3, <2>2, <2>3
    <3>2. QED BY <2>1, <3>1
  <2>4. ASSUME pg \in Ops!PagesOf(b) PROVE pg \in n..n + ppb - 1
    <3>1. PICK q \in 0..ppb - 1 : pg = n + q
      BY <2>1, <2>4
    <3>2. QED BY <1>1, <1>3, <3>1
  <2>5. QED BY <2>3, <2>4
<1>8. QED BY <1>2, <1>6, <1>7 DEF Ops!Pages, FlashPages, Ops!LastPage

LEMMA FitsPages ==
  ASSUME Exact
  PROVE  \A pg \in FlashPages : Fits(pg)
  BY PageNumbers DEF Exact, Fits

-----------------------------------------------------------------------------
(* The end of each call.                                                   *)

LEMMA NothingRuns ==
  ASSUME returns
  PROVE  ~Running /\ serving # <<>> /\ script = <<>> /\ FlashNext
<1>1. serving # <<>> /\ script = <<>> /\ serving' = <<>>
  BY DEF returns
<1>2. QED BY <1>1 DEF Running, FlashNext

LEMMA ReportEnds ==
  ASSUME FlashInv, HearsDisabled, returns, NEW fail \in 0..1, InReport(fail)
  PROVE  got[1].v[2] = fail
<1>1. serving # <<>> /\ script = <<>> /\ FlashNext /\ ~Running
  BY NothingRuns
<1>2. script # Status /\ script # Sync \o Status
  <2>1. Status = <<[do |-> "cmd", arg |-> "READ_STATUS"]>> \o (Reads(1) \o Disable)
        /\ Reads(1) \o Disable \in Seq(Cycles) /\ Status \in Seq(Cycles)
    BY StatusType
  <2>2. Status # <<>>
    <3> DEFINE c == [do |-> "cmd", arg |-> "READ_STATUS"]
               t == Reads(1) \o Disable
    <3>1. c \in Cycles
      BY DEF Cycles
    <3> HIDE DEF c, t
    <3>2. QED BY <2>1, <3>1, OneBefore DEF c, t
  <2>3. Sync \o Status # <<>>
    <3> DEFINE c == [do |-> "sync", arg |-> 0]
    <3>1. c \in Cycles /\ Sync = <<c>>
      BY DEF Cycles, Sync
    <3> HIDE DEF c
    <3>2. QED BY <2>1, <3>1, OneBefore
  <2>4. QED BY <1>1, <2>2, <2>3
<1>3. ~InReads(Told(fail), 1, Disable)
  BY <1>1, ToldType, LastStep
<1>4. Holds(Told(fail), 1)
  BY <1>2, <1>3 DEF InReport
<1>5. got[1] = Told(fail)[1]
  BY <1>4 DEF Holds
<1>6. Told(fail)[1].v = <<"status", fail>>
  BY ToldType
<1>7. QED BY <1>5, <1>6

LEMMA ScriptsLong ==
  ASSUME pagesize \in PageSizes, NEW j, Proper(j), NEW rest \in Seq(Cycles)
  PROVE  Sends(j, rest) # <<>> /\ Pointed \o Sends(j, rest) # <<>> /\ Sends(j, rest) \in Seq(Cycles)
         /\ Pointed \o Sends(j, rest) \in Seq(Cycles)
<1> DEFINE c == [do |-> "cmd", arg |-> j.cmd]
           t == Addrs(j.addr) \o AfterAddress(j, rest)
           s == Sends(j, rest)
<1>1. c \in Cycles /\ t \in Seq(Cycles) /\ s = <<c>> \o t
  BY JobScripts
<1> HIDE DEF c, t, s
<1>2. s \in Seq(Cycles) /\ s # <<>> /\ Len(s) \in Nat \ {0}
  <2>1. s \in Seq(Cycles) /\ s # <<>>
    BY <1>1, OneBefore
  <2>2. QED BY <2>1, EmptyHasNone
<1>3. Pointed \in Seq(Cycles)
  <2>1. Cmd("READA") \in Seq(Cycles)
    BY Signals DEF Opens
  <2>2. <<>> \in Seq(Cycles)
    OBVIOUS
  <2>3. QED BY <2>1, <2>2 DEF Pointed, If
<1>4. Pointed \o s \in Seq(Cycles) /\ Len(Pointed \o s) = Len(Pointed) + Len(s) /\ Len(Pointed) \in Nat
  BY <1>2, <1>3, Join
<1>5. Pointed \o s # <<>>
  BY <1>2, <1>4, EmptyHasNone
<1>6. QED BY <1>2, <1>4, <1>5 DEF s

LEMMA StoreEnds ==
  ASSUME FlashInv, HearsDisabled, returns, NEW pg, Fits(pg), NEW items \in Layout, InStore(pg, items)
  PROVE  \E fail \in 0..1, kept \in BOOLEAN :
           cells = StoredAs(before, pg, items, fail, kept) /\ got[1].v[2] = fail
<1>1. /\ serving # <<>> /\ script = <<>> /\ FlashNext /\ ~Running
      /\ pagesize \in PageSizes /\ pg \in Int /\ Status \in Seq(Cycles)
  BY NothingRuns, ChipTypes, StatusType DEF Fits
<1>2. PICK j : j = StoreJob(pg, items)
  OBVIOUS
<1>3. Proper(j)
  <2>1. items \in Seq(Items)
    BY <1>1, LayoutFacts
  <2>2. QED BY <1>1, <1>2, <2>1, JobsProper
<1> DEFINE s == Pointed \o Sends(j, Status)
<1>4. s \in Seq(Cycles) /\ s # <<>>
  BY <1>1, <1>3, ScriptsLong
<1> HIDE DEF s
<1>5. script # StoreScript(pg, items) \/ chip.pin # "ready"
  <2>1. ASSUME script = Enable \o s, chip.pin = "ready" PROVE FALSE
    BY <1>1, <1>4, <2>1, SelectStep
  <2>2. QED BY <1>2, <2>1 DEF StoreScript, s
<1>6. script # Pointed \o Sends(StoreJob(pg, items), Status)
  BY <1>1, <1>2, <1>4 DEF s
<1>7. ~InJob(j, Status)
  BY <1>1, <1>3, JobStep
<1>8. PICK fail \in 0..1, kept \in BOOLEAN : cells = StoredAs(before, pg, items, fail, kept) /\ InReport(fail)
  BY <1>2, <1>5, <1>6, <1>7 DEF InStore
<1>9. got[1].v[2] = fail
  BY <1>8, ReportEnds
<1>10. QED BY <1>8, <1>9

LEMMA EraseEnds ==
  ASSUME FlashInv, HearsDisabled, returns, NEW pg, Fits(pg), InErase(pg)
  PROVE  \E fail \in 0..1 : cells = ErasedAs(before, pg, fail) /\ got[1].v[2] = fail
<1>1. /\ serving # <<>> /\ script = <<>> /\ FlashNext /\ ~Running
      /\ pagesize \in PageSizes /\ pg \in Int /\ Status \in Seq(Cycles)
  BY NothingRuns, ChipTypes, StatusType DEF Fits
<1>2. PICK j : j = EraseJob(pg)
  OBVIOUS
<1>3. Proper(j)
  BY <1>1, <1>2, JobsProper
<1> DEFINE s == Sends(j, Status)
<1>4. s \in Seq(Cycles)
  BY <1>1, <1>3, ScriptsLong
<1> HIDE DEF s
<1>5. script # EraseBlockScript(pg) \/ chip.pin # "ready"
  <2>1. ASSUME script = Enable \o s, chip.pin = "ready" PROVE FALSE
    BY <1>1, <1>4, <2>1, SelectStep
  <2>2. QED BY <1>2, <2>1 DEF EraseBlockScript, s
<1>7. ~InJob(j, Status)
  BY <1>1, <1>3, JobStep
<1>8. PICK fail \in 0..1 : cells = ErasedAs(before, pg, fail) /\ InReport(fail)
  BY <1>2, <1>5, <1>7 DEF InErase
<1>9. got[1].v[2] = fail
  BY <1>8, ReportEnds
<1>10. QED BY <1>8, <1>9

LEMMA CheckEnds ==
  ASSUME FlashInv, HearsDisabled, returns, NEW pg \in FlashPages, Fits(pg),
         before \in [FlashPages -> Layout], InCheck(pg)
  PROVE  cells = before /\ got[1] = Spare(before[pg])
<1>1. serving # <<>> /\ FlashNext /\ ~Running /\ <<>> \in Seq(Cycles)
  BY NothingRuns
<1>2. ~InSpare(pg, <<>>)
  BY <1>1, SpareStep
<1>3. Spared(pg)
  BY <1>2 DEF InCheck
<1>4. QED BY <1>3 DEF Spared, Holds

LEMMA QueryEnds ==
  ASSUME FlashInv, HearsDisabled, returns, InQuery
  PROVE  cells = before /\ <<got[1].v[1], got[2].v[1]>> = <<"vid", "did">>
<1>1. serving # <<>> /\ script = <<>> /\ FlashNext /\ ~Running /\ cells = before
  BY NothingRuns DEF InQuery
<1> DEFINE c == [do |-> "cmd", arg |-> "READID"]
           a == [do |-> "addr", arg |-> 0]
           r == <<a>> \o Reads(2)
<1>2. c \in Cycles /\ a \in Cycles
  BY DEF Cycles, Opens
<1>3. nand_query_4740 = <<c>> \o r /\ r \in Seq(Cycles) /\ Reads(2) \in Seq(Cycles)
  BY QueryCycles, StatusType
<1> HIDE DEF c, a
<1>4. r # <<>>
  BY <1>2, <1>3, OneBefore
<1>5. nand_query_4740 # <<>>
  <2> HIDE DEF r
  <2>1. QED BY <1>2, <1>3, OneBefore
<1>6. InReads(Names, 2, <<>>)
  BY <1>1, <1>4, <1>5 DEF InQuery, a
<1>7. Holds(Names, 2)
  <2>1. PICK x : x = Names
    OBVIOUS
  <2> DEFINE m == 2
             y == <<>>
  <2>2. Readable(x, m, y) /\ InReads(x, m, y)
    BY <1>6, <2>1, NamesType
  <2> HIDE DEF m, y
  <2>3. Holds(x, m)
    BY <1>1, <2>2, ReadsStep
  <2>4. QED BY <2>1, <2>3 DEF m
<1>8. got[1] = Names[1] /\ got[2] = Names[2]
  BY <1>7 DEF Holds
<1>9. Names[1].v[1] = "vid" /\ Names[2].v[1] = "did"
  BY NamesType
<1>10. QED BY <1>1, <1>8, <1>9

LEMMA ReadEnds ==
  ASSUME FlashInv, HearsDisabled, returns, NEW pg \in FlashPages, Fits(pg),
         before \in [FlashPages -> Layout], InRead(pg)
  PROVE  cells = before /\ got[1] = Spare(before[pg]) /\ \A i \in 1..ecccnt : got[i + 1] = before[pg][i]
<1>1. serving # <<>> /\ FlashNext /\ ~Running /\ cells = before /\ pagesize \in PageSizes
      /\ ecccnt \in Nat \ {0} /\ pg \in Int /\ Disable \in Seq(Cycles) /\ script = <<>>
  BY NothingRuns, ChipTypes, Ecccnt, PageNumbers, Signals DEF InRead
<1>2. PICK rest, j, r, m, e, f : /\ rest = PageScript(pg) /\ j = DataJob(pg) /\ r = Reads(ecccnt) \o Disable
                                 /\ m = ecccnt + 1 /\ e = <<Spare(before[pg])>> /\ f = e \o before[pg]
  OBVIOUS
<1>3. rest \in Seq(Cycles)
  BY <1>1, <1>2, PageCycles
<1>4. before[pg] \in Seq(Items) /\ Len(before[pg]) = ecccnt + 1 /\ Spare(before[pg]) \in Items
  <2>1. before[pg] \in Layout
    OBVIOUS
  <2>2. QED BY <1>1, <2>1, LayoutFacts
<1>5. e \in Seq(Items) /\ Len(e) = 1 /\ e[1] = Spare(before[pg])
  BY <1>2, <1>4
<1>6. /\ f \in Seq(Items) /\ Len(f) = Len(e) + Len(before[pg])
      /\ \A k \in 1..Len(e) : f[k] = e[k]
      /\ \A k \in 1..Len(before[pg]) : f[Len(e) + k] = before[pg][k]
  <2>1. PICK g : g = before[pg]
    OBVIOUS
  <2>2. g \in Seq(Items) /\ f = e \o g
    BY <1>2, <1>4, <2>1
  <2>3. /\ e \o g \in Seq(Items) /\ Len(e \o g) = Len(e) + Len(g)
        /\ \A k \in 1..Len(e) : (e \o g)[k] = e[k]
        /\ \A k \in 1..Len(g) : (e \o g)[Len(e) + k] = g[k]
    <3>1. e \in Seq(Items) /\ g \in Seq(Items)
      BY <1>5, <2>2
    <3>2. QED BY <3>1, Join
  <2>4. QED BY <2>1, <2>2, <2>3
<1>7. ~(chip.pin = "ready" /\ script = Enable \o SpareScript(pg, rest))
  <2>1. SpareScript(pg, rest) \in Seq(Cycles)
    <3> DEFINE x == Reads(1) \o (Disable \o rest)
               y == Sends(OobJob(pg), x)
    <3>1. Disable \o rest \in Seq(Cycles) /\ Reads(1) \in Seq(Cycles)
      BY <1>1, <1>3, Regroup, StatusType
    <3>2. x \in Seq(Cycles)
      BY <3>1, Regroup
    <3> HIDE DEF x
    <3>3. y \in Seq(Cycles)
      BY <1>1, <3>2, JobsProper, SendsType
    <3> HIDE DEF y
    <3>4. Enable \o y \in Seq(Cycles)
      BY <3>3, Signals, Regroup
    <3>5. QED BY <3>4 DEF SpareScript, x, y
  <2>2. QED BY <1>1, <2>1, SelectStep
<1>8. ~InSpare(pg, rest)
  BY <1>1, <1>3, SpareStep
<1>9. ~InJob(j, r)
  <2>1. Proper(j)
    BY <1>1, <1>2, JobsProper
  <2>2. r \in Seq(Cycles)
    <3>1. Reads(ecccnt) \in Seq(Cycles)
      BY <1>1, StatusType
    <3>2. QED BY <1>1, <1>2, <3>1, Regroup
  <2>3. QED BY <1>1, <2>1, <2>2, JobStep
<1>10. ~InReads(f, m, Disable)
  <2>1. m \in Nat /\ m <= Len(f)
    BY <1>1, <1>2, <1>4, <1>5, <1>6
  <2>2. Readable(f, m, Disable)
    BY <1>1, <1>6, <2>1 DEF Readable
  <2>3. QED BY <1>1, <2>2, LastStep
<1>11. Holds(f, m)
  BY <1>2, <1>7, <1>8, <1>9, <1>10 DEF InRead
<1>12. \A k \in 1..m : got[k] = f[k]
  BY <1>11 DEF Holds
<1>13. got[1] = Spare(before[pg])
  <2>1. 1 \in 1..m /\ 1 \in 1..Len(e)
    BY <1>1, <1>2, <1>5
  <2>2. QED BY <1>5, <1>6, <1>12, <2>1
<1>14. ASSUME NEW i \in 1..ecccnt PROVE got[i + 1] = before[pg][i]
  <2>1. i + 1 \in 1..m /\ i \in 1..Len(before[pg]) /\ i + 1 = Len(e) + i
    BY <1>1, <1>2, <1>4, <1>5
  <2>2. QED BY <1>6, <1>12, <2>1
<1>15. QED BY <1>1, <1>13, <1>14

-----------------------------------------------------------------------------
(* The pages as the caller sees them.                                      *)

Goods == [pg \in FlashPages |-> Spare(Seen[pg]).ff]

LEMMA Shows ==
  /\ Ends(Seen) = [pg \in FlashPages |-> End(Seen[pg])]
  /\ \A pg \in FlashPages : DOMAIN End(Seen[pg]) = 1..ecccnt
  BY DEF Ends, End

LEMMA ShowsNext ==
  ASSUME pagesize' = pagesize, NEW new, Seen' = new
  PROVE  /\ Ends(Seen)' = [pg \in FlashPages |-> End(new[pg])]
         /\ Goods' = [pg \in FlashPages |-> Spare(new[pg]).ff]
         /\ (\A pg \in FlashPages : Honest(new[pg])) => \A pg \in FlashPages : Honest(Seen[pg])'
<1>1. ecccnt' = ecccnt
  BY DEF ecccnt
<1>2. ASSUME NEW page PROVE /\ Spare(page)' = Spare(page) /\ Same("ff")' = Same("ff")
                            /\ \A ff : AllOf("ff", ff)' = AllOf("ff", ff)
  BY <1>1 DEF Spare, Same, AllOf
<1>3. ASSUME NEW page PROVE End(page)' = End(page)
  BY <1>1, <1>2 DEF End
<1>4. ASSUME NEW page PROVE Honest(page)' <=> Honest(page)
  BY <1>2, <1>3 DEF Honest
<1>5. Ends(Seen)' = [pg \in FlashPages |-> End(new[pg])]
  <2>1. Ends(Seen)' = [pg \in FlashPages |-> [i \in 1..ecccnt' |-> Corrected(new[pg][i], new[pg][ecccnt' + 1].par[i])]]
    BY DEF Ends, Spare
  <2>2. QED BY <1>1, <2>1 DEF End, Spare
<1>6. Goods' = [pg \in FlashPages |-> Spare(new[pg]).ff]
  BY <1>1 DEF Goods, Spare
<1>7. ASSUME NEW pg \in FlashPages, Honest(new[pg]) PROVE Honest(Seen[pg])'
  <2>1. PICK page : page = new[pg]
    OBVIOUS
  <2>2. Honest(page)'
    BY <1>4, <1>7, <2>1
  <2>3. Seen[pg]' = page
    BY <2>1
  <2>4. QED BY <2>2, <2>3 DEF Honest, End, Spare
<1>8. QED BY <1>5, <1>6, <1>7

\* What a page shows, and whether it is good, from one step to the next.
Shown(old, s, g) ==
  s = [pg \in FlashPages |-> End(old[pg])] /\ g = [pg \in FlashPages |-> Spare(old[pg]).ff]

\* The step begins with old and ends with new.
Goes(old, new) == pagesize' = pagesize /\ pagesize \in PageSizes /\ Seen = old /\ Seen' = new
                  /\ old \in [FlashPages -> Layout]

LEMMA ShownStep ==
  ASSUME NEW old, NEW new, Goes(old, new)
  PROVE  /\ Shown(old, Ends(Seen), Goods) /\ Shown(new, Ends(Seen)', Goods')
<1>1. Ends(Seen) = [pg \in FlashPages |-> End(old[pg])]
  BY Shows DEF Goes
<1>2. Goods = [pg \in FlashPages |-> Spare(old[pg]).ff]
  BY DEF Goods, Goes
<1>3. Ends(Seen)' = [pg \in FlashPages |-> End(new[pg])] /\ Goods' = [pg \in FlashPages |-> Spare(new[pg]).ff]
  BY ShowsNext DEF Goes
<1>4. QED BY <1>1, <1>2, <1>3 DEF Shown

\* Every symbol of what a page shows.
LEMMA AllShown ==
  ASSUME pagesize \in PageSizes, NEW old, NEW s, NEW g, Shown(old, s, g), NEW pg \in FlashPages, NEW v
  PROVE  Ops!All(v, s[pg]) = Same(v) /\ DOMAIN s[pg] = 1..ecccnt /\ s[pg] = End(old[pg])
<1>1. s[pg] = End(old[pg])
  BY DEF Shown
<1>2. DOMAIN s[pg] = 1..ecccnt
  BY <1>1 DEF End
<1>3. QED BY <1>1, <1>2 DEF Ops!All, Same

\* The other pages are as they were.
Others(old, new, pg) == \A q \in FlashPages : q # pg => new[q] = old[q]

\* A page changes, and the others show what they did.
LEMMA OnePage ==
  ASSUME NEW old, NEW new, NEW s, NEW g, NEW t, NEW h, Shown(old, s, g), Shown(new, t, h),
         NEW pg \in FlashPages, Others(old, new, pg)
  PROVE  t = [s EXCEPT ![pg] = End(new[pg])] /\ h = [g EXCEPT ![pg] = Spare(new[pg]).ff]
<1>1. \A q \in FlashPages : q # pg => t[q] = s[q] /\ h[q] = g[q]
  BY DEF Shown, Others
<1>2. t[pg] = End(new[pg]) /\ h[pg] = Spare(new[pg]).ff
  BY DEF Shown
<1>3. /\ DOMAIN s = FlashPages /\ DOMAIN g = FlashPages
      /\ t = [q \in FlashPages |-> t[q]] /\ h = [q \in FlashPages |-> h[q]]
      /\ s = [q \in FlashPages |-> s[q]] /\ g = [q \in FlashPages |-> g[q]]
  BY DEF Shown
<1>4. t = [s EXCEPT ![pg] = End(new[pg])]
  BY <1>1, <1>2, <1>3
<1>5. h = [g EXCEPT ![pg] = Spare(new[pg]).ff]
  BY <1>1, <1>2, <1>3
<1>6. QED BY <1>4, <1>5

LEMMA NoPage ==
  ASSUME NEW old, NEW s, NEW g, NEW t, NEW h, Shown(old, s, g), Shown(old, t, h)
  PROVE  t = s /\ h = g
  BY DEF Shown

-----------------------------------------------------------------------------
(* Each call is a step of the specification.                               *)

LEMMA ProgramMaps ==
  ASSUME "ff" \notin Contents, NEW old, NEW new, Goes(old, new), \A q \in FlashPages : Honest(old[q]),
         NEW pg \in FlashPages, NEW v \in Contents, NEW fail \in 0..1, NEW kept \in BOOLEAN,
         new = StoredAs(old, pg, Written(v), fail, kept), result' = <<"program", pg, fail>>
  PROVE  Ops!Program(pg, v) /\ \A q \in FlashPages : Honest(new[q])
<1>1. PICK s, g, t, h : s = Ends(Seen) /\ g = Goods /\ t = Ends(Seen)' /\ h = Goods'
  OBVIOUS
<1>2. /\ pagesize \in PageSizes /\ old \in [FlashPages -> Layout] /\ old[pg] \in Layout
      /\ Shown(old, s, g) /\ Shown(new, t, h)
  BY <1>1, ShownStep DEF Goes
<1>3. \A q \in FlashPages : q # pg => new[q] = old[q]
  BY DEF StoredAs
<1>4. t = [s EXCEPT ![pg] = End(new[pg])] /\ h = [g EXCEPT ![pg] = Spare(new[pg]).ff]
  <2>1. pg \in FlashPages /\ Shown(old, s, g) /\ Shown(new, t, h) /\ Others(old, new, pg)
    BY <1>2, <1>3 DEF Others
  <2>2. QED BY <2>1, OnePage
<1>5. s[pg] = End(old[pg]) /\ g[pg] = Spare(old[pg]).ff /\ g = [q \in FlashPages |-> g[q]]
  BY <1>2 DEF Shown
<1>6. Ops!All("ff", s[pg]) = Same("ff") /\ Ops!All("??", s[pg]) = Same("??") /\ DOMAIN s[pg] = 1..ecccnt
  BY <1>2, AllShown
<1>7. CASE fail = 0
  <2>1. new[pg] = Filled(old[pg], Written(v))
    BY <1>7 DEF StoredAs
  <2>2. /\ End(new[pg]) = IF End(old[pg]) = Same("ff") THEN [i \in 1..ecccnt |-> <<v, i>>] ELSE Same("??")
        /\ Spare(new[pg]).ff = Spare(old[pg]).ff /\ Honest(new[pg])
    <3>1. PICK a, b : a = old[pg] /\ b = new[pg]
      OBVIOUS
    <3>2. a \in Layout /\ Honest(a) /\ b = Filled(a, Written(v))
      BY <1>2, <2>1, <3>1
    <3>3. /\ End(b) = IF End(a) = Same("ff") THEN [i \in 1..ecccnt |-> <<v, i>>] ELSE Same("??")
          /\ Spare(b).ff = Spare(a).ff /\ Honest(b)
      BY <1>2, <3>2, FilledEnd
    <3>4. QED BY <3>1, <3>3
  <2>3. h = g
    BY <1>4, <1>5, <2>2
  <2>4. t = [s EXCEPT ![pg] = IF s[pg] = Ops!All("ff", s[pg]) THEN [i \in DOMAIN s[pg] |-> <<v, i>>]
                              ELSE Ops!All("??", s[pg])]
    BY <1>4, <1>5, <1>6, <2>2
  <2>5. Ops!Program(pg, v)
    BY <1>1, <1>7, <2>3, <2>4 DEF Ops!Program, Goods
  <2>6. QED BY <1>3, <2>2, <2>5
<1>8. CASE fail = 1
  <2>1. new[pg] = AllOf("??", Spare(old[pg]).ff /\ (kept \/ Spare(Written(v)).ff))
    BY <1>8 DEF StoredAs
  <2>2. (Spare(old[pg]).ff /\ (kept \/ Spare(Written(v)).ff)) = Spare(old[pg]).ff
    <3>1. PICK x, y : x = Spare(old[pg]).ff /\ y = Spare(Written(v)).ff
      OBVIOUS
    <3>2. x \in BOOLEAN /\ y = TRUE
      BY <1>2, <3>1, LayoutFacts, WrittenEnd
    <3>3. (x /\ (kept \/ y)) = x
      BY <3>2, Zenon
    <3>4. QED BY <3>1, <3>3
  <2>3. new[pg] = AllOf("??", Spare(old[pg]).ff)
    BY <2>1, <2>2
  <2>4. End(new[pg]) = Same("??") /\ Spare(new[pg]).ff = Spare(old[pg]).ff /\ Honest(new[pg])
    <3>1. PICK a : a = Spare(old[pg]).ff
      OBVIOUS
    <3>2. End(AllOf("??", a)) = Same("??") /\ Spare(AllOf("??", a)).ff = a /\ Honest(AllOf("??", a))
      BY <1>2, AllEnd
    <3>3. QED BY <2>3, <3>1, <3>2
  <2>5. h = g
    BY <1>4, <1>5, <2>4
  <2>6. t = [s EXCEPT ![pg] = Ops!All("??", s[pg])]
    BY <1>4, <1>6, <2>4
  <2>7. Ops!Program(pg, v)
    BY <1>1, <1>8, <2>5, <2>6 DEF Ops!Program, Goods
  <2>8. QED BY <1>3, <2>4, <2>7
<1>9. QED BY <1>7, <1>8

LEMMA MarkMaps ==
  ASSUME NEW old, NEW new, Goes(old, new), \A q \in FlashPages : Honest(old[q]),
         NEW b \in Blocks, NEW fail \in 0..1, NEW kept \in BOOLEAN,
         new = StoredAs(old, (b + 1) * ppb - 1, AllOf("00", FALSE), fail, kept), result' = <<"mark", b, fail>>
  PROVE  Ops!Mark(b) /\ \A q \in FlashPages : Honest(new[q])
<1>1. PICK s, g, t, h, pg : s = Ends(Seen) /\ g = Goods /\ t = Ends(Seen)' /\ h = Goods'
                            /\ pg = (b + 1) * ppb - 1
  OBVIOUS
<1>2. /\ pg \in FlashPages /\ Ops!LastPage(b) = pg
      /\ pagesize \in PageSizes /\ old \in [FlashPages -> Layout] /\ old[pg] \in Layout
      /\ Shown(old, s, g) /\ Shown(new, t, h)
  BY <1>1, ShownStep, PagesOfBlocks DEF Goes
<1>3. \A q \in FlashPages : q # pg => new[q] = old[q]
  BY <1>1 DEF StoredAs
<1>4. t = [s EXCEPT ![pg] = End(new[pg])] /\ h = [g EXCEPT ![pg] = Spare(new[pg]).ff]
  <2>1. pg \in FlashPages /\ Shown(old, s, g) /\ Shown(new, t, h) /\ Others(old, new, pg)
    BY <1>2, <1>3 DEF Others
  <2>2. QED BY <2>1, OnePage
<1>5. s[pg] = End(old[pg]) /\ g[pg] = Spare(old[pg]).ff /\ g = [q \in FlashPages |-> g[q]]
  BY <1>2 DEF Shown
<1>6. Ops!All("00", s[pg]) = Same("00") /\ Ops!All("??", s[pg]) = Same("??")
  BY <1>2, AllShown
<1>7. CASE fail = 0
  <2>1. new[pg] = AllOf("00", FALSE)
    BY <1>1, <1>2, <1>7 DEF StoredAs, Filled
  <2>2. End(new[pg]) = Same("00") /\ Spare(new[pg]).ff = FALSE /\ Honest(new[pg])
    BY <1>2, <2>1, AllEnd
  <2>3. t = [s EXCEPT ![pg] = Ops!All("00", s[pg])] /\ h = [g EXCEPT ![pg] = FALSE]
    BY <1>4, <1>6, <2>2
  <2>4. Ops!Mark(b)
    BY <1>1, <1>2, <1>7, <2>3 DEF Ops!Mark, Goods
  <2>5. QED BY <1>3, <2>2, <2>4
<1>8. CASE fail = 1
  <2>1. new[pg] = AllOf("??", Spare(old[pg]).ff /\ (kept \/ Spare(AllOf("00", FALSE)).ff))
    BY <1>1, <1>2, <1>8 DEF StoredAs
  <2>2. PICK x, y, z : x = Spare(old[pg]).ff /\ y = Spare(AllOf("00", FALSE)).ff /\ z = (x /\ (kept \/ y))
    OBVIOUS
  <2>3. x \in BOOLEAN /\ y = FALSE
    BY <1>2, <2>2, LayoutFacts, AllEnd
  <2>4. z = x \/ z = FALSE
    BY <2>2, <2>3, Zenon
  <2>5. End(new[pg]) = Same("??") /\ Spare(new[pg]).ff = z /\ Honest(new[pg])
    <3>1. new[pg] = AllOf("??", z)
      BY <2>1, <2>2
    <3>2. QED BY <1>2, <3>1, AllEnd
  <2>6. h = g \/ h = [g EXCEPT ![pg] = FALSE]
    BY <1>4, <1>5, <2>2, <2>4, <2>5
  <2>7. t = [s EXCEPT ![pg] = Ops!All("??", s[pg])]
    BY <1>4, <1>6, <2>5
  <2>8. Ops!Mark(b)
    BY <1>1, <1>2, <1>8, <2>6, <2>7 DEF Ops!Mark, Goods
  <2>9. QED BY <1>3, <2>5, <2>8
<1>9. fail = 0 \/ fail = 1
  OBVIOUS
<1>10. QED BY <1>7, <1>8, <1>9

LEMMA EraseMaps ==
  ASSUME NEW old, NEW new, Goes(old, new), \A q \in FlashPages : Honest(old[q]),
         NEW b \in Blocks, NEW fail \in 0..1,
         new = ErasedAs(old, b * ppb, fail), result' = <<"erase", b, fail>>
  PROVE  Ops!Erase(b) /\ \A q \in FlashPages : Honest(new[q])
<1>1. PICK s, g, t, h : s = Ends(Seen) /\ g = Goods /\ t = Ends(Seen)' /\ h = Goods'
  OBVIOUS
<1>2. /\ pagesize \in PageSizes /\ old \in [FlashPages -> Layout]
      /\ Shown(old, s, g) /\ Shown(new, t, h) /\ Ops!Pages = FlashPages
  BY <1>1, ShownStep, PagesOfBlocks DEF Goes
<1>3. CASE fail = 0
  <2>1. \A q \in FlashPages : new[q] = IF q \in Ops!PagesOf(b) THEN AllOf("ff", TRUE) ELSE old[q]
    BY <1>3, PagesOfBlocks DEF ErasedAs
  <2>2. PICK e : e = AllOf("ff", TRUE)
    OBVIOUS
  <2>3. End(e) = Same("ff") /\ Spare(e).ff = TRUE /\ Honest(e)
    BY <1>2, <2>2, AllEnd
  <2>4. ASSUME NEW q \in FlashPages
        PROVE  /\ t[q] = IF q \in Ops!PagesOf(b) THEN Ops!All("ff", s[q]) ELSE s[q]
               /\ h[q] = (g[q] \/ q \in Ops!PagesOf(b))
               /\ Honest(new[q])
    <3>1. Ops!All("ff", s[q]) = Same("ff") /\ s[q] = End(old[q])
      BY <1>2, AllShown
    <3>2. t[q] = End(new[q]) /\ h[q] = Spare(new[q]).ff /\ g[q] = Spare(old[q]).ff
      BY <1>2 DEF Shown
    <3>3. g[q] \in BOOLEAN
      <4>1. old[q] \in Layout
        BY <1>2
      <4>2. QED BY <1>2, <3>2, <4>1, LayoutFacts
    <3>4. CASE q \in Ops!PagesOf(b)
      <4>1. new[q] = e
        BY <2>1, <2>2, <3>4
      <4>2. h[q] = TRUE
        BY <2>3, <3>2, <4>1
      <4>3. QED BY <2>3, <3>1, <3>2, <3>4, <4>1, <4>2
    <3>5. CASE q \notin Ops!PagesOf(b)
      <4>1. new[q] = old[q]
        BY <2>1, <3>5
      <4>2. h[q] = g[q]
        BY <3>2, <4>1
      <4>3. h[q] = (g[q] \/ q \in Ops!PagesOf(b))
        BY <3>3, <3>5, <4>2
      <4>4. QED BY <3>1, <3>2, <3>5, <4>1, <4>3
    <3>6. QED BY <3>4, <3>5
  <2>5. t = [q \in FlashPages |-> IF q \in Ops!PagesOf(b) THEN Ops!All("ff", s[q]) ELSE s[q]]
    <3>1. t = [q \in FlashPages |-> t[q]]
      BY <1>2 DEF Shown
    <3>2. QED BY <2>4, <3>1
  <2>6. h = [q \in FlashPages |-> g[q] \/ q \in Ops!PagesOf(b)]
    <3>1. h = [q \in FlashPages |-> h[q]]
      BY <1>2 DEF Shown
    <3>2. QED BY <2>4, <3>1
  <2>7. Ops!Erase(b)
    BY <1>1, <1>2, <1>3, <2>5, <2>6 DEF Ops!Erase, Goods
  <2>8. QED BY <2>4, <2>7
<1>4. CASE fail = 1
  <2>1. new = old
    BY <1>2, <1>4 DEF ErasedAs
  <2>2. t = s /\ h = g
    BY <1>2, <2>1, NoPage
  <2>3. Ops!Erase(b)
    BY <1>1, <1>4, <2>2 DEF Ops!Erase, Goods
  <2>4. QED BY <2>1, <2>3
<1>5. QED BY <1>3, <1>4

LEMMA ReadMaps ==
  ASSUME NEW old, Goes(old, old), NEW pg \in FlashPages, serving = <<"read", pg>>,
         got[1] = Spare(old[pg]), \A i \in 1..ecccnt : got[i + 1] = old[pg][i],
         result' = <<"read", pg, Answer>>
  PROVE  Ops!Read(pg)
<1>1. Shown(old, Ends(Seen), Goods) /\ Shown(old, Ends(Seen)', Goods')
  BY ShownStep
<1>2. Ends(Seen)' = Ends(Seen) /\ Goods' = Goods
  BY <1>1, NoPage
<1>3. Answer = [i \in 1..ecccnt |-> Corrected(got[i + 1], ParityOf(got[1], i))]
  BY DEF Answer
<1>4. Answer = End(old[pg])
  BY <1>3 DEF End, ParityOf
<1>5. Ends(Seen)[pg] = End(old[pg])
  BY <1>1 DEF Shown
<1>6. QED BY <1>2, <1>4, <1>5 DEF Ops!Read, Goods

LEMMA CheckMaps ==
  ASSUME NEW old, Goes(old, old), NEW b \in Blocks, serving = <<"check", b>>,
         got[1] = Spare(old[(b + 1) * ppb - 1]), result' = <<"check", b, Answer>>
  PROVE  Ops!Check(b)
<1>1. Shown(old, Ends(Seen), Goods) /\ Shown(old, Ends(Seen)', Goods')
  BY ShownStep
<1>2. Ends(Seen)' = Ends(Seen) /\ Goods' = Goods
  BY <1>1, NoPage
<1>3. PICK pg : pg = (b + 1) * ppb - 1
  OBVIOUS
<1>4. pg \in FlashPages /\ Ops!LastPage(b) = pg
  BY <1>3, PagesOfBlocks
<1>5. Answer = IF got[1].ff THEN 0 ELSE 1
  BY DEF Answer
<1>6. Goods[pg] = got[1].ff
  BY <1>1, <1>3, <1>4 DEF Shown
<1>7. Answer = IF Goods[Ops!LastPage(b)] THEN 0 ELSE 1
  BY <1>4, <1>5, <1>6
<1>8. QED BY <1>2, <1>7 DEF Ops!Check, Goods

LEMMA QueryMaps ==
  ASSUME NEW old, Goes(old, old), serving = <<"query", 0>>,
         <<got[1].v[1], got[2].v[1]>> = <<"vid", "did">>, result' = <<"query", 0, Answer>>
  PROVE  Ops!Query
<1>1. Shown(old, Ends(Seen), Goods) /\ Shown(old, Ends(Seen)', Goods')
  BY ShownStep
<1>2. Ends(Seen)' = Ends(Seen) /\ Goods' = Goods
  BY <1>1, NoPage
<1>3. Answer = <<got[1].v[1], got[2].v[1]>>
  BY DEF Answer
<1>4. QED BY <1>2, <1>3 DEF Ops!Query, Goods

-----------------------------------------------------------------------------
(* The call that runs, and where it is.                                    *)

InCall ==
  \/ serving = <<"query", 0>> /\ InQuery
  \/ \E pg \in FlashPages : serving = <<"read", pg>> /\ InRead(pg)
  \/ \E pg \in FlashPages, v \in Contents :
       serving = <<"program", pg>> /\ \E items : items = Written(v) /\ InStore(pg, items)
  \/ \E b \in Blocks : serving = <<"check", b>> /\ InCheck((b + 1) * ppb - 1)
  \/ \E b \in Blocks : serving = <<"erase", b>> /\ InErase(b * ppb)
  \/ \E b \in Blocks :
       serving = <<"mark", b>> /\ \E items : items = AllOf("00", FALSE) /\ InStore((b + 1) * ppb - 1, items)

AllHonest == \A pg \in FlashPages : Honest(Seen[pg])

CallInv ==
  /\ FlashInv
  /\ AllHonest
  /\ serving # <<>> => before \in [FlashPages -> Layout] /\ InCall

LEMMA MarkItems ==
  ASSUME pagesize \in PageSizes
  PROVE  AllOf("00", FALSE) \in Layout
  BY AllOfLayout

\* A call that returns is one step of the specification.
LEMMA ReturnsMap ==
  ASSUME Exact, CallInv, returns
  PROVE  Ops!OpsNext /\ AllHonest'
<1>1. /\ serving # <<>> /\ FlashInv /\ HearsDisabled /\ "ff" \notin Contents /\ pagesize \in PageSizes
      /\ before \in [FlashPages -> Layout] /\ InCall /\ \A pg \in FlashPages : Honest(before[pg])
  BY NothingRuns, ChipTypes DEF CallInv, Exact, Seen, AllHonest
<1>2. PICK old, new : old = before /\ new = cells
  OBVIOUS
<1>3. /\ pagesize' = pagesize /\ Seen = old /\ Seen' = new
      /\ result' = <<serving[1], serving[2], Answer>>
  BY <1>1, <1>2 DEF returns, Seen
<1>4. Goes(old, new) /\ \A pg \in FlashPages : Honest(old[pg])
  BY <1>1, <1>2, <1>3 DEF Goes
<1>5. ASSUME \A pg \in FlashPages : Honest(new[pg]) PROVE AllHonest'
  BY <1>3, <1>5, ShowsNext DEF AllHonest
<1>6. \A pg \in FlashPages : Fits(pg)
  BY FitsPages
<1>7. CASE serving = <<"query", 0>> /\ InQuery
  <2>1. cells = before /\ <<got[1].v[1], got[2].v[1]>> = <<"vid", "did">>
    BY <1>1, <1>7, QueryEnds
  <2>2. new = old /\ result' = <<"query", 0, Answer>>
    BY <1>2, <1>3, <1>7, <2>1
  <2>3. Ops!Query
    BY <1>4, <1>7, <2>1, <2>2, QueryMaps
  <2>4. QED BY <1>4, <1>5, <2>2, <2>3 DEF Ops!OpsNext
<1>8. ASSUME NEW pg \in FlashPages, serving = <<"read", pg>>, InRead(pg)
      PROVE  Ops!OpsNext /\ AllHonest'
  <2>1. cells = before /\ got[1] = Spare(before[pg]) /\ \A i \in 1..ecccnt : got[i + 1] = before[pg][i]
    BY <1>1, <1>6, <1>8, ReadEnds
  <2>2. new = old /\ result' = <<"read", pg, Answer>>
    BY <1>2, <1>3, <1>8, <2>1
  <2>3. Ops!Read(pg)
    BY <1>2, <1>4, <1>8, <2>1, <2>2, ReadMaps
  <2>4. Ops!Pages = FlashPages
    BY DEF Ops!Pages, FlashPages
  <2>5. QED BY <1>4, <1>5, <2>2, <2>3, <2>4 DEF Ops!OpsNext
<1>9. ASSUME NEW pg \in FlashPages, NEW v \in Contents, serving = <<"program", pg>>,
             NEW items, items = Written(v), InStore(pg, items)
      PROVE  Ops!OpsNext /\ AllHonest'
  <2>1. items \in Layout
    BY <1>1, <1>9, WrittenLayout
  <2>2. PICK fail \in 0..1, kept \in BOOLEAN : cells = StoredAs(before, pg, items, fail, kept) /\ got[1].v[2] = fail
    BY <1>1, <1>6, <1>9, <2>1, StoreEnds
  <2>3. Answer = fail
    BY <1>9, <2>2 DEF Answer
  <2>4. result' = <<"program", pg, fail>>
    BY <1>3, <1>9, <2>3
  <2>5. new = StoredAs(old, pg, Written(v), fail, kept)
    BY <1>2, <1>9, <2>2
  <2>6. Ops!Program(pg, v) /\ \A q \in FlashPages : Honest(new[q])
    BY <1>1, <1>4, <2>4, <2>5, ProgramMaps
  <2>7. Ops!Pages = FlashPages
    BY DEF Ops!Pages, FlashPages
  <2>8. QED BY <1>5, <2>6, <2>7 DEF Ops!OpsNext
<1>10. ASSUME NEW b \in Blocks, serving = <<"check", b>>, InCheck((b + 1) * ppb - 1)
       PROVE  Ops!OpsNext /\ AllHonest'
  <2>1. PICK pg : pg = (b + 1) * ppb - 1
    OBVIOUS
  <2>2. pg \in FlashPages
    BY <2>1, PagesOfBlocks
  <2>3. cells = before /\ got[1] = Spare(before[pg])
    BY <1>1, <1>6, <1>10, <2>1, <2>2, CheckEnds
  <2>4. new = old /\ result' = <<"check", b, Answer>>
    BY <1>2, <1>3, <1>10, <2>3
  <2>5. Ops!Check(b)
    BY <1>2, <1>4, <1>10, <2>1, <2>3, <2>4, CheckMaps
  <2>6. QED BY <1>4, <1>5, <2>4, <2>5 DEF Ops!OpsNext
<1>11. ASSUME NEW b \in Blocks, serving = <<"erase", b>>, InErase(b * ppb)
       PROVE  Ops!OpsNext /\ AllHonest'
  <2>1. PICK pg : pg = b * ppb
    OBVIOUS
  <2>2. Fits(pg)
    BY <1>6, <2>1, PagesOfBlocks
  <2>3. PICK fail \in 0..1 : cells = ErasedAs(before, pg, fail) /\ got[1].v[2] = fail
    BY <1>1, <1>11, <2>1, <2>2, EraseEnds
  <2>4. Answer = fail
    BY <1>11, <2>3 DEF Answer
  <2>5. result' = <<"erase", b, fail>>
    BY <1>3, <1>11, <2>4
  <2>6. new = ErasedAs(old, b * ppb, fail)
    BY <1>2, <2>1, <2>3
  <2>7. Ops!Erase(b) /\ \A q \in FlashPages : Honest(new[q])
    BY <1>4, <2>5, <2>6, EraseMaps
  <2>8. QED BY <1>5, <2>7 DEF Ops!OpsNext
<1>12. ASSUME NEW b \in Blocks, serving = <<"mark", b>>,
              NEW items, items = AllOf("00", FALSE), InStore((b + 1) * ppb - 1, items)
       PROVE  Ops!OpsNext /\ AllHonest'
  <2>1. PICK pg : pg = (b + 1) * ppb - 1
    OBVIOUS
  <2>2. Fits(pg) /\ items \in Layout
    BY <1>1, <1>6, <1>12, <2>1, PagesOfBlocks, MarkItems
  <2>3. PICK fail \in 0..1, kept \in BOOLEAN : cells = StoredAs(before, pg, items, fail, kept) /\ got[1].v[2] = fail
    BY <1>1, <1>12, <2>1, <2>2, StoreEnds
  <2>4. Answer = fail
    BY <1>12, <2>3 DEF Answer
  <2>5. result' = <<"mark", b, fail>>
    BY <1>3, <1>12, <2>4
  <2>6. new = StoredAs(old, (b + 1) * ppb - 1, AllOf("00", FALSE), fail, kept)
    BY <1>2, <1>12, <2>1, <2>3
  <2>7. Ops!Mark(b) /\ \A q \in FlashPages : Honest(new[q])
    BY <1>4, <2>5, <2>6, MarkMaps
  <2>8. QED BY <1>5, <2>7 DEF Ops!OpsNext
<1>13. QED BY <1>1, <1>7, <1>8, <1>9, <1>10, <1>11, <1>12 DEF InCall

LEMMA SameScripts ==
  ASSUME pagesize' = pagesize
  PROVE  /\ \A pg, rest : SpareScript(pg, rest)' = SpareScript(pg, rest)
         /\ \A pg : (Enable \o SpareScript(pg, PageScript(pg)))' = Enable \o SpareScript(pg, PageScript(pg))
         /\ \A pg, items : StoreScript(pg, items)' = StoreScript(pg, items)
         /\ \A pg : EraseBlockScript(pg)' = EraseBlockScript(pg)
<1>1. ASSUME NEW pg, NEW rest PROVE SpareScript(pg, rest)' = SpareScript(pg, rest)
  <2>1. OobJob(pg)' = OobJob(pg)
    BY SameJobs
  <2>2. QED BY <2>1 DEF SpareScript, Sends, AfterAddress
<1>2. ASSUME NEW pg
      PROVE  (Enable \o SpareScript(pg, PageScript(pg)))' = Enable \o SpareScript(pg, PageScript(pg))
  <2>1. OobJob(pg)' = OobJob(pg) /\ DataJob(pg)' = DataJob(pg) /\ ecccnt' = ecccnt
    BY SameJobs
  <2>2. QED BY <2>1 DEF SpareScript, PageScript, Sends, AfterAddress
<1>3. ASSUME NEW pg, NEW items PROVE StoreScript(pg, items)' = StoreScript(pg, items)
  <2>1. StoreJob(pg, items)' = StoreJob(pg, items) /\ Pointed' = Pointed
    BY SameJobs
  <2>2. QED BY <2>1 DEF StoreScript, Sends, AfterAddress
<1>4. ASSUME NEW pg PROVE EraseBlockScript(pg)' = EraseBlockScript(pg)
  <2>1. EraseJob(pg)' = EraseJob(pg)
    BY DEF EraseJob
  <2>2. QED BY <2>1 DEF EraseBlockScript, Sends, AfterAddress
<1>5. QED BY <1>1, <1>2, <1>3, <1>4

\* A call begins with the whole of its script.
LEMMA CallBegins ==
  ASSUME CallInv, calls_driver
  PROVE  /\ Seen' = Seen /\ pagesize' = pagesize /\ result' = result
         /\ before' \in [FlashPages -> Layout'] /\ InCall'
<1>1. /\ serving = <<>> /\ serving' # <<>> /\ before' = cells
      /\ UNCHANGED <<pagesize, cells, chip, selected, waiting, timeout, got, result>>
  BY DEF calls_driver, Call
<1>2. FlashInv /\ script = <<>> /\ got = <<>> /\ chip.pin = "ready" /\ pagesize \in PageSizes
  BY <1>1 DEF CallInv, FlashInv, FlashTypes, WorksWhileWaiting, Ahead
<1>3. Seen' = Seen
  BY <1>1 DEF Seen
<1>4. before' \in [FlashPages -> Layout']
  <2>1. Layout' = Layout
    BY <1>1, SameJobs
  <2>2. QED BY <1>1, <1>2, <2>1 DEF FlashInv, FlashTypes
<1>5. cells' = before' /\ got' = <<>> /\ chip'.pin = "ready"
  BY <1>1, <1>2
<1>6. CASE Call("query", 0, nand_query_4740)
  <2>1. serving' = <<"query", 0>> /\ script' = nand_query_4740
    BY <1>6 DEF Call
  <2>2. InQuery'
    BY <1>5, <2>1 DEF InQuery
  <2>3. QED BY <1>1, <1>3, <1>4, <2>1, <2>2 DEF InCall
<1>7. ASSUME NEW pg \in FlashPages, Call("read", pg, nand_read_page(pg))
      PROVE  InCall'
  <2>1. serving' = <<"read", pg>> /\ script' = Enable \o SpareScript(pg, PageScript(pg))
    BY <1>2, <1>7, PageNumbers, PageCycles DEF Call
  <2>2. script' = (Enable \o SpareScript(pg, PageScript(pg)))'
    BY <1>1, <2>1, SameScripts
  <2>3. InRead(pg)'
    BY <1>5, <2>2 DEF InRead
  <2>4. QED BY <2>1, <2>3 DEF InCall
<1>8. ASSUME NEW pg, NEW items, script' = StoreScript(pg, items)
      PROVE  InStore(pg, items)'
  BY <1>1, <1>5, <1>8, SameScripts DEF InStore
<1>9. ASSUME NEW pg \in FlashPages, NEW v \in Contents, Call("program", pg, nand_program_page(v, pg))
      PROVE  InCall'
  <2>1. PICK items : items = Written(v)
    OBVIOUS
  <2>2. serving' = <<"program", pg>> /\ script' = StoreScript(pg, items)
    BY <1>2, <1>9, <2>1, PageNumbers, StoreScripts DEF Call
  <2>3. items = Written(v)'
    BY <1>1, <2>1, SameJobs
  <2>4. QED BY <1>8, <2>2, <2>3 DEF InCall
<1>10. ASSUME NEW b \in Blocks, Call("check", b, nand_check_badblock(b))
       PROVE  InCall'
  <2>1. PICK pg : pg = (b + 1) * ppb - 1
    OBVIOUS
  <2>2. serving' = <<"check", b>> /\ script' = SpareScript(pg, <<>>)
    BY <1>2, <1>10, <2>1, CheckCycles DEF Call
  <2>3. SpareScript(pg, <<>>)' = SpareScript(pg, <<>>)
    BY <1>1, SameScripts
  <2>4. InCheck(pg)'
    BY <1>5, <2>2, <2>3 DEF InCheck, InSpare
  <2>5. QED BY <2>1, <2>2, <2>4 DEF InCall
<1>11. ASSUME NEW b \in Blocks, Call("erase", b, nand_erase_block(b))
       PROVE  InCall'
  <2>1. PICK pg : pg = b * ppb
    OBVIOUS
  <2>2. serving' = <<"erase", b>> /\ script' = EraseBlockScript(pg)
    BY <1>2, <1>11, <2>1, EraseScripts DEF Call
  <2>3. InErase(pg)'
    BY <1>1, <1>5, <2>2, SameScripts DEF InErase
  <2>4. QED BY <2>1, <2>2, <2>3 DEF InCall
<1>12. ASSUME NEW b \in Blocks, pagesize # 4096, Call("mark", b, nand_mark_badblock(b))
       PROVE  InCall'
  <2>1. PICK pg, items : pg = (b + 1) * ppb - 1 /\ items = AllOf("00", FALSE)
    OBVIOUS
  <2>5. nand_mark_badblock(b) = StoreScript(pg, items)
    <3>1. MarksLast(b, pg, items)
      BY <1>12, <2>1 DEF MarksLast
    <3>2. QED BY <1>2, <3>1, StoreScripts
  <2>6. serving' = <<"mark", b>> /\ script' = nand_mark_badblock(b)
    BY <1>12 DEF Call
  <2>2. serving' = <<"mark", b>> /\ script' = StoreScript(pg, items)
    BY <2>5, <2>6
  <2>3. items = AllOf("00", FALSE)'
    BY <1>1, <2>1, SameJobs
  <2>4. QED BY <1>8, <2>1, <2>2, <2>3 DEF InCall
<1>13. QED BY <1>1, <1>3, <1>4, <1>6, <1>7, <1>9, <1>10, <1>11, <1>12 DEF calls_driver

\* The other steps of a call leave the caller what it sees.
LEMMA CallRuns ==
  ASSUME Exact, CallInv, FlashNext, serving # <<>>, script # <<>>
  PROVE  Running /\ InCall'
<1>1. /\ FlashInv /\ HearsDisabled /\ pagesize \in PageSizes
      /\ before \in [FlashPages -> Layout] /\ InCall /\ \A pg \in FlashPages : Fits(pg)
  BY ChipTypes, FitsPages DEF CallInv, Exact
<1>2. CASE serving = <<"query", 0>> /\ InQuery
  <2>1. Running /\ InQuery'
    BY <1>1, <1>2, QueryStep
  <2>2. QED BY <1>2, <2>1 DEF InCall, Running
<1>3. ASSUME NEW pg \in FlashPages, serving = <<"read", pg>>, InRead(pg)
      PROVE  Running /\ InCall'
  <2>1. Running /\ InRead(pg)'
    BY <1>1, <1>3, ReadStep
  <2>2. QED BY <1>3, <2>1 DEF InCall, Running
<1>4. ASSUME NEW pg \in FlashPages, NEW v \in Contents, serving = <<"program", pg>>,
             NEW items, items = Written(v), InStore(pg, items)
      PROVE  Running /\ InCall'
  <2>1. items \in Layout
    BY <1>1, <1>4, WrittenLayout
  <2>2. Running /\ InStore(pg, items)'
    BY <1>1, <1>4, <2>1, StoreStep
  <2>3. items = Written(v)' /\ serving' = <<"program", pg>>
    BY <1>4, <2>2, SameJobs DEF Running
  <2>4. QED BY <2>2, <2>3 DEF InCall
<1>5. ASSUME NEW b \in Blocks, serving = <<"check", b>>, InCheck((b + 1) * ppb - 1)
      PROVE  Running /\ InCall'
  <2>1. PICK pg : pg = (b + 1) * ppb - 1
    OBVIOUS
  <2>2. pg \in FlashPages /\ Fits(pg)
    BY <1>1, <2>1, PagesOfBlocks
  <2>3. Running /\ InCheck(pg)'
    BY <1>1, <1>5, <2>1, <2>2, CheckStep
  <2>4. QED BY <1>5, <2>1, <2>3 DEF InCall, Running
<1>6. ASSUME NEW b \in Blocks, serving = <<"erase", b>>, InErase(b * ppb)
      PROVE  Running /\ InCall'
  <2>1. PICK pg : pg = b * ppb
    OBVIOUS
  <2>2. Fits(pg)
    BY <1>1, <2>1, PagesOfBlocks
  <2>3. Running /\ InErase(pg)'
    BY <1>1, <1>6, <2>1, <2>2, EraseStep
  <2>4. QED BY <1>6, <2>1, <2>3 DEF InCall, Running
<1>7. ASSUME NEW b \in Blocks, serving = <<"mark", b>>,
             NEW items, items = AllOf("00", FALSE), InStore((b + 1) * ppb - 1, items)
      PROVE  Running /\ InCall'
  <2>1. PICK pg : pg = (b + 1) * ppb - 1
    OBVIOUS
  <2>2. Fits(pg) /\ items \in Layout
    BY <1>1, <1>7, <2>1, PagesOfBlocks, MarkItems
  <2>3. Running /\ InStore(pg, items)'
    BY <1>1, <1>7, <2>1, <2>2, StoreStep
  <2>4. items = AllOf("00", FALSE)' /\ serving' = <<"mark", b>>
    BY <1>7, <2>3, SameJobs DEF Running
  <2>5. QED BY <2>1, <2>3, <2>4 DEF InCall
<1>8. QED BY <1>1, <1>2, <1>3, <1>4, <1>5, <1>6, <1>7 DEF InCall

\* A symbol that changes is corrected, or it is a decay of what the caller sees.
LEMMA DecayMaps ==
  ASSUME Exact, CallInv, page_decays
  PROVE  /\ AllHonest'
         /\ Ops!Decay \/ (Ends(Seen)' = Ends(Seen) /\ Goods' = Goods /\ result' = result)
<1>1. /\ serving = <<>> /\ serving' = <<>> /\ pagesize' = pagesize /\ result' = result /\ pagesize \in PageSizes
      /\ cells \in [FlashPages -> Layout] /\ "ff" \notin Contents
      /\ Seen = cells /\ Seen' = cells' /\ \A pg \in FlashPages : Honest(cells[pg])
  BY DEF page_decays, UnchangedDriver, CallInv, AllHonest, Seen, FlashInv, FlashTypes, Exact
<1>2. PICK pg \in FlashPages, i \in {1, ecccnt}, n \in {4, 5} :
        /\ cells[pg][i].v[1] \in Contents /\ \A j \in 1..ecccnt : cells[pg][j].flips = 0
        /\ cells' = [cells EXCEPT ![pg][i].flips = n]
  BY DEF page_decays
<1>3. PICK old, new, s, g, t, h :
        /\ old = cells /\ new = cells'
        /\ s = Ends(Seen) /\ g = Goods /\ t = Ends(Seen)' /\ h = Goods'
  OBVIOUS
<1>4. Goes(old, new)
  BY <1>1, <1>3 DEF Goes
<1>5. Shown(old, s, g) /\ Shown(new, t, h)
  BY <1>3, <1>4, ShownStep
<1>6. i \in 1..ecccnt
  BY <1>1, Ecccnt
<1>7. new[pg] = [old[pg] EXCEPT ![i].flips = n] /\ Others(old, new, pg)
  BY <1>1, <1>2, <1>3 DEF Others
<1>8. /\ End(new[pg]) = End(old[pg]) \/ End(new[pg]) = [End(old[pg]) EXCEPT ![i] = <<"??", 0>>]
      /\ Spare(new[pg]).ff = Spare(old[pg]).ff /\ Honest(new[pg])
  <2>1. PICK a, b : a = old[pg] /\ b = new[pg]
    OBVIOUS
  <2>2. a \in Layout /\ a[i].v[1] \in Contents /\ a[i].flips = 0 /\ b = Decayed(a, i, n)
    BY <1>1, <1>2, <1>3, <1>6, <1>7, <2>1 DEF Decayed
  <2>3. /\ End(b) = End(a) \/ End(b) = [End(a) EXCEPT ![i] = <<"??", 0>>]
        /\ Spare(b).ff = Spare(a).ff /\ Honest(b)
    BY <1>1, <1>6, <2>2, DecayEnd
  <2>4. QED BY <2>1, <2>3
<1>9. t = [s EXCEPT ![pg] = End(new[pg])] /\ h = [g EXCEPT ![pg] = Spare(new[pg]).ff]
  BY <1>5, <1>7, OnePage
<1>10. /\ s[pg] = End(old[pg]) /\ g[pg] = Spare(old[pg]).ff
       /\ g = [q \in FlashPages |-> g[q]] /\ s = [q \in FlashPages |-> s[q]]
  BY <1>5 DEF Shown
<1>11. h = g
  BY <1>8, <1>9, <1>10
<1>12. AllHonest'
  <2>1. \A q \in FlashPages : Honest(new[q])
    BY <1>1, <1>3, <1>7, <1>8 DEF Others
  <2>2. QED BY <1>1, <1>3, <2>1, ShowsNext DEF AllHonest
<1>13. CASE End(new[pg]) = End(old[pg])
  <2>1. t = s
    BY <1>9, <1>10, <1>13
  <2>2. QED BY <1>1, <1>3, <1>11, <1>12, <2>1
<1>14. CASE End(new[pg]) = [End(old[pg]) EXCEPT ![i] = <<"??", 0>>]
  <2>1. t = [s EXCEPT ![pg][i] = <<"??", 0>>]
    BY <1>9, <1>10, <1>14
  <2>2. i \in DOMAIN s[pg]
    BY <1>6, <1>10 DEF End
  <2>3. pg \in Ops!Pages
    BY DEF Ops!Pages, FlashPages
  <2>4. Ops!Decay
    BY <1>1, <1>3, <1>11, <2>1, <2>2, <2>3 DEF Ops!Decay, Goods
  <2>5. QED BY <1>12, <2>4
<1>15. QED BY <1>8, <1>13, <1>14

LEMMA StartMaps ==
  ASSUME FlashInit
  PROVE  Ops!OpsInit /\ CallInv
<1>1. FlashInv /\ pagesize \in PageSizes /\ serving = <<>> /\ result = <<>> /\ Seen = cells
  BY FlashInitInv DEF FlashInit, Powered, Seen
<1>2. PICK bad \in SUBSET Blocks :
        cells = [pg \in FlashPages |-> AllOf("ff", \A b \in bad : pg # (b + 1) * ppb - 1)]
  BY DEF FlashInit
<1>3. ASSUME NEW pg \in FlashPages
      PROVE  /\ Ends(Seen)[pg] = Ops!All("ff", Ends(Seen)[pg]) /\ Honest(Seen[pg])
             /\ ~Goods[pg] => \E b \in Blocks : pg = Ops!LastPage(b)
  <2>1. PICK ff : ff = \A b \in bad : pg # (b + 1) * ppb - 1
    OBVIOUS
  <2>2. Seen[pg] = AllOf("ff", ff)
    BY <1>1, <1>2, <2>1
  <2>3. End(Seen[pg]) = Same("ff") /\ Spare(Seen[pg]).ff = ff /\ Honest(Seen[pg])
    BY <1>1, <2>2, AllEnd
  <2>4. Ends(Seen)[pg] = Same("ff") /\ Goods[pg] = ff
    BY <2>3, Shows DEF Goods
  <2>5. Ends(Seen)[pg] = Ops!All("ff", Ends(Seen)[pg])
    BY <2>4 DEF Ops!All, Same
  <2>6. ASSUME ~Goods[pg] PROVE \E b \in Blocks : pg = Ops!LastPage(b)
    BY <2>1, <2>4, <2>6, PagesOfBlocks
  <2>7. QED BY <2>3, <2>5, <2>6
<1>4. Ops!Pages = FlashPages
  BY DEF Ops!Pages, FlashPages
<1>5. Ops!OpsInit
  BY <1>1, <1>3, <1>4 DEF Ops!OpsInit, Goods
<1>6. QED BY <1>1, <1>3, <1>5 DEF CallInv, AllHonest

LEMMA SameHonest ==
  ASSUME AllHonest, pagesize' = pagesize, Seen' = Seen
  PROVE  AllHonest' /\ Ends(Seen)' = Ends(Seen) /\ Goods' = Goods
<1>1. PICK old : old = Seen
  OBVIOUS
<1>2. \A pg \in FlashPages : Honest(old[pg])
  BY <1>1 DEF AllHonest
<1>3. Ends(Seen)' = [pg \in FlashPages |-> End(old[pg])] /\ Goods' = [pg \in FlashPages |-> Spare(old[pg]).ff]
      /\ AllHonest'
  BY <1>1, <1>2, ShowsNext DEF AllHonest
<1>4. QED BY <1>1, <1>3, Shows DEF Goods

LEMMA SameCall ==
  ASSUME UNCHANGED nandFlashVars, InCall
  PROVE  InCall'
<1>1. /\ pagesize' = pagesize /\ cells' = cells /\ chip' = chip /\ serving' = serving
      /\ script' = script /\ got' = got /\ before' = before
  BY DEF nandFlashVars
<1>2. ecccnt' = ecccnt /\ Pointed' = Pointed /\ before' = before
  BY <1>1, SameJobs
<1>3. ASSUME NEW E, NEW m, NEW rest, InReads(E, m, rest) PROVE InReads(E, m, rest)'
  BY <1>1, <1>3 DEF InReads
<1>4. ASSUME NEW E, NEW m, Holds(E, m) PROVE Holds(E, m)'
  BY <1>1, <1>4 DEF Holds
<1>5. ASSUME NEW j, NEW rest, InJob(j, rest) PROVE InJob(j, rest)'
  <2>1. \A k : Latched(k) => Latched(k)'
    BY <1>1 DEF Latched
  <2>2. CASE JobBegins(j, rest)
    BY <1>1, <2>2 DEF InJob, JobBegins, Sends, AfterAddress
  <2>3. CASE JobAddresses(j, rest)
    BY <1>1, <2>1, <2>3 DEF InJob, JobAddresses, AfterAddress
  <2>4. CASE JobWrites(j, rest)
    BY <1>1, <2>1, <2>4 DEF InJob, JobWrites
  <2>5. CASE JobWorks(j, rest)
    BY <1>1, <2>1, <2>5 DEF InJob, JobWorks
  <2>6. QED BY <1>5, <2>2, <2>3, <2>4, <2>5 DEF InJob
<1>6. ASSUME NEW fail, InReport(fail) PROVE InReport(fail)'
  <2>1. PICK e : e = Told(fail)
    OBVIOUS
  <2>2. InReads(e, 1, Disable) => InReads(e, 1, Disable)'
    BY <1>3
  <2>3. Holds(e, 1) => Holds(e, 1)'
    BY <1>4
  <2>4. e = Told(fail)'
    BY <2>1 DEF Told
  <2>5. QED BY <1>1, <1>6, <2>1, <2>2, <2>3, <2>4 DEF InReport
<1>7. ASSUME NEW pg PROVE <<Spare(before[pg])>>' = <<Spare(before[pg])>>
  BY <1>1, <1>2 DEF Spare
<1>8. ASSUME NEW pg, NEW rest, InSpare(pg, rest) PROVE InSpare(pg, rest)'
  <2>1. SpareScript(pg, rest)' = SpareScript(pg, rest) /\ OobJob(pg)' = OobJob(pg)
    BY <1>1, SameScripts, SameJobs
  <2>2. PICK j, r, e, q : j = OobJob(pg) /\ r = Reads(1) \o (Disable \o rest) /\ e = <<Spare(before[pg])>>
                          /\ q = Disable \o rest
    OBVIOUS
  <2>3. InJob(j, r) => InJob(j, r)'
    BY <1>5
  <2>4. InReads(e, 1, q) => InReads(e, 1, q)'
    BY <1>3
  <2>5. j = OobJob(pg)' /\ e = <<Spare(before[pg])>>'
    BY <1>7, <2>1, <2>2
  <2>6. CASE got = <<>> /\ chip.pin = "ready" /\ script = SpareScript(pg, rest)
    BY <1>1, <1>8, <2>1, <2>6 DEF InSpare
  <2>7. CASE got = <<>> /\ InJob(j, r)
    BY <1>1, <1>8, <2>2, <2>3, <2>5, <2>7 DEF InSpare
  <2>8. CASE InReads(e, 1, q)
    BY <1>1, <1>8, <2>2, <2>4, <2>5, <2>8 DEF InSpare
  <2>9. QED BY <1>8, <2>2, <2>6, <2>7, <2>8 DEF InSpare
<1>9. ASSUME NEW pg, Spared(pg) PROVE Spared(pg)'
  <2>1. PICK e : e = <<Spare(before[pg])>>
    OBVIOUS
  <2>2. Holds(e, 1) /\ e = <<Spare(before[pg])>>'
    BY <1>7, <1>9, <2>1 DEF Spared
  <2>3. Holds(e, 1)'
    BY <1>4, <2>2
  <2>4. QED BY <1>1, <1>9, <2>2, <2>3 DEF Spared
<1>10. ASSUME NEW pg, NEW items, InStore(pg, items) PROVE InStore(pg, items)'
  <2>1. StoreScript(pg, items)' = StoreScript(pg, items) /\ StoreJob(pg, items)' = StoreJob(pg, items)
    BY <1>1, SameScripts, SameJobs
  <2>2. PICK j : j = StoreJob(pg, items)
    OBVIOUS
  <2>3. InJob(j, Status) => InJob(j, Status)'
    BY <1>5
  <2>4. CASE cells = before /\ got = <<>> /\ chip.pin = "ready" /\ script = StoreScript(pg, items)
    BY <1>1, <2>1, <2>4 DEF InStore
  <2>5. CASE cells = before /\ got = <<>> /\ chip.pin = "ready" /\ script = Pointed \o Sends(j, Status)
    <3>1. script' = (Pointed \o Sends(StoreJob(pg, items), Status))'
      BY <1>1, <1>2, <2>1, <2>2, <2>5 DEF Sends, AfterAddress
    <3>2. QED BY <1>1, <2>5, <3>1 DEF InStore
  <2>6. CASE cells = before /\ got = <<>> /\ InJob(j, Status)
    BY <1>1, <2>1, <2>2, <2>3, <2>6 DEF InStore
  <2>7. ASSUME NEW fail \in 0..1, NEW kept \in BOOLEAN, cells = StoredAs(before, pg, items, fail, kept),
               InReport(fail)
        PROVE  InStore(pg, items)'
    <3>1. InReport(fail)' /\ StoredAs(before, pg, items, fail, kept)' = StoredAs(before, pg, items, fail, kept)
      BY <1>1, <1>6, <2>7, SameStore
    <3>2. QED BY <1>1, <2>7, <3>1 DEF InStore
  <2>8. QED BY <1>10, <2>2, <2>4, <2>5, <2>6, <2>7 DEF InStore
<1>11. ASSUME NEW pg, InErase(pg) PROVE InErase(pg)'
  <2>1. EraseBlockScript(pg)' = EraseBlockScript(pg) /\ EraseJob(pg)' = EraseJob(pg)
    BY <1>1, SameScripts DEF EraseJob
  <2>2. PICK j : j = EraseJob(pg)
    OBVIOUS
  <2>3. InJob(j, Status) => InJob(j, Status)'
    BY <1>5
  <2>4. CASE cells = before /\ got = <<>> /\ chip.pin = "ready" /\ script = EraseBlockScript(pg)
    BY <1>1, <2>1, <2>4 DEF InErase
  <2>5. CASE cells = before /\ got = <<>> /\ InJob(j, Status)
    BY <1>1, <2>1, <2>2, <2>3, <2>5 DEF InErase
  <2>6. ASSUME NEW fail \in 0..1, cells = ErasedAs(before, pg, fail), InReport(fail)
        PROVE  InErase(pg)'
    <3>1. InReport(fail)' /\ ErasedAs(before, pg, fail)' = ErasedAs(before, pg, fail)
      BY <1>1, <1>6, <2>6, SameStore
    <3>2. QED BY <1>1, <2>6, <3>1 DEF InErase
  <2>7. QED BY <1>11, <2>2, <2>4, <2>5, <2>6 DEF InErase
<1>12. ASSUME NEW pg, InCheck(pg) PROVE InCheck(pg)'
  BY <1>1, <1>8, <1>9, <1>12 DEF InCheck
<1>13. ASSUME InQuery PROVE InQuery'
  <2>1. PICK e : e = Names
    OBVIOUS
  <2>2. InReads(e, 2, <<>>) => InReads(e, 2, <<>>)'
    BY <1>3
  <2>3. e = Names'
    BY <2>1 DEF Names
  <2>4. QED BY <1>1, <1>13, <2>1, <2>2, <2>3 DEF InQuery
<1>14. ASSUME NEW pg, InRead(pg) PROVE InRead(pg)'
  <2>1. /\ (Enable \o SpareScript(pg, PageScript(pg)))' = Enable \o SpareScript(pg, PageScript(pg))
        /\ DataJob(pg)' = DataJob(pg)
    BY <1>1, SameScripts, SameJobs
  <2>2. PageScript(pg)' = PageScript(pg)
    BY <1>2, <2>1 DEF PageScript, Sends, AfterAddress
  <2>3. PICK rest, j, r, m, e, f : /\ rest = PageScript(pg) /\ j = DataJob(pg) /\ r = Reads(ecccnt) \o Disable
                                   /\ m = ecccnt + 1 /\ e = <<Spare(before[pg])>> /\ f = e \o before[pg]
    OBVIOUS
  <2>4. /\ rest = PageScript(pg)' /\ j = DataJob(pg)' /\ r = (Reads(ecccnt) \o Disable)'
        /\ m = ecccnt' + 1 /\ e = <<Spare(before[pg])>>' /\ f = (<<Spare(before[pg])>> \o before[pg])'
    BY <1>1, <1>2, <1>7, <2>1, <2>2, <2>3
  <2>5. cells' = before'
    BY <1>1, <1>14 DEF InRead
  <2>6. CASE got = <<>> /\ chip.pin = "ready" /\ script = Enable \o SpareScript(pg, PageScript(pg))
    BY <1>1, <2>1, <2>5, <2>6 DEF InRead
  <2>7. CASE InSpare(pg, rest)
    <3>1. InSpare(pg, rest)'
      BY <1>8, <2>7
    <3>2. QED BY <2>4, <2>5, <3>1 DEF InRead
  <2>8. CASE Holds(e, 1) /\ InJob(j, r)
    <3>1. Holds(e, 1)' /\ InJob(j, r)'
      BY <1>4, <1>5, <2>8
    <3>2. QED BY <2>4, <2>5, <3>1 DEF InRead
  <2>9. CASE InReads(f, m, Disable)
    <3>1. InReads(f, m, Disable)'
      BY <1>3, <2>9
    <3>2. QED BY <2>4, <2>5, <3>1 DEF InRead
  <2>10. CASE Holds(f, m) /\ script = <<>>
    <3>1. Holds(f, m)' /\ script' = <<>>
      BY <1>1, <1>4, <2>10
    <3>2. QED BY <2>4, <2>5, <3>1 DEF InRead
  <2>11. QED BY <1>14, <2>3, <2>6, <2>7, <2>8, <2>9, <2>10 DEF InRead
<1>15. ASSUME NEW v PROVE Written(v)' = Written(v) /\ AllOf("00", FALSE)' = AllOf("00", FALSE)
  BY <1>1, SameJobs
<1>16. CASE serving = <<"query", 0>> /\ InQuery
  BY <1>1, <1>13, <1>16 DEF InCall
<1>17. ASSUME NEW pg \in FlashPages, serving = <<"read", pg>>, InRead(pg) PROVE InCall'
  BY <1>1, <1>14, <1>17 DEF InCall
<1>18. ASSUME NEW pg \in FlashPages, NEW v \in Contents, serving = <<"program", pg>>,
              NEW items, items = Written(v), InStore(pg, items)
       PROVE  InCall'
  <2>1. InStore(pg, items)' /\ items = Written(v)'
    BY <1>10, <1>15, <1>18
  <2>2. QED BY <1>1, <1>18, <2>1 DEF InCall
<1>19. ASSUME NEW b \in Blocks, serving = <<"check", b>>, InCheck((b + 1) * ppb - 1) PROVE InCall'
  BY <1>1, <1>12, <1>19 DEF InCall
<1>20. ASSUME NEW b \in Blocks, serving = <<"erase", b>>, InErase(b * ppb) PROVE InCall'
  BY <1>1, <1>11, <1>20 DEF InCall
<1>21. ASSUME NEW b \in Blocks, serving = <<"mark", b>>,
              NEW items, items = AllOf("00", FALSE), InStore((b + 1) * ppb - 1, items)
       PROVE  InCall'
  <2>1. InStore((b + 1) * ppb - 1, items)' /\ items = AllOf("00", FALSE)'
    BY <1>10, <1>15, <1>21
  <2>2. QED BY <1>1, <1>21, <2>1 DEF InCall
<1>22. QED BY <1>16, <1>17, <1>18, <1>19, <1>20, <1>21 DEF InCall

LEMMA StepMaps ==
  ASSUME Exact, CallInv, [FlashNext]_nandFlashVars
  PROVE  CallInv' /\ [Ops!OpsNext]_(Ops!opsVars)
<1>1. FlashInv /\ AllHonest
  BY DEF CallInv
<1>2. FlashInv'
  BY <1>1, WholeStep, StutterKeeps
<1>3. ASSUME pagesize' = pagesize, Seen' = Seen, result' = result
      PROVE  AllHonest' /\ [Ops!OpsNext]_(Ops!opsVars)
  <2>1. AllHonest' /\ Ends(Seen)' = Ends(Seen) /\ Goods' = Goods
    BY <1>1, <1>3, SameHonest
  <2>2. QED BY <1>3, <2>1 DEF Ops!opsVars, Goods
<1>4. CASE UNCHANGED nandFlashVars
  <2>1. /\ pagesize' = pagesize /\ result' = result /\ Seen' = Seen /\ serving' = serving /\ before' = before
    BY <1>4 DEF nandFlashVars, Seen
  <2>2. Layout' = Layout
    BY <2>1, SameJobs
  <2>3. InCall => InCall'
    BY <1>4, SameCall
  <2>4. QED BY <1>2, <1>3, <2>1, <2>2, <2>3 DEF CallInv
<1>5. CASE FlashNext /\ serving # <<>> /\ script # <<>>
  <2>1. Running /\ InCall'
    BY <1>5, CallRuns
  <2>2. /\ pagesize' = pagesize /\ result' = result /\ Seen' = Seen /\ serving' = serving /\ before' = before
    BY <1>5, <2>1 DEF Running, Seen
  <2>3. Layout' = Layout
    BY <2>2, SameJobs
  <2>4. QED BY <1>2, <1>3, <1>5, <2>1, <2>2, <2>3 DEF CallInv
<1>6. CASE FlashNext /\ serving # <<>> /\ script = <<>>
  <2>1. returns
    BY <1>1, <1>6, EndStep
  <2>2. Ops!OpsNext /\ AllHonest'
    BY <2>1, ReturnsMap
  <2>3. serving' = <<>>
    BY <2>1 DEF returns
  <2>4. QED BY <1>2, <2>2, <2>3 DEF CallInv
<1>7. CASE FlashNext /\ serving = <<>>
  <2>1. script = <<>> /\ chip.pin = "ready"
    BY <1>1, <1>7 DEF FlashInv, WorksWhileWaiting, Ahead
  <2>2. /\ ~nand_cmd /\ ~nand_addr /\ ~write_proc /\ ~read_proc /\ ~nand_enable /\ ~returns
        /\ ~sync_polls /\ ~sync_first_ends /\ ~sync_ends /\ ~chip_goes_busy /\ ~chip_gets_ready
    BY <1>7, <2>1 DEF nand_cmd, nand_addr, write_proc, read_proc, nand_enable, sync_polls, sync_first_ends,
                      sync_ends, Cycle, returns, chip_goes_busy, chip_gets_ready
  <2>3. CASE calls_driver
    <3>1. /\ Seen' = Seen /\ pagesize' = pagesize /\ result' = result
          /\ before' \in [FlashPages -> Layout'] /\ InCall'
      BY <2>3, CallBegins
    <3>2. QED BY <1>2, <1>3, <3>1 DEF CallInv
  <2>4. CASE page_decays
    <3>1. /\ AllHonest'
          /\ Ops!Decay \/ (Ends(Seen)' = Ends(Seen) /\ Goods' = Goods /\ result' = result)
      BY <2>4, DecayMaps
    <3>2. serving' = <<>>
      BY <1>7, <2>4 DEF page_decays, UnchangedDriver
    <3>3. [Ops!OpsNext]_(Ops!opsVars)
      BY <3>1 DEF Ops!OpsNext, Ops!opsVars, Goods
    <3>4. QED BY <1>2, <3>1, <3>2, <3>3 DEF CallInv
  <2>5. CASE Ended
    BY <1>4, <2>5 DEF Ended
  <2>6. QED BY <1>7, <2>2, <2>3, <2>4, <2>5 DEF FlashNext
<1>8. QED BY <1>4, <1>5, <1>6, <1>7

\* Each call of the driver is one step on its own page or block: whatever the
\* page size, the blocks, the contents, and whatever decays or fails, if the row
\* bytes hold the page numbers, "ff" marks erased pages only, and the chip takes
\* the cycles of nand_query_4740, which does not enable it (lines 59 to 470).
THEOREM FlashImplements == ASSUME Exact PROVE FlashSpec => ImplementsFlash
<1>1. FlashInit => Ops!OpsInit /\ CallInv
  BY StartMaps
<1>2. CallInv /\ [FlashNext]_nandFlashVars => CallInv' /\ [Ops!OpsNext]_(Ops!opsVars)
  BY StepMaps
<1>3. QED BY <1>1, <1>2, PTL DEF FlashSpec, ImplementsFlash, Ops!OpsSpec
=============================================================================
