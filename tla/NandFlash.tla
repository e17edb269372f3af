----------------------------- MODULE NandFlash -----------------------------
(***************************************************************************)
(* The NAND driver, nand_prog/nandflash_4740.c.  A call is a row of bus    *)
(* cycles, its script: commands, address bytes, data, and waits for the    *)
(* ready pin.  The chip works by itself between the cycles.  A page is a   *)
(* sequence of items: blocks of 512 bytes and, last, the spare bytes.  The *)
(* Reed-Solomon unit is its promise: up to four wrong symbols in a block   *)
(* are put right if the parity that is fetched is that of the block.       *)
(***************************************************************************)
EXTENDS Integers, Sequences, SequencesExt

CONSTANTS
  PageSizes,       \* the values of pagesize
  Blocks, ppb,     \* the blocks that are used, ppb
  Contents,        \* what a caller programs
  row,
  Timeout,         \* bound: 100 in __nand_sync
  Twb,             \* polls until the ready pin falls, at most
  HearsDisabled,   \* does the chip take cycles while NFCE1 is 0?
  MaxCalls         \* bound: calls of the driver

ASSUME FlashAssumption ==
  /\ PageSizes \subseteq {512, 2048, 4096} /\ Blocks \subseteq Nat /\ {ppb, row} \subseteq Nat \ {0}
  /\ Timeout \in Nat /\ Twb \in 0..Timeout /\ HearsDisabled \in BOOLEAN /\ MaxCalls \in Nat

VARIABLES
  pagesize,
  cells,             \* the pages of the chip
  chip,              \* its ready pin ("soon": still high), its latches, its register
  selected,          \* NFCE1
  serving,           \* the call that runs and its arguments, or <<>>
  script,            \* the bus cycles it has still to make
  waiting, timeout,  \* the loop __nand_sync is in, and timeout
  got,               \* what was read so far
  result,            \* the last call, its page or block, and what it returned
  before,            \* observation: cells at the begin of the call
  budget             \* bound: calls left

nandFlashVars == <<pagesize, cells, chip, selected, serving, script, waiting, timeout,
                   got, result, before, budget>>

FlashPages == {b * ppb + p : b \in Blocks, p \in 0..ppb-1}
ecccnt     == pagesize \div 512

Item(v)  == [v |-> v, flips |-> 0, par |-> <<>>, ff |-> TRUE]
Oob(par, ff) == [v |-> <<"oob", 0>>, flips |-> 0, par |-> par, ff |-> ff]
Same(v)  == [i \in 1..ecccnt |-> <<v, 0>>]
AllOf(v, ff) == Append([i \in 1..ecccnt |-> Item(<<v, 0>>)], Oob(Same(v), ff))

Spare(page) == page[ecccnt + 1]

-----------------------------------------------------------------------------
(* The scripts.                                                            *)

Cmd(c)  == <<[do |-> "cmd", arg |-> c]>>
Addr(a) == <<[do |-> "addr", arg |-> a]>>
Write(x) == <<[do |-> "write", arg |-> x]>>
Read    == <<[do |-> "read", arg |-> 0]>>
Sync    == <<[do |-> "sync", arg |-> 0]>>
Enable  == <<[do |-> "select", arg |-> TRUE]>>
Disable == <<[do |-> "select", arg |-> FALSE]>>
If(c, cycles) == IF c THEN cycles ELSE <<>>

\* The page number, shifted by a byte as often as it says.
rowaddr(pg) == LET shifted[k \in 0..row] == IF k = 0 THEN pg ELSE shifted[k - 1] \div 256 IN shifted

\* Variant with a bug: the high byte goes first.
Rows_HighFirst(pg) == [k \in 1..row |-> Addr(rowaddr(pg)[row - k] % 256)[1]]

Rows(pg) == [k \in 1..row |-> Addr(rowaddr(pg)[k - 1] % 256)[1]]

Status == Cmd("READ_STATUS") \o Read \o Disable

\* The address of a page, and the wait until the chip has fetched it.
Fetch(column, pg) == column \o Rows(pg) \o If(pagesize # 512, Cmd("CONFIRM")) \o Sync

read_oob(pg) ==
  Enable
  \o Fetch(IF pagesize = 512 THEN Cmd("READC") \o Addr(0)
           ELSE Cmd("READA") \o Addr(pagesize % 256) \o Addr(pagesize \div 256), pg)
  \o Read \o Disable

nand_check_badblock(b) == read_oob((b + 1) * ppb - 1)

nand_read_page(pg) ==
  Enable \o read_oob(pg)
  \o Fetch(Cmd("READA") \o Addr(0) \o If(pagesize # 512, Addr(0)), pg)
  \o [k \in 1..ecccnt |-> Read[1]] \o Disable

\* Variant with a bug: a chip with small pages is left in its spare area.
Pointed_Not == <<>>

Pointed == If(pagesize = 512, Cmd("READA"))

\* The address of a page, its items, and the wait until the chip has programmed it.
Store(column, pg, items) ==
  column \o Rows(pg) \o [k \in 1..ecccnt + 1 |-> Write(items[k])[1]] \o Cmd("PGPROG") \o Sync

nand_program_page(v, pg) ==
  Enable
  \o Store(Pointed \o Cmd("SEQIN") \o Addr(0) \o If(pagesize # 512, Addr(0)), pg,
           Append([k \in 1..ecccnt |-> Item(<<v, k>>)], Oob([k \in 1..ecccnt |-> <<v, k>>], TRUE)))
  \o Status

nand_mark_badblock(b) ==
  Enable
  \o Store(If(pagesize # 2048, Cmd("READA")) \o Cmd("SEQIN") \o Addr(0) \o If(pagesize = 2048, Addr(0)),
           (b + 1) * ppb - 1, AllOf("00", FALSE))
  \o Status

nand_erase_block(b) ==
  Enable \o (Cmd("ERASE_SETUP") \o Rows(b * ppb) \o Cmd("ERASE") \o Sync) \o Status

\* It does not enable the chip.
nand_query_4740 == Cmd("READID") \o Addr(0) \o Read \o Read

-----------------------------------------------------------------------------
(* What a call returns once its script has run.                            *)

\* Variant with a bug: the parity is always that of the first block.
ParityOf_First(oob, i) == oob.par[1]

ParityOf(oob, i) == oob.par[i]

Corrected(block, par) ==
  IF block.flips = 0 \/ (block.flips <= 4 /\ par = block.v) THEN block.v ELSE <<"??", 0>>

Answer ==
  CASE serving[1] = "read"  -> [i \in 1..ecccnt |-> Corrected(got[i + 1], ParityOf(got[1], i))]
    [] serving[1] = "check" -> IF got[1].ff THEN 0 ELSE 1
    [] serving[1] = "query" -> <<got[1].v[1], got[2].v[1]>>
    [] OTHER                -> got[1].v[2]

-----------------------------------------------------------------------------
(* The chip.                                                               *)

ColumnCycles == IF pagesize = 512 THEN 1 ELSE 2
Hears        == selected \/ HearsDisabled
Listens      == Hears /\ chip.pin = "ready"
Complete     == Len(chip.addr) = IF chip.cmd = "ERASE_SETUP" THEN row ELSE ColumnCycles + row
RowOf        == LET high[k \in 0..row] ==   \* of the last k bytes
                      IF k = 0 THEN 0 ELSE chip.addr[Len(chip.addr) + 1 - k] + 256 * high[k - 1]
                IN high[row]
Column       == IF pagesize = 512 THEN IF chip.area = "oob" THEN pagesize ELSE 0
                ELSE chip.addr[1] + 256 * chip.addr[2]

Opens  == {"READA", "READC", "SEQIN", "ERASE_SETUP", "READID"}
Starts == {<<"CONFIRM", "READA">>, <<"PGPROG", "SEQIN">>, <<"ERASE", "ERASE_SETUP">>}

Commanded(c) ==
  CASE c \in Opens /\ Listens ->
         [chip EXCEPT !.cmd = c, !.addr = <<>>, !.data = <<>>, !.reg = <<>>,
                      !.area = CASE c = "READA" -> "data" [] c = "READC" -> "oob" [] OTHER -> @]
    [] c = "READ_STATUS" /\ Hears -> [chip EXCEPT !.reg = <<Item(<<"status", chip.fail>>)>>]
    [] <<c, chip.cmd>> \in Starts /\ Listens /\ Complete -> [chip EXCEPT !.pin = "soon"]
    [] OTHER -> chip

Addressed(a) ==
  LET ch == [chip EXCEPT !.addr = Append(@, a)]
  IN IF ~Listens THEN chip
     ELSE IF chip.cmd = "READID" THEN [ch EXCEPT !.reg = <<Item(<<"vid", 0>>), Item(<<"did", 0>>)>>]
     ELSE IF pagesize = 512 /\ chip.cmd \in {"READA", "READC"} /\ Len(ch.addr) = 1 + row
          THEN [ch EXCEPT !.pin = "soon"] ELSE ch

\* Bits can only be cleared: a page that is not erased keeps a mark it has, and
\* holds rubbish unless zeros are written.
Rubbish(page) == AllOf("??", Spare(page).ff)

Programmed(page) ==
  IF Column # 0 \/ Len(chip.data) # ecccnt + 1 THEN Rubbish(page)
  ELSE IF chip.data = AllOf("00", FALSE) THEN chip.data
  ELSE IF page = AllOf("ff", Spare(page).ff)
       THEN [chip.data EXCEPT ![ecccnt + 1].ff = @ /\ Spare(page).ff]
  ELSE Rubbish(page)

chip_reads ==
  /\ chip.cmd \in {"READA", "READC"}
  /\ LET page == IF RowOf \in FlashPages THEN cells[RowOf] ELSE AllOf("??", FALSE)
     IN chip' = [chip EXCEPT !.pin = "ready",
                             !.reg = IF Column = 0 THEN page ELSE <<Spare(page)>>]
  /\ UNCHANGED cells

chip_programs ==
  /\ chip.cmd = "SEQIN"
  /\ \E fail \in 0..1 :
       /\ chip' = [chip EXCEPT !.pin = "ready", !.fail = fail]
       /\ \E kept \in BOOLEAN :
            cells' = [pg \in FlashPages |->
                        IF pg # RowOf THEN cells[pg]
                        ELSE IF fail = 0 THEN Programmed(cells[pg])
                        ELSE AllOf("??", Spare(cells[pg]).ff /\ (kept \/ Spare(chip.data).ff))]

chip_erases ==
  /\ chip.cmd = "ERASE_SETUP"
  /\ \E fail \in 0..1 :
       /\ chip' = [chip EXCEPT !.pin = "ready", !.fail = fail]
       /\ cells' = [pg \in FlashPages |->
                      IF fail = 0 /\ pg \in RowOf..RowOf + ppb - 1 THEN AllOf("ff", TRUE) ELSE cells[pg]]

UnchangedDriver == UNCHANGED <<pagesize, selected, serving, script, waiting, timeout,
                               got, result, before, budget>>

chip_goes_busy == chip.pin = "soon" /\ chip' = [chip EXCEPT !.pin = "busy"]
                  /\ UNCHANGED cells /\ UnchangedDriver

chip_gets_ready == chip.pin = "busy" /\ (chip_reads \/ chip_programs \/ chip_erases)
                   /\ UnchangedDriver

\* Between two calls some symbols of a block change: as many as can be put
\* right, or one more.
page_decays ==
  /\ serving = <<>>
  /\ \E pg \in FlashPages, i \in {1, ecccnt}, n \in {4, 5} :
       /\ cells[pg][i].v[1] \in Contents /\ \A j \in 1..ecccnt : cells[pg][j].flips = 0
       /\ cells' = [cells EXCEPT ![pg][i].flips = n]
  /\ UNCHANGED chip /\ UnchangedDriver

-----------------------------------------------------------------------------
(* The bus cycles of the driver.                                           *)

UnchangedCall == UNCHANGED <<pagesize, cells, serving, result, before, budget>>

Cycle(do) == script # <<>> /\ Head(script).do = do

Next == script' = Tail(script)

arg == Head(script).arg

nand_cmd ==
  /\ Cycle("cmd") /\ Next /\ chip' = Commanded(arg)
  /\ UnchangedCall /\ UNCHANGED <<selected, waiting, timeout, got>>

nand_addr ==
  /\ Cycle("addr") /\ Next /\ chip' = Addressed(arg)
  /\ UnchangedCall /\ UNCHANGED <<selected, waiting, timeout, got>>

write_proc ==
  /\ Cycle("write") /\ Next
  /\ chip' = IF Listens /\ chip.cmd = "SEQIN" THEN [chip EXCEPT !.data = Append(@, arg)] ELSE chip
  /\ UnchangedCall /\ UNCHANGED <<selected, waiting, timeout, got>>

read_proc ==
  /\ Cycle("read") /\ Next
  /\ IF Listens /\ chip.reg # <<>>
     THEN got' = Append(got, Head(chip.reg)) /\ chip' = [chip EXCEPT !.reg = Tail(@)]
     ELSE got' = Append(got, Oob(Same("??"), FALSE)) /\ UNCHANGED chip
  /\ UnchangedCall /\ UNCHANGED <<selected, waiting, timeout>>

nand_enable ==
  /\ Cycle("select") /\ Next /\ selected' = arg
  /\ UnchangedCall /\ UNCHANGED <<chip, waiting, timeout, got>>

\* The pin falls within Twb polls.
InTime == chip.pin = "soon" => Timeout - timeout < Twb

sync_polls ==
  /\ Cycle("sync") /\ waiting = "busy" /\ chip.pin # "busy" /\ timeout > 0 /\ InTime
  /\ timeout' = timeout - 1
  /\ UnchangedCall /\ UNCHANGED <<chip, selected, script, waiting, got>>

\* Variant with a bug: one poll is taken for enough.
GivesUp_AtOnce == chip.pin # "busy" /\ InTime

GivesUp == chip.pin # "busy" /\ timeout = 0 /\ InTime

sync_first_ends ==
  /\ Cycle("sync") /\ waiting = "busy" /\ (chip.pin = "busy" \/ GivesUp)
  /\ waiting' = "ready"
  /\ UnchangedCall /\ UNCHANGED <<chip, selected, script, timeout, got>>

sync_ends ==
  /\ Cycle("sync") /\ waiting = "ready" /\ chip.pin # "busy" /\ Next
  /\ waiting' = "busy" /\ timeout' = Timeout
  /\ UnchangedCall /\ UNCHANGED <<chip, selected, got>>

returns ==
  /\ serving # <<>> /\ script = <<>>
  /\ result' = <<serving[1], serving[2], Answer>>
  /\ serving' = <<>> /\ got' = <<>> /\ before' = <<>>
  /\ UNCHANGED <<pagesize, cells, chip, selected, script, waiting, timeout, budget>>

-----------------------------------------------------------------------------
(* The callers: do_prog_part and main.  Nobody marks a block of a chip     *)
(* with pages of 4096 bytes.                                               *)

Call(op, x, cycles) ==
  /\ serving = <<>> /\ budget > 0
  /\ serving' = <<op, x>> /\ script' = cycles /\ before' = cells /\ budget' = budget - 1
  /\ UNCHANGED <<pagesize, cells, chip, selected, waiting, timeout, got, result>>

calls_driver ==
  \/ Call("query", 0, nand_query_4740)
  \/ \E pg \in FlashPages : \/ Call("read", pg, nand_read_page(pg))
                            \/ \E v \in Contents : Call("program", pg, nand_program_page(v, pg))
  \/ \E b \in Blocks : \/ Call("check", b, nand_check_badblock(b))
                       \/ Call("erase", b, nand_erase_block(b))
                       \/ pagesize # 4096 /\ Call("mark", b, nand_mark_badblock(b))

\* The driver as nand_init_4740 leaves it; some blocks are bad from the factory.
Powered ==
  /\ chip = [pin |-> "ready", cmd |-> "none", area |-> "data", addr |-> <<>>, data |-> <<>>,
             reg |-> <<>>, fail |-> 0]
  /\ selected = FALSE /\ serving = <<>> /\ script = <<>> /\ waiting = "busy" /\ timeout = Timeout
  /\ got = <<>> /\ result = <<>> /\ before = <<>>

FlashInit ==
  /\ pagesize \in PageSizes /\ Powered /\ budget = MaxCalls
  /\ \E bad \in SUBSET Blocks :
       cells = [pg \in FlashPages |-> AllOf("ff", \A b \in bad : pg # (b + 1) * ppb - 1)]

\* Bound: no calls are left.
Ended == serving = <<>> /\ budget = 0 /\ UNCHANGED nandFlashVars

FlashNext ==
  \/ calls_driver \/ nand_cmd \/ nand_addr \/ write_proc \/ read_proc \/ nand_enable
  \/ sync_polls \/ sync_first_ends \/ sync_ends \/ returns
  \/ chip_goes_busy \/ chip_gets_ready \/ page_decays \/ Ended

FlashSpec == FlashInit /\ [][FlashNext]_nandFlashVars

-----------------------------------------------------------------------------

\* The pages keep their layout, and a call that is over leaves the bus quiet.
DriverTypeOK ==
  /\ pagesize \in PageSizes
  /\ DOMAIN cells = FlashPages
  /\ \A pg \in FlashPages : Len(cells[pg]) = ecccnt + 1 /\ Len(Spare(cells[pg]).par) = ecccnt
  /\ chip.pin \in {"ready", "soon", "busy"} /\ waiting \in {"busy", "ready"}
  /\ timeout \in 0..Timeout /\ chip.fail \in 0..1 /\ selected \in BOOLEAN
  /\ serving = <<>> => script = <<>> /\ got = <<>> /\ ~selected /\ chip.pin = "ready"

\* No command, address or datum is put on the bus while the chip works: each
\* wait of __nand_sync sees the work begin before it waits for the end, or the
\* work is over by then (lines 46 to 51).
QuietWhileBusy ==
  script # <<>> /\ Head(script).do \in {"cmd", "addr", "read", "write"} => chip.pin = "ready"

\* The bus is used as the chip allows it, at every cycle of every call.
DriverStateOK ==
  /\ DriverTypeOK
  /\ QuietWhileBusy

Ends(pages) == [pg \in FlashPages |->
                  [i \in 1..ecccnt |-> Corrected(pages[pg][i], Spare(pages[pg]).par[i])]]

Seen == IF serving = <<>> THEN cells ELSE before

Ops == INSTANCE FlashOps WITH
         shown <- Ends(Seen), good <- [pg \in FlashPages |-> Spare(Seen[pg]).ff]

\* A call of the driver acts like one step on its own page or block, for each
\* page size, whatever is programmed already, whatever decays or fails: the
\* spare bytes, the parities and the address cycles belong to that page (lines
\* 59 to 470).
ImplementsFlash == Ops!OpsSpec
=============================================================================
