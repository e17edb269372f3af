# Verification of code_collect

TLA+ models of the parts of `src/code_collect` that keep state, the TLC runs
that check them on small instances, and TLAPS proofs of what matters most for
every instance. Paths below are relative to `src/code_collect/`; `EL` is
`event-loop-server/event-loop.c`, `RM` is `event-loop-server/remote.c`.

The repository collects programs and libraries that do not know of each other.
Its core is the **event-loop server**: an event loop on `select` (cut from gdb's
gdbserver), a connection to a remote client on top of it, and a server that
opens, serves and opens again. Around it stand a generic queue, a dead-lock
detector for pthreads, a NAND flash programmer, a wifi daemon with its clients,
and small libraries.

## 1. Inventory

| Component | State | Operations | Talks to | What makes it correct | Model |
|---|---|---|---|---|---|
| callback list, EL 96-217 | linked list with head and tail, id counter | append, delete, run one | called by the loop and by RM | no dangling pointer, nothing lost, first in first out | `CallbackList`, `CallbackFifo` |
| event loop, EL | handler list, three fd sets, `num_fds`, event queue | add and delete handler, handle event, select and scan, the loop | calls the procs of its client, which call back into it | select is asked about the right descriptors; what it reports is handled once, by the right handler; it sleeps only when idle | `EventLoop` |
| remote connection, RM | `remote_desc`, read buffer, `readchar_callback` | open (stdio, device, port), close, accept, `readchar`, reschedule | client of the loop; the network | the characters of a session are returned once, in order, and all of them | `Remote` |
| server main, `server.c` | none of its own | open, serve, again; the serial handler | RM, EL | always serves again | `Remote` |
| SIGIO part of RM, 263-342 | handler, mask | `input_interrupt`, enable and disable | signals | not reached: nothing in the repository calls it | none yet |
| generic queue, `clibs/queue.h` | head, tail, links | enque, deque, iterate with OPERATE, remove, free | its client through OPERATE | memory safe, complete iterations, first in first out | `Queue`, `QueueFifo` |
| dead-lock detector, `pthread/pthread_dead_lock.c` | two mutexes and flags, two shares, a counter | two players, detector, counter watch, operator, main | threads on shared memory, cancellation | no false alarm, shares serial, ends | `DeadLock` |
| NAND programmer, `nand_prog/main.c` | partition, position in file and flash, buffers | copy around bad blocks, check run | the driver | good blocks hold the image in order; bad blocks untouched | `NandProg` |
| NAND driver, `nand_prog/nandflash_4740.c` | the bus, chip select; the chip with its ready pin | check, mark, erase, read, program, query | hardware registers | a call acts on its own page, the chip is left alone while it works | `NandFlash`, `FlashOps` |
| wifi daemon, `networks/daemon.c` | `gNetInfo`, the file NET_PATH, the flag of the player, its descriptors | probe, scan, FIFO command, tell the player, save; once a second | the clients, through file and FIFO; the player, by a signal; its own children | the player is told each change once; the file is never left empty; an update is lost only to an older copy | `NetDaemon` |
| wifi clients, `networks/wifi_interface.c`, `main_test.c` | the same file | read-modify-write of NET_PATH, wait for flags | the daemon | requests reach the daemon, waits end | `NetDaemon` |
| linked list, `clibs/list.h` | next and prev of each node | add, delete, move, splice, swap, walks | its callers | the links stay inverse, no ring without a head, a walk that deletes misses nothing | `LinkedList`, `ListSeq` |
| tree, `clibs/tree.c` | nodes with child and sibling, the list of indexes | set root, set child, find by index and by name, traversal | its callers | no node lost, found by its index | `Tree` |
| strings, `clibs/string.c` | none | lengths, comparisons, searches, copies, splitting | its callers | result against a definition without loops | `StringLib` |
| printf, `clibs/printf.c` | `printf_buf` | `vsnprintf`, `printf` | the serial line | the start of the text in the buffer, terminated; numbers read back | `PrintF` |
| sorting, `algo/qsort.c`, `headsort.c` | the array, the calls under way | `quick_sort`, `heap_sort` | none | the array sorted, a permutation of its input | `ArraySort`, `QuickSort`, `HeapSort` |
| shortest paths, `algo/Dijkstra.cpp`, `Dijkstra2.cpp` | costs, predecessors, candidates | the loop of Dijkstra, over lists and over a matrix | none | shortest lengths, a way back along edges | `ShortestPath` |
| `pthread_mutex.c`, `Time_interface/`, `driver/`, `Kernel/`, `bash/`, small tools | little or none | print, read devices | | | not modelled |
| `reference/gdb-7.6.1` | vendored | | | | out |

What is hard here: code of a client runs *inside* the loop and changes what the
loop is about to walk (callbacks); an event stays queued while its descriptor is
closed and given out again (stale events); characters already read are invisible
to `select` (lost wake-up); OPERATE frees the element an iteration stands on;
four threads and an operator take and free two mutexes; blocks go bad halfway
through a copy; and a daemon that runs out of descriptors, and whose children
become daemons, shares a file with its clients that nobody locks. PROJECT.json, `hazards`, lists each at its line, with the
properties that watch it, and what they leave aside.

## 2. The modules

```
CallbackFifo  <-refines-  CallbackList  <-EXTENDS-  EventLoop  <-EXTENDS-  Remote
QueueFifo     <-refines-  Queue                                 -refines-> LoopSpec
DeadLock,  NetDaemon                                       (one component each)
FlashOps  <-refines-  NandFlash,  NandProg  <-EXTENDS-  MCNand
ListSeq       <-refines-  LinkedList  <-.
ArraySort  <-EXTENDS-  QuickSort, HeapSort  <-+-EXTENDS-  MCClibs
ShortestPath,  Tree,  StringLib,  PrintF  <---'
ServerProofs (CallbackList, EventLoop, Remote),  QueueDeadLockProofs,
NandProofs (NandProg, NandFlash),  NetDaemonProofs,
ClibsProofs (QuickSort, HeapSort, Tree, ShortestPath),  TextProofs (PrintF, StringLib)
Walks  <-EXTENDS-  MCCallbackList,  MCQueue,  Iteration
Iteration  <-EXTENDS-  LinkedListProofs, ServerProofs, QueueDeadLockProofs,
                       ClibsProofs, TextProofs    (lemmas on induction, walks and lines)
MC...                          (constants and refinement mappings for TLC)
```

A definition has the name of the C function or variable it models; `map` in
PROJECT.json gives the lines. A definition `Name_Something` that follows the
comment "Variant with a bug" is not part of a model: it is what `Name` would be
after a plausible slip, and each property is seen to fail with one of them.

**CallbackList.** Nodes are named by the id `append_callback_event` gives them
(the counter is an int and wraps); `next` is a function, `live` the nodes that
are malloc'ed. `Chain` is what a walk from `first` meets, defined as the least
set closed under `next`, so that no recursion is needed and lemmas about it can
be proved. `CallbackSpec` lets a client call the three operations in any order;
with `DeleteLast = FALSE` it keeps to what RM does and never deletes the last of
several callbacks.

**Walks.** The sequence of nodes a loop over a linked structure meets: with it the
mappings of `MCCallbackList` and `MCQueue` read the abstract queue off the pointers.
A `Line` is such a sequence that meets every node of a set once.

**EventLoop.** The loop is one thread; `pc` is where it is, and in "outside",
"handler" and "callback" a client runs that may add and delete any handler and
any callback (`ClientCalls`) before it returns. `select` answers with any
non-empty sub-sets of the sets it was given, or is interrupted, or fails; the
scan goes through the handlers one per step and counts bits down as the C does.
`fresh` is not in the code: it holds the descriptors reported since their
registration.

**Remote.** The event loop with the handlers and the one callback of the server
in place of the general client: accept, the serial handler with its calls of
`readchar`, `process_remaining`, and `remote_open` in its three modes. The other
side connects, sends and closes at any time; accept may fail. `process_serial_event`
is a stub in the repository: the model calls `readchar` any number of times, at
least once, and closes and returns -1 after an error or when it wants to end.
A character is a pair (connection, position), so that an old one is seen.

**Queue.** Elements are addresses; `free` makes the fields of an element
`Garbage` and `malloc` may return it again. The iteration keeps its three
locals, and OPERATE may enqueue and may remove the element it is called with
(the comment of `QUEUE_iterate` allows it).

**DeadLock.** `pthread_dead_lock.c` statement by statement wherever shared state
is touched: five threads of control (main included) over two mutexes. A mutex is
the default one of glibc, which `pthread_mutex_unlock` frees whoever calls:
that is how the operator resolves a dead lock. The five seconds of
`loop_detect_count_thread` are modelled by what they are for: the others sleep a
second at a time, so the counter is found unchanged only when nobody can move.
The cancellation of the detector is deferred, that of the watch asynchronous.

**NandProg.** `do_prog_part`, one action per stage of its loop, on a partition
that was erased and has any set of factory bad blocks. Any page may fail, any
erase of a failed block may fail. A page is its number in the image with the look of
its spare bytes up to the end of the ECC: as in the image, or as `nand_program_page`
leaves them. That function overwrites them with 0xff and the ECC (driver, 424 to 431),
*in its caller's buffer too*. So the programming run compares what it reads back with
the overwritten pages, and the check run with the file, after it has put 36 bytes of
0xff where the ECC is (lines 119 to 124). An image with tags in those bytes (`Tagged`)
loses them on the flash, and the check run reports each block that has some, although
line 119 speaks of yaffs2 images; of a plain image it reports none. Taken for granted, as the
code does: the bad mark can always be written (its result is not looked at, line
136); a page is not of 512 bytes, whose spare area the 36 bytes of line 122 overrun.
With 4096 bytes the ECC has 72 (`EccBytes`) and every block is reported: the
theorem holds for any number, TLC's run has the 36 of 2048. A second run of the
program with `check_only` follows the first. `do_prog_part` is compiled out of the
main that is active at the moment (line 220); its own main is the one modelled.

**NandFlash, FlashOps.** The driver below it. A call is a `script`, the row of bus
cycles its code makes for the page size: commands, address bytes, data, waits,
chip select. `script` is worked off one cycle per step while the chip goes on by
itself: `pin` is "soon" between a command that starts work and the moment the
ready pin falls, then "busy". `__nand_sync` is three actions, a poll, the end of
its first loop and the end of its second. The chip does what the cycles it got say,
not what the driver meant: rows and columns are put together from the address
bytes, a command it cannot take is ignored, data that do not fit leave rubbish. A
page is a sequence of items, one for each 512 bytes and one for the spare bytes with the
parities of the others; up to four wrong symbols are put right if the parity that is
fetched belongs to the data. `FlashOps` is the promise: a call is one step on its own
page or block. What `NandProg` takes for granted of the driver (the mark on the last
page, programming and erasing that may fail, a page that reads back) is what
`FlashOps` says. `MCNand` runs the two side by side.

Taken for granted of the chip: its pin falls within the polls of `__nand_sync`
(`Twb <= Timeout`), and it obeys while NFCE1 is 0 (`HearsDisabled`). The second is
what the code relies on: `nand_query_4740` does not enable the chip, and `read_oob`
disables it (line 244) inside `nand_read_page`, which goes on to read the data. With
`HearsDisabled = FALSE` `ImplementsFlash` fails: a read
returns no data and a query no identity. Marking is left out for pages of 4096
bytes, for which lines 139 and 146 send the cycles of a small page: no caller does it.

**NetDaemon.** The daemon's main, one action per call that matters, with the
clients of `wifi_interface.c` in between. `SaveNetInfo` is two actions, because
`fopen(.., "w")` empties the file before `fclose` fills it, and `ReadNetInfo` does
not say that it read nothing. What the daemon goes on with then is modelled: zeros
in `gNetInfo`, which it cleared, and in `Get_Net_Status` and the clients a buffer
that was never written, which is any record of `Rubbish`. The network and the
shell commands answer anything. `left` counts descriptors as "none, one, more":
the daemon closes hardly any of them, and each `open` and `pipe` has its error
branch. `out` says what descriptor 1 is, which `init_daemon` has closed (line 725).
The fields of the record are those somebody tests.

`SearchWiFi`, `GetNetStatus` and `GetGateWay` fork a helper whose output the daemon
reads. The helper either prints at once and is killed in its sleep (`helper_prints`),
or prints nothing; then it returns into the loop after three or ten seconds and is a
daemon itself, while its parent waits (`helper_goes_on`). It prints nothing if its
command does (`route | grep`), and *always* if descriptor 1 was free: `pipe` has then made
it the read end, and `close(1)`, `dup`, `close(fd[0])` leave the helper without output.
That can happen for as long as no file has been left open in descriptor 1. If
descriptor 1 was not free, it is the parent's pipe in the helper: the first output of a later
command of the new daemon (`Prints`: the ping of line 741, the commands of the fifo) wakes the
parent, which goes on and kills it wherever it is (`output_comes`); a helper which that
one had just forked lives on (`Killed`). A parent also goes on when nobody holds the
write end of its pipe any more (`pipe_ends`); `holds` keeps who does, since each
process inherits those of its parent. A daemon that is killed between the `fopen` and the
`fclose` of `SaveNetInfo` leaves the file empty until the next write (`cut`).
So `st` is a function of processes. In a wifi that is connected without a lease, line 811
frees descriptor 1 in each turn, and the model shows a growing chain of
parents that wait for ever, each behind the daemon it has become.

Taken for granted: the daemon was started with descriptors 0 and 2 open; `fork`
and `malloc` do not fail; a helper that prints prints before its sleep ends, and its
parent, woken by that, kills it before the sleep ends. A `SearchWiFi` that runs off its end
returns garbage as `iSearchApNum`, which only decides how many entries are looked at
for a signal strength. `told`, `last`, `seen`, `wiped`, `cut` and `resumed` are observations
that no step reads.

**LinkedList.** Memory is the pair of functions `next` and `prev`, and each
function of list.h is its assignments in their order, since nodes may be
neighbours or equal; `list_swap` reads each pointer after the assignments before
it. A client adds only nodes that are in no list and does not use a head that was
spliced away before it has renewed it, as the header asks. `owner` is the list a
node is in, by the calls made; `ListSeq` says what each call does to sequences.

**ArraySort, QuickSort, HeapSort.** One comparison, one swap or one return per
step. `quick_sort_recursive` ends with its two calls, so the stack holds ranges
only. `from` follows where each element came from.

**ShortestPath.** A turn of the outer loop is an action, its inner loops go over
the edges (`OverEdges`, a recursive function over their numbers, which can be proved
about). A graph with parallel edges from the source is excluded by
`GraphsAssumption`: line 37 of `Dijkstra.cpp` keeps the last of them. The matrix of
`Dijkstra2.cpp` has no parallel edges at all. The same assumption keeps the weights
so small that a path over all vertices stays below `INT_MAX`, which both programs
use as "no path" and add to without a test.

**Tree.** Nodes are numbered in the order of their `malloc`. What the source calls
`HierNode` is the `TreeNode` of tree.h: `tree.c` does not compile as it stands, and
is modelled as it reads. A second child is hung in the sibling chain *of its
parent*, which is what the properties have to live with: a traversal still meets
it after its parent, but it is not below the child it follows. The recursive functions
of the source are recursive functions over the numbers of the nodes.

**StringLib.** Pointers are indexes into a memory of chars; each loop is
what one turn does to its variables (`Loop`, a recursive function of the number of turns; `Forward` and
`Backward` when a turn only moves a pointer), each operator returns the result or the memory afterwards.
`Loop` stops after as many turns as there are bytes; the proof shows that no loop needs more. The
properties say what the functions promise by the places of bytes, without loops.
They are stated of *every* memory, so that the steps (calls that change it) only
have to show that a call leads to no other memory.

**PrintF.** A format is a sequence of items (flags, width, precision, qualifier,
conversion, argument), `vsnprintf` formats one per step. `IsItem` says which items
the loop over the format can read. Addresses are few, so that
the wrap of `end` (line 189) happens; `unsigned long` and `short` have few values, so
that numbers are cut.

**MCClibs** puts the libraries side by side: they have no state in common, and
`lib` says which one is used in a behaviour. One run checks them all.

## 3. The runs

| Run | What it shows | Bounds, and why they are enough |
|---|---|---|
| `callbacks` | no dangling pointer, nothing lost, `CallbackFifo` is implemented (that every callback ends is shown in `event_loop`, under the loop's own fairness) | ids -2..2: lists of up to five nodes, and the counter wraps |
| `callbacks_lost` | **finding**: delete the last of two callbacks and the next append is lost (EL 187 sets `last` to NULL) | the same |
| `event_loop` | masks, `num_fds`, events and reports agree; the loop sleeps only when idle; every report is handled | descriptors 0, 2, 3: zero, a gap and two neighbours; two callbacks outstanding |
| `queue` | OPERATE gets live elements, iterations are complete, nothing leaks, `QueueFifo` | four elements: a middle one has neighbours that are neither head nor tail |
| `queue_tail` | **finding**: removing the tail leaves its predecessor pointing at it (queue.h 179) | two elements |
| `remote` | the stream survives buffer, callbacks and change of connection; every character is returned; the server always serves again; it is a client as `EventLoop` describes one | two connections, three characters each, a buffer of three: full, partial and empty reads, leftovers at a close |
| `remote_retry` | **finding**: `readchar` after an error returns a stale character (RM 358) | one connection |
| `dead_lock` | no false alarm and a right report, serial shares, nothing locked at the end, the program ends | none: the program has no parameter |
| `nand_prog` | image in order on the good blocks, stops when copied and copies no block more, check run agrees, bad blocks untouched, both runs end; the driver uses the bus as the chip allows it and implements `FlashOps` | four blocks of two pages, images of 1 to 5 pages: less than a block, whole blocks, left over pages, too large for the good blocks; the third page has tags, so that there are images with a block that the check run reports and without. Driver: pages of 512, 2048 and 4096 bytes, which take different cycles; one block whose rows need all three bytes, its last page and another; three calls: a read after a program after a program, an erase after a mark; one poll, so that the pin falls before and after it |
| `net_daemon` | the file is empty only during a save or after a kill inside one, updates are lost only to an older copy, flag, record and player agree, a link that stays down or up is announced | one client with one call, or two daemons at a time with one wait for a helper that is followed and one turn begun beside another daemon (`Bounds`): an overlap needs two writers, and a helper that becomes a daemon, wakes its parent and is killed by it needs one wait and two processes; a turn has all its error branches, since `left` reaches 0 |
| `net_request` | **finding**: a request left in the file is never answered: the daemon neither reads `iConnect_Format` nor sets `iAction_Flag`, for which `main_test.c` 126 waits | the same |
| `clibs` | lists, sorts, paths, tree, strings and printf do what their reference definitions say | two heads and three entries (neighbours, equal nodes, two lists); arrays of up to six of three values; all graphs of three nodes with three edges, simple ones of four; four nodes of a tree; memories of five chars; texts of three items in buffers shorter, equal and longer |

`queue`, `queue_tail` and `clibs` switch deadlock checking off: after `queue_free`, and
when a sort has returned, nothing is left to do. In `dead_lock`, `nand_prog` and
`net_daemon` the end of the program is a stuttering step, so that TLC does look for
states in which everybody waits.

Two limits are left outside the runs by their bounds, and the properties fail
beyond them. In `remote`, the counter of callback ids stays below its wrap: an id
of -1 is taken for NOT_SCHEDULED (RM 404), and with ids -2..0 `CallbackStatus`, a
part of `RemoteStateOK`, is violated. In `nand_prog`, no image is empty: a file of length 0 passes the test of
line 65 and has every good block programmed (line 153), so that with
`Images = {0}` `CopiesNeededOnly`, a part of `NandStateOK`, is violated.

### How the invariants are put together

Each component has one invariant for its state, a conjunction of named parts, each
of which is stated with its own comment in the module: the type invariant and what
relates the pieces of state. TLC names the conjunction when a part fails; the
mutants break each part on its own.

| Checked | Parts |
|---|---|
| `CallbackStateOK` | `CallbackTypeOK`, `NoDanglingPointer` |
| `EverythingIsServed` (liveness) | `EveryReportHandled`, `EveryCallbackEnds` |
| `LoopStateOK` | `LoopTypeOK`, `MasksMatch`, `NumFdsExact`, `ReadyHasEvent` |
| `QueueStateOK` | `QueueTypeOK`, `OperateOnLive`, `FreeLeaksNothing` |
| `RemoteStateOK` | `RemoteTypeOK`, `CallbackStatus`, `NoSleepOnBuffered`, `OneConnection` |
| `ServesEverySession` (liveness) | `EveryCharReturned`, `AlwaysServesAgain` |
| `StreamIntact` | `NextCharFromRemote`, `NoCharLost` |
| `DeadLockStateOK` | `DeadLockTypeOK`, `NothingLockedAtDestroy` |
| `NandStateOK` | `NandTypeOK`, `StopsWhenCopied`, `CopiesNeededOnly` |
| `DriverStateOK` | `DriverTypeOK`, `QuietWhileBusy` |
| `NetStateOK` | `NetTypeOK`, `EmptyOnlyWhileSaving` |
| `PlayerIsTold` | `AnnouncedIsSaved`, `PlayerAgrees` |
| `LinkIsAnnounced` (liveness) | `DownIsAnnounced`, `UpIsAnnounced` |
| `ListSafe` | `ListTypeOK`, `WellLinked`, `EveryRingHasHead` |
| `QuickSortCorrect` | `QuickTypeOK`, `KeepsElements`, `CallsApart`, `ApartIsOrdered`, `QuickSorts` |
| `HeapSortCorrect` | `HeapTypeOK`, `KeepsElements`, `HeapOrder`, `TailSorted`, `HeapSorts` |
| `PathsCorrect` | `PathTypeOK`, `UsedIsShortest`, `PreLeadsToSource`, `NoneForgotten` |
| `TreeCorrect` | `TreeTypeOK`, `TraversalMeetsAll`, `IndexLeadsToFirst`, `NameLeadsToNode` |
| `StringsCorrect` | `StringTypeOK`, `SearchesFind`, `ComparisonsOrder`, `CopiesWrite`, `StripLeavesText`, `SplitAtSeparators` |
| `PrintCorrect` | `PrintTypeOK`, `BufferHoldsStart`, `SerialShowsText`, `NumberReadsBack` |

### Properties worth a word

- `OnlyFreshEvents`: the event queue names descriptors, not handlers. When a proc
  deletes a handler and the descriptor comes back (close, accept), an old event
  is still queued; only the zeroed `ready_mask` of the new handler keeps it away.
- `NoReportDropped`: `select` counts bits, the scan stops when that many bits have
  been met. A descriptor with two bits must not end the scan early.
- `NoSleepOnBuffered`, `EveryCharReturned`: after one `read` of many characters
  `select` stays silent; the callback is all that brings the server back.
- `IsLoopClient`: the server refines `LoopSpec`, so the theorems on the loop hold
  for it as well.
- `SharesAreSerial`: the operator unlocks a mutex *under its holder*, and the two
  assignments of lines 151 and 177 still never overlap, because the holder waits
  for the mutex the other one keeps to its end.
- `LostOnlyByOverlap`: nobody locks NET_PATH, so updates *are* lost. The property says
  when: only if the writer's copy is older than the last record, or if the daemon
  has found a link down in this turn, which clears the fields of clients as well
  (daemon.c 750, 808).
- `EmptyOnlyWhileSaving`: a parent that is woken kills the daemon its helper has become at
  any place, so the file *can* stay empty: after a kill inside `SaveNetInfo`, and in no other way.
- `AnnouncedIsSaved`, `PlayerAgrees`: flag, record and player are changed at different
  places and each place has an error branch; without descriptors, in a helper that
  has become a daemon and in a parent that comes back, the first still holds. The
  second does not: a parent that comes back does not know what the other daemon has
  told the player.
- `DownIsAnnounced`, `UpIsAnnounced`: `daemon.c` clears *all* of `gNetInfo` when wifi is
  disconnected, and with it the wire's lease. They are stated for a network that
  has settled, and say nothing of a daemon without descriptors, one that waits for its helper
  or one that has left. The helper that has become a daemon is a daemon they do speak of.
- `ApartIsOrdered`: two elements that no pending call will compare are in order. The
  element that a call leaves out when it did not swap (qsort.c 22) has to be the
  pivot: that is why `left++` there is right.
- `WalkMissesNothing`: `list_for_each_safe` reads the next node before the body. The body
  may delete or move what it stands on, and add anywhere, also behind it.
- `ComparisonsOrder`: of equal and unequal, `strcmp` is right although it cuts the
  difference to a signed char; of less and greater only for ASCII. `strncasecmp` with
  length 0 compares all.
- `BufferHoldsStart`: of a text that is too long the buffer holds the first part and its
  NUL, and no byte outside of the buffer is written.
- `ImplementsFlash`: each byte on the bus counts: the order of the row bytes, the READ0
  that takes a small page out of its spare area before a program, the parity of the
  same 512 bytes. A slip in one of them acts on another page or corrects with the wrong
  parity, and every single call still returns 0.
- `ImageInOrder`: block n of the image is on the n-th good block, whatever failed.

## 4. Fairness

- `LoopFairSpec`: the thread is scheduled, procs return, and main starts the loop
  again when it returns (`server.c` 24-31). The callbacks run because the loop
  does (EL 469-476). Nothing is assumed of `select`.
- `RemoteFairSpec`: the server's one thread runs, and a `select` that again and
  again has something to read is not interrupted each time (strong fairness).
  Nothing is assumed of the other side.
- `DeadLockFairSpec`: threads are scheduled, a player that waits for a mutex gets
  it if it becomes free again and again (the detector sleeps a second between
  two locks), and the operator answers the prompt with an index in range (others
  are asked for again and change nothing).
- `NandFairness`: the process runs, and the check run is started.
- `NetFairSpec`: each daemon is scheduled, also one that was a helper, and a client that has begun to save goes on.
  Nothing is assumed of the network, the shell or the moment a client calls.

## 5. Proofs

All for every value of the constants, without trusted steps.

- **ServerProofs**, callback list. `CallbackListSafe`: no pointer dangles, for any client.
  The invariant adds `LinearChain` (last ends the list, no node has two
  predecessors); without it, unlinking one node could leave a second pointer to
  it. `CallbackListState` joins it with the types. `CallbackListComplete`: nothing is lost, for a client that never deletes the
  last of several callbacks; it needs that `last` is on the chain whenever the
  list is not empty, which is what EL 187 breaks. `CallbackListIsFifo`: for the same
  client the list implements `CallbackFifo`. Its invariant adds that the live nodes
  stand in a `Line` from `first` to `last`; an append makes the line longer at its end, run and
  delete take a node out of it, and the walk the mapping speaks of is that line.
- **ServerProofs**, event loop. `LoopState`, from `LoopTypes`, `LoopMasksMatch`, `LoopNumFds`,
  `LoopReadyHasEvent`; `LoopNoReportDropped`, `LoopOnlyFreshEvents`,
  `LoopSleepsOnlyWhenIdle` (the last under the same assumption on the client).
  The invariant `LoopInv` adds what holds in the middle of a scan: the events are
  those of the handlers already passed, and the bits left to count are at least
  the reported handlers still ahead (`Cardinality(Ahead) <= num_found`): that
  counting argument is why the early end of the scan is right.
- **ServerProofs**, remote. The server on top of the loop. `RemoteIsLoopClient`: every step
  of it is a step of `LoopSpec`; with it `RemoteLoopState`, and all theorems on the
  loop hold for the server. The invariant `Client` is that of the loop and the
  list with `Own`: inside which proc the server is, and that the list holds
  process_remaining exactly when `readchar_callback` says so (`RemoteCallbackStatus`); that
  is why reset_readchar never deletes the last of several callbacks, which is
  all the loop asks of a client. `RemoteStreamIntact` and `RemoteState` add three parts:
  `Session` (which descriptor is registered with which proc, and that the one of
  the connection is registered from accept to remote_close), `Buffer` (count and
  pointer of readchar stay in the buffer, and what is left is scheduled or about to be
  read), `Stream` (what is in the buffer are the last characters taken). That the loop does
  not sleep on buffered characters follows from `LoopSleepsOnlyWhenIdle` and `Buffer`. Assumed:
  -1 is no id (`NoWrap`: the counter of callbacks does not get to -1, for which 2^32 - 1
  appends would be needed; section 3 says what happens then), the caller closes after an error
  (`CloseOnError`; the run `remote_retry` shows it must), NULL is no number.
- **QueueDeadLockProofs**, queue. `QueueState` and `QueueIterateVisitsAll`, for any set of addresses, when OPERATE does
  not remove the tail behind others (the run `queue_tail` shows what happens if it does). `Shape`:
  what is live is what the walk from head meets, in a line that ends at tail.
  `Visit`: the element before the one OPERATE was called with is still linked
  to it, or to the one after it once it is removed, and `todo` lies on the walk from the next
  element. The walk is the least closed set again; that it has no cycle
  (`NoCycle`), so that what is ahead survives the removal of an element, follows from the
  shape without induction. `QueueIsFifo`: under the same assumption the queue implements
  `QueueFifo`, by the line the live elements stand in (`InOrder`); the items of
  the abstract queue are the data of that line.
- **QueueDeadLockProofs**, dead lock. `DeadLockStateCorrect`, `DeadLockSharesSerial` and
  `DeadLockAlarm` from `DeadLockInvariant`: TLC's run is exhaustive here, the proof says *why*.
  Until the operator unlocks a mutex, each mutex has one holder, by the place of its
  thread. The operator is asked only when each player holds one mutex and waits for
  the other; afterwards the victim's mutex is with the other player, which has
  both, and the victim stays at its second lock until that one has ended. So the
  shares read in the two assignments are never older than the last write. What main does
  follows from the joins: when it destroys, all four threads are gone.
- **NandProofs**, programmer. `NandState`, from `NandTypes`, `NandStopsWhenCopied` and
  `NandCopiesNeededOnly`; `NandImageInOrder`, `NandBadStaysBad`: all from `NandInv` and the assumption
  that no image is empty (`Nonempty`; section 3 says what an empty file does). The
  invariant says that offset and `copyblks` go together and a block is missing
  while the loop runs (`Control`), that `nand_buf` holds the missing block across
  retries (`Buffer`), that the block in work is unmarked and erased past
  `actual_pages` (`Work`), that blocks ahead are fresh (`Fresh`), and that the
  blocks behind are counted and in order (`Counted`, `InOrder`). The order is
  expressed by the cardinality of the set of good blocks before a block, which
  a step of the loop changes by at most one: no recursion is needed.
  `Buffer` says of each page in `nand_buf` that it is as it was read, or with its ECC if it was programmed before.
  `NandCheckAgrees` adds `Rerun` to it: in the check run the first `programmed` good blocks
  hold the image, and either no more are needed or no more are there, and the errors so far are the
  blocks passed that `LooksWrong` names, for any set of tagged pages and any length of the ECC.
- **NandProofs**, driver. `DriverStateCorrect`, for any blocks, pages, number of row bytes, order
  of calls and delay of the pin. `FlashInvariant` speaks of the cycles *still to come*:
  each command that starts work is followed by a wait, the row bytes of a read end in one,
  an address comes behind a command that opens it and no data come before the address,
  data come with the spare bytes behind them (`Sound`), and at the end the chip is
  disabled (`Leaves`). The chip works only inside such a wait (`WorksWhileWaiting`). That
  every script has this form is shown from the pieces it is put together from, by a
  lemma on what `\o` keeps; a cycle then only takes the head away.
- **NandProofs**, refinement. `FlashImplements`: the driver implements `FlashOps`, so
  that every read, program, erase, mark, check and query is one step on its own page or block,
  for any page sizes of the three, blocks, contents, calls and failures. `CallInv` adds to
  `FlashInvariant` where the call is: `InCall` has one formula for each kind of script, which says for
  each number of cycles still to come what the chip has latched, what is in its register
  and in `got`, and which page or block may by now differ from `before`. Its row is right
  since the bytes of `Rows`, put together again by `RowOf`, are the page number: both are recursive functions,
  and they meet by an induction over the bytes (`Fits`). `Honest` says that a page that
  reads as erased is erased, so that a program finds it as `FlashOps` does. A cycle keeps the
  formula or leads to the next one, the chip's work the same, and `returns` is
  the step of `FlashOps`; the theorem follows from `StartMaps` and `StepMaps`. The assumption `Exact` has three
  parts. `HearsDisabled`: section 2 says what the code relies on, and without it the refinement is false.
  The row bytes hold every page number: `main` sets `row` to 3 (lines 22 and 268), and of a page number
  that needs a fourth byte the driver would address another page. `"ff"`, the mark of an erased page,
  is not among the contents: a page of 0xff that was programmed has parities and is not an erased one.

- **NetDaemonProofs.** `NetState` (`NetTypes`, `NetEmptyOnlyWhileSaving`),
  `NetPlayerIsTold` (`NetAnnouncedIsSaved`, `NetPlayerAgrees`), `NetLostOnlyByOverlap`, for any number of clients
  and daemons, any rubbish and any `Bounds`. The assumption `NetAssumption` says only that the ids
  differ and the bounds are numbers. `AnnouncedIsSaved` speaks of one point of the turn; its invariant `AnnounceInv` says
  at each place what is known of status and flag (`AtPlace`), of every process: a helper starts
  with its parent's variables at the place its parent would go on from, and a parent goes on from there.
  `PlayerAgrees` needs in addition that only one daemon runs, and that its flag is
  what the player was told (`TellInv`), which is so until a parent is woken. `LostOnlyByOverlap`
  needs that whoever is in `seen` and between its read and its write has a copy with the fields of
  `last` it did not set (`CopyInv`); a helper inherits the copy together with its place in `seen`.
- **LinkedListProofs.** `ListIsSafe`, from `ListTypes`, `ListWellLinked`, `ListEveryRingHasHead`, for any sets of
  heads and entries. The ring is kept by a lemma per group of assignments (add,
  delete, splice, swap), with the cases in which the nodes are neighbours. That no
  ring is cut off is stated with sets closed under `next`: a set of the list after
  the call, without the node or with it, is one of the list before.
  `ListWalkMissesNothing`: what is still due lies ahead of the position, in its order (`DueInv`),
  whatever the body does to the list. What lies ahead is a least closed set again (`Met`); the
  sequence the walk starts with exists for a finite set of nodes by the lemmas of
  Iteration. `ListImplementsSequences`: the list refines `ListSeq`, for every call and
  any neighbours. The invariant `ShownInv` says that each ring is its head and the entries of a sequence
  (`Ring`), and that the sequences of all heads are the ones the mapping computes (`RingOrder`:
  a finite ring comes back to its head). Each call is followed twice: through the ring it
  changes (`RingInsert`, `RingDelete`, `RingSwapped`, `RingJoined`; the other rings
  are as they were, `RingKept`) and through all sequences (`AddStands`, `DelStands`,
  `SpliceStands`, `SwapStands`), which then are what the action of `ListSeq` says.
- **ClibsProofs**, shortest paths. `PathsAreShortest`, for every graph of `GraphsAssumption` and both programs. The
  invariant `PathInv`: the vertices used are closed and never beaten over an edge
  (`Settled`), some distance separates them from the others (`NearestUsed`), each
  predecessor leads along an edge that accounts for the cost to a vertex of lower rank (`LeadsBack`), and the list holds the vertices that have a cost and
  are not used (`CandidatesOK`). `UseVertex` is the step both programs have in common;
  `RelaxedAfterIs` follows the inner loop edge by edge. That costs are shortest is
  then shown against the reference, which goes over lengths of paths: no path is shorter
  (`NoneIsShorter`), and the way back is one (`PathIsWithin`).
- **Iteration.** Induction for a *set* of numbers, from 0 or from the end of a range, least
  elements, and that a function exists that is defined by a first value and a step, or
  whose value at a place depends on places of lower rank (`FixedPoint`, `FixedPointOnNat`): what the library's
  theorems say with an operator parameter, which the provers cannot instantiate. What `Walk`
  computes: of a `Line` it is that line, it does not depend on nodes that are not met, and
  a line stays one when a node is added at its end or unlinked, which takes its
  place out of the sequence (`LineAppend`, `LineRemove`, `RemoveAtIs`).
- **ClibsProofs**, sorts. For arrays of every length and
  any integers: `SwapKeeps` (a swap keeps the array a permutation of its input),
  with it `KeepsElements` for both; `QuickTypes`, `QuickApartIsOrdered`, `QuickSortSorts` from an
  invariant that bounds what has been scanned by the pivot and what lies outside a
  call's range by all of the range; `HeapTypes`, `HeapKeepsOrder`, `HeapSortSorts` from
  the order of the heap around the node that sinks, and the tail. `QuickSortIsCorrect`
  and `HeapSortIsCorrect` join them, with `CallsApart` and `TailSorted`, which are part of
  the invariants.
- **ClibsProofs**, tree. `TreeIsCorrect` and `AddedIsBelowParent`, for any number of nodes and any
  indexes, equal ones and -1 among them. The invariant `TreeInv`: both links of a node lead to nodes that
  came later (`Up`), no two links to the same one (`OneWay`), and each node behind the root has a link from
  one that is not before the root (`Rooted`). `Up` makes the recursive functions well defined and
  their values provable from the end of the table (`FixedPoint`, `FromTheEnd`). With `OneWay`
  what is met through the child and through the sibling of a node has nothing in common
  (`BelowAndBeside`), so that a traversal meets nothing twice; with `Rooted` it misses
  nothing. A call sets one link, to a node at the end of the table (`Grown`): the node is put into each traversal
  that comes to where it hangs, at one place, and the others are as they were (`GrownOrder`).
- **TextProofs**, printf. `PrintIsCorrect`, for every format of items that the loop can read, every size and
  address of the buffer and every width of an integer. That numbers read back
  (`ConversionReads`) goes along the loop of do_div: its recursive function exists
  because it asks for smaller numbers only (`FixedPointOnNat`), and the digits it gives, with any zeros in front,
  are worth the number (`DigitsAreWorth`). What `number` puts around them has one
  shape for every flag, width and precision (`NumberIsShaped`), and `ReadsAs` takes a text of this
  shape apart into its pieces (`PaddedIs`, `PlainReads`, `ShapeReads`). The invariant `PrintInv` adds to the
  buffer's contents what the loop over `printf_buf` has put on the line (`LineShows`), and that it
  stands in front of the terminator or on it: the bound of the loop, which the code does
  not have, is the NUL that `vsnprintf` is sure to write (`TerminatedIs`).
- **TextProofs**, strings. `StringsAreCorrect`, for every memory of any size, every place, length and
  char, and whatever calls were made before. Of a loop two things are shown once, by induction over its
  turns: it leaves the last of a row of states behind, if each turn leads from one to the next
  (`RunRule`), and it ends where it does not go on, if a rank falls with each turn (`LoopRule`). From these, a search
  stops at the first place that does not go on (`ForwardStops`), which is what a reference definition takes the
  minimum of (`ScanFinds`). A comparison stops at the first difference or at the
  common terminator (`ComparedIs`), whatever it makes of the two chars there; that `strcmp` of a
  signed char keeps 0 and, of ASCII chars, the sign is a lemma on two bytes (`SignedDifference`), and that
  `strncasecmp` of length 0 looks at everything one on the unsigned count (`LessIs`). A copy has written
  the first k bytes after k turns (`Underway`, from the other end `Fell`), and has not yet written the byte it reads: above for `memmove` to
  a lower address, below for one to a higher (`MemcpyIs`, `CopyDownIs`), and because
  the areas are apart for the functions on strings (`StillThere`). The calls of `strsep` keep the invariant `OpenAt`:
  the separators before the rest, and no others, are zeroed, and each has one token in front of it.

Assumptions on constants are the named ASSUMEs of the modules (an int range that
holds 0, finite sets of descriptors, a partition that is not empty, at least one
page per block, a finite set of list nodes, a NULL that is neither a node nor a sequence of entries, a natural number of tree nodes, chars of eight bits with 0 among them, a memory
shorter than the greatest unsigned number, formats of items that `printf` can read, a
buffer that begins behind address 0, weights that keep every path below
`INT_MAX`); TLC evaluates them in every run.

**Only model-checked:**

- liveness: `EverythingIsServed`, `ServesEverySession`, `MainEnds`, `BothRunsEnd`,
  `LinkIsAnnounced` (the provers have no rules for fairness, nor ENABLED).

All other properties of the passing runs, the safety invariants, the action properties and
the refinements, are theorems.

## 6. Not modelled

Vendored gdb (nearly all of the lines of the repository), kernel modules, device
and screen tests, shell scripts, `system.c`, `argc_argv.c` and the small tools of
`clibs`: third-party code, I/O, or functions that keep nothing. `pthread_mutex.c`: one
lock around a print loop. The Reed-Solomon and yaffs code words, and the
conversions of times and addresses: arithmetic over data without state.
`jz4740.h`: register names. `strcpy.c`:
copies words, depends on alignment, and does not work as written: its `INCSTR` discards its shift.

Inside the modelled parts, left out are: messages printed; socket options and
terminal settings, `remote_prepare`'s parsing of the name, the failures of `socket`
and `bind` with their messages, and the SIGIO part of RM, which nothing calls; in the
NAND driver `nand_program_bad_page`, which `main` reaches only past its `exit(1)`, and
the 16 bit procs; in `daemon.c` the parsing of what commands
print and the failures of `malloc` and `fork`; in `wifi_interface.c` the calls that
write the fifo, in place of which any command may arrive; in `list.h` the walks
that do not allow changes; in `tree.c` the samples; in `printf.c` the reading of a
format char by char, and calls of `printf` from two contexts at once, which share
`printf_buf`.

## 7. Plan

What is left, in order:

1. **Remote, the SIGIO part**: `input_interrupt` between any two steps of readchar.
2. **NandFlash**: `NandProg` on top of `FlashOps`, step by step. Since `FlashImplements` is
   proved, only the abstract side of it is left.
3. **NetDaemon**: two clients, three daemons at a time (a chain of parents that wait), and
   the player with its own view of the file.
