----------------------------- MODULE EventLoop -----------------------------
(***************************************************************************)
(* event-loop.c: the list of file handlers, the masks handed to select,    *)
(* the queue of ready events, and the loop that serves events first, then  *)
(* callbacks (CallbackList), and only then sleeps in select.               *)
(*                                                                         *)
(* The loop is one thread.  pc says where it is; in "outside" (before      *)
(* start_event_loop or after it returned), "handler" (inside the proc of a *)
(* file handler) and "callback" (inside the proc of a callback) code of a  *)
(* client runs, which may call the exported operations in any order.       *)
(* LoopSpec is the loop with the most general such client.                 *)
(***************************************************************************)
EXTENDS CallbackList, Sequences, FiniteSets

CONSTANTS
  Fd,               \* the file descriptors
  Proc              \* the procedures a client registers for them

ASSUME FdAssumption == Fd \subseteq Nat /\ IsFiniteSet(Fd)

Cond == {"readable", "writable", "exception"}

NoMask == [c \in Cond |-> {}]

NoCall == [fd |-> NULL, error |-> FALSE]

VARIABLES
  pc,               \* where the loop is
  file_handlers,    \* the list of handlers, by their fd, first one first
  mask, ready_mask, proc,  \* the fields of each handler
  check_masks,      \* the fd sets for the next select, by condition
  num_fds,          \* highest fd + 1, for select
  event_queue,      \* the fds of the queued events
  ready_masks,      \* what select found ready ...
  num_found,        \* ... how many bits are still to be looked at ...
  scan,             \* ... and the position reached in file_handlers
  call,             \* the handler that runs, and its argument err
  fresh             \* observation: fds reported since their registration

handlerVars == <<file_handlers, mask, ready_mask, proc, check_masks, num_fds>>
scanVars    == <<ready_masks, num_found, scan>>
loopVars    == <<pc, handlerVars, event_queue, scanVars, call, fresh, callbackVars>>

LoopInit ==
  /\ CallbackInit
  /\ pc = "outside"
  /\ file_handlers = <<>>
  /\ mask = [fd \in Fd |-> {}] /\ ready_mask = [fd \in Fd |-> {}]
  /\ proc \in [Fd -> Proc]
  /\ check_masks = NoMask
  /\ num_fds = 0
  /\ event_queue = <<>>
  /\ ready_masks = NoMask /\ num_found = 0 /\ scan = 0
  /\ call = NoCall
  /\ fresh = {}

-----------------------------------------------------------------------------

Members(s) == {s[i] : i \in 1 .. Len(s)}

(* s without x, which occurs once in it.                                   *)
Without(s, x) ==
  LET k == CHOOSE i \in 1 .. Len(s) : s[i] = x
  IN  [i \in 1 .. Len(s) - 1 |-> IF i < k THEN s[i] ELSE s[i + 1]]

Registered == Members(file_handlers)

(***************************************************************************)
(* create_file_handler.  A new descriptor goes to the head of the list and *)
(* into the masks; for a known one only the data of the handler changes.   *)
(***************************************************************************)
\* Variant with a bug: ready_mask is left as malloc returned it.
NewReadyMask_Uninitialised(fd) == ready_mask

NewReadyMask(fd) == [ready_mask EXCEPT ![fd] = {}]

create_file_handler(fd, m, p) ==
  /\ IF fd \in Registered
     THEN UNCHANGED <<file_handlers, ready_mask, check_masks, num_fds, fresh>>
     ELSE /\ file_handlers' = <<fd>> \o file_handlers
          /\ ready_mask' = NewReadyMask(fd)
          /\ check_masks' = [c \in Cond |-> IF c \in m
                                            THEN check_masks[c] \cup {fd}
                                            ELSE check_masks[c] \ {fd}]
          /\ num_fds' = IF num_fds <= fd THEN fd + 1 ELSE num_fds
          /\ fresh' = fresh \ {fd}
  /\ proc' = [proc EXCEPT ![fd] = p]
  /\ mask' = [mask EXCEPT ![fd] = m]

AddMask == {"readable", "exception"}

add_file_handler(fd, p) == create_file_handler(fd, AddMask, p)

(***************************************************************************)
(* delete_file_handler.  When the highest descriptor goes, the next lower  *)
(* one that select still watches gives num_fds.  The other fields of a     *)
(* freed handler keep their value: malloc may hand out the same block.     *)
(***************************************************************************)
\* Variant with a bug: num_fds only goes down by one.
HighestWatched_OneDown(n, masks) == n

HighestWatched(n, masks) ==
  LET Watched == {i \in 1 .. n : \E c \in Cond : i - 1 \in masks[c]}
  IN  IF Watched = {} THEN 0
      ELSE CHOOSE i \in Watched : \A j \in Watched : j <= i

\* Variant with a bug: the descriptor stays in the exception mask.
MasksWithout_Readable(fd) == [check_masks EXCEPT !["readable"] = @ \ {fd}]

MasksWithout(fd) ==
  [c \in Cond |-> IF c \in mask[fd] THEN check_masks[c] \ {fd}
                  ELSE check_masks[c]]

delete_file_handler(fd) ==
  IF fd \in Registered
  THEN /\ check_masks' = MasksWithout(fd)
       /\ num_fds' = IF fd + 1 = num_fds
                     THEN HighestWatched(num_fds - 1, MasksWithout(fd))
                     ELSE num_fds
       /\ mask' = [mask EXCEPT ![fd] = {}]
       /\ file_handlers' = Without(file_handlers, fd)
       /\ fresh' = fresh \ {fd}
       /\ UNCHANGED <<ready_mask, proc>>
  ELSE UNCHANGED <<handlerVars, fresh>>

-----------------------------------------------------------------------------

(***************************************************************************)
(* process_event: the event leaves the queue before handle_file_event      *)
(* looks its handler up.  A handler that is gone, or that is not           *)
(* interested in what was seen, lets the loop continue.                    *)
(***************************************************************************)
process_event_none ==
  /\ pc = "process_event" /\ event_queue = <<>>
  /\ pc' = "process_callback"
  /\ UNCHANGED <<handlerVars, event_queue, scanVars, call, fresh, callbackVars>>

Seen(fd) == ready_mask[fd] \cap mask[fd]

\* Variant with a bug: what was seen is kept when the handler is called.
AfterHandling_Kept(fd) == ready_mask

AfterHandling(fd) == [ready_mask EXCEPT ![fd] = {}]

handle_file_event ==
  /\ pc = "process_event" /\ event_queue # <<>>
  /\ event_queue' = Tail(event_queue)
  /\ LET fd == Head(event_queue) IN
       IF fd \in Registered
       THEN /\ ready_mask' = AfterHandling(fd)
            /\ IF Seen(fd) # {}
               THEN /\ pc' = "handler"
                    /\ call' = [fd |-> fd, error |-> "exception" \in ready_mask[fd]]
                    /\ fresh' = fresh \ {fd}
               ELSE UNCHANGED <<pc, call, fresh>>
       ELSE UNCHANGED <<ready_mask, pc, call, fresh>>
  /\ UNCHANGED <<file_handlers, mask, proc, check_masks, num_fds, scanVars,
                 callbackVars>>

(* The proc of the handler returns: below 0 stops the loop.                *)
handler_returns(res) ==
  /\ pc = "handler"
  /\ pc' = IF res < 0 THEN "outside" ELSE "process_event"
  /\ call' = NoCall
  /\ UNCHANGED <<handlerVars, event_queue, scanVars, fresh, callbackVars>>

run_callback ==
  /\ pc = "process_callback"
  /\ process_callback
  /\ pc' = "callback"
  /\ UNCHANGED <<handlerVars, event_queue, scanVars, call, fresh>>

no_callback ==
  /\ pc = "process_callback" /\ first = NULL
  /\ pc' = "wait_for_event"
  /\ UNCHANGED <<handlerVars, event_queue, scanVars, call, fresh, callbackVars>>

(* The proc of the callback returns: anything but 0 stops the loop.        *)
callback_returns(res) ==
  /\ pc = "callback"
  /\ pc' = IF res # 0 THEN "outside" ELSE "process_event"
  /\ UNCHANGED <<handlerVars, event_queue, scanVars, call, fresh, callbackVars>>

-----------------------------------------------------------------------------

(***************************************************************************)
(* wait_for_event: nothing to watch ends the loop; select fails (a signal) *)
(* or reports some of the watched descriptors below num_fds, and its       *)
(* result counts bits, so a descriptor may count twice.                    *)
(***************************************************************************)
no_sources ==
  /\ pc = "wait_for_event" /\ num_fds = 0
  /\ pc' = "outside"
  /\ UNCHANGED <<handlerVars, event_queue, scanVars, call, fresh, callbackVars>>

select_fails ==
  /\ pc = "wait_for_event" /\ num_fds # 0
  /\ pc' = "process_event"
  /\ UNCHANGED <<handlerVars, event_queue, scanVars, call, fresh, callbackVars>>

\* Variant with a bug: only the readable descriptors are counted.
BitsFound_Readers(rs) == Cardinality(rs["readable"])

BitsFound(rs) ==
  Cardinality(rs["readable"]) + Cardinality(rs["writable"])
    + Cardinality(rs["exception"])

select ==
  /\ pc = "wait_for_event" /\ num_fds # 0
  /\ \E r \in SUBSET check_masks["readable"], w \in SUBSET check_masks["writable"],
        x \in SUBSET check_masks["exception"] :
       /\ r \cup w \cup x # {}
       /\ \A fd \in r \cup w \cup x : fd < num_fds
       /\ ready_masks' = [c \in Cond |-> CASE c = "readable" -> r
                                           [] c = "writable" -> w
                                           [] c = "exception" -> x]
  /\ num_found' = BitsFound(ready_masks')
  /\ scan' = 1
  /\ pc' = "scan"
  /\ UNCHANGED <<handlerVars, event_queue, call, fresh, callbackVars>>

(***************************************************************************)
(* The loop over the handlers, in list order, that queues an event for     *)
(* each one found ready, while bits are left.                              *)
(***************************************************************************)
Scanning == scan <= Len(file_handlers) /\ num_found > 0

Reported(fd) == {c \in Cond : fd \in ready_masks[c]}

scan_handler ==
  /\ pc = "scan" /\ Scanning
  /\ scan' = scan + 1
  /\ LET fd == file_handlers[scan] IN
       IF Reported(fd) = {}
       THEN UNCHANGED <<num_found, event_queue, ready_mask, fresh>>
       ELSE /\ num_found' = num_found - 1
            /\ event_queue' = IF ready_mask[fd] = {}
                              THEN Append(event_queue, fd) ELSE event_queue
            /\ ready_mask' = [ready_mask EXCEPT ![fd] = Reported(fd)]
            /\ fresh' = fresh \cup {fd}
  /\ UNCHANGED <<pc, file_handlers, mask, proc, check_masks, num_fds,
                 ready_masks, call, callbackVars>>

(* What select found is not read again before the next select.             *)
scan_ends ==
  /\ pc = "scan" /\ ~Scanning
  /\ pc' = "process_event"
  /\ ready_masks' = NoMask /\ num_found' = 0 /\ scan' = 0
  /\ UNCHANGED <<handlerVars, event_queue, call, fresh, callbackVars>>

-----------------------------------------------------------------------------

(* One step of start_event_loop that is not the code of a client.          *)
LoopStep ==
  \/ process_event_none \/ handle_file_event
  \/ run_callback \/ no_callback
  \/ no_sources \/ select_fails \/ select
  \/ scan_handler \/ scan_ends

start_event_loop ==
  /\ pc = "outside"
  /\ pc' = "process_event"
  /\ UNCHANGED <<handlerVars, event_queue, scanVars, call, fresh, callbackVars>>

ClientRuns == pc \in {"outside", "handler", "callback"}

ClientReturns ==
  \E res \in {-1, 0, 1} : handler_returns(res) \/ callback_returns(res)

ClientCalls ==
  /\ ClientRuns
  /\ \/ \E fd \in Fd :
          \/ \E p \in Proc : add_file_handler(fd, p)
          \/ delete_file_handler(fd)
     \/ UNCHANGED <<handlerVars, fresh>>
  /\ append_callback_event \/ Delete \/ UNCHANGED callbackVars
  /\ UNCHANGED <<pc, event_queue, scanVars, call>>

LoopNext == LoopStep \/ ClientCalls \/ ClientReturns \/ start_event_loop

LoopSpec == LoopInit /\ [][LoopNext]_loopVars

(***************************************************************************)
(* The thread that runs the loop is scheduled, the procs return, and main  *)
(* starts the loop again each time it returns (server.c:24-31).            *)
(***************************************************************************)
LoopFairSpec ==
  /\ LoopSpec
  /\ WF_loopVars(LoopStep)
  /\ WF_loopVars(ClientReturns)
  /\ WF_loopVars(start_event_loop)

-----------------------------------------------------------------------------

PC == {"outside", "process_event", "handler", "process_callback", "callback",
       "wait_for_event", "scan"}

(* Every variable of the loop keeps its type: the lists hold descriptors   *)
(* and the masks conditions, whatever the procs call (event-loop.c:71-94). *)
LoopTypeOK ==
  /\ CallbackTypeOK
  /\ pc \in PC
  /\ file_handlers \in Seq(Fd)
  /\ mask \in [Fd -> SUBSET Cond] /\ ready_mask \in [Fd -> SUBSET Cond]
  /\ proc \in [Fd -> Proc]
  /\ check_masks \in [Cond -> SUBSET Fd]
  /\ num_fds \in Nat
  /\ event_queue \in Seq(Fd)
  /\ ready_masks \in [Cond -> SUBSET Fd]
  /\ num_found \in Int /\ scan \in Nat
  /\ call \in [fd : Fd \cup {NULL}, error : BOOLEAN]
  /\ fresh \in SUBSET Fd

(* select is asked about exactly what the handlers are interested in.      *)
MasksMatch ==
  \A c \in Cond : check_masks[c] = {fd \in Registered : c \in mask[fd]}

(* num_fds is the highest registered descriptor + 1, and 0 only when none  *)
(* is registered: select sees every source and the loop returns from       *)
(* wait_for_event only when all sources are gone (server.c:28-29).         *)
NumFdsExact ==
  /\ \A fd \in Registered : fd < num_fds
  /\ num_fds # 0 => num_fds - 1 \in Registered

(* A handler with something seen has its event in the queue, once: what    *)
(* select reported is neither forgotten nor handled twice.                 *)
ReadyHasEvent ==
  /\ \A fd \in Registered : ready_mask[fd] # {} => fd \in Members(event_queue)
  /\ \A i, j \in 1 .. Len(event_queue) :
       event_queue[i] = event_queue[j] => i = j

(* The four records the loop keeps of one descriptor agree after any       *)
(* sequence of add and delete, also from inside a handler: the list of     *)
(* handlers, the sets for select, num_fds, and the queue of events (event- *)
(* loop.c 225 to 446).                                                     *)
LoopStateOK ==
  /\ LoopTypeOK
  /\ MasksMatch
  /\ NumFdsExact
  /\ ReadyHasEvent

(* The loop sleeps in select only when no work is left: no event, no       *)
(* callback, nothing seen and not handled.                                 *)
SleepsOnlyWhenIdle ==
  pc = "wait_for_event" =>
    /\ event_queue = <<>>
    /\ live = {}
    /\ \A fd \in Registered : ready_mask[fd] = {}

(* wait_for_event queues every descriptor select found ready, although     *)
(* select counts bits and the loop counts handlers.                        *)
NoReportDropped ==
  [][pc = "scan" /\ pc' # "scan" =>
       \A fd \in Registered : Reported(fd) # {} => fd \in Members(event_queue)]_loopVars

(* A handler runs only for something select reported since it was          *)
(* registered: an event that is still queued for an earlier handler of the *)
(* same descriptor number never reaches the new one.                       *)
OnlyFreshEvents ==
  [][pc # "handler" /\ pc' = "handler" => call'.fd \in fresh]_loopVars

(* What select reported of a registered descriptor is eventually handled,  *)
(* or the descriptor is deleted, whatever the procs return.                *)
EveryReportHandled ==
  \A fd \in Fd : fd \in fresh ~> fd \notin fresh

(* Nothing waits forever: every report and every callback gets its turn,    *)
(* although procs run in between, stop the loop and start it again (lines   *)
(* 462 to 490).                                                            *)
EverythingIsServed == EveryReportHandled /\ EveryCallbackEnds

=============================================================================
