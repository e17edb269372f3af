----------------------------- MODULE NetDaemon -----------------------------
(***************************************************************************)
(* The wifi daemon (networks/daemon.c) and the clients that ask it for a   *)
(* connection (wifi_interface.c, main_test.c).  They share one file,       *)
(* NET_PATH, which holds one N_Info_t.  Everybody reads the whole record,  *)
(* changes some fields and writes the whole record back; nobody locks.     *)
(*                                                                         *)
(* fopen(.., "w") empties the file and fclose writes the record: two       *)
(* steps.  A reader that comes in between reads nothing, is not told so,   *)
(* and goes on with what its buffer held: zeros in the daemon, which       *)
(* cleared it, the rubbish of the stack in Get_Net_Status and in a client. *)
(*                                                                         *)
(* The daemon also tells a player, by a signal, when the connection comes  *)
(* and when it goes.  It closes few of the files and pipes it opens.       *)
(*                                                                         *)
(* SearchWiFi, GetNetStatus and GetGateWay fork a helper that runs a       *)
(* command, and read its output from a pipe.  A helper that is not killed  *)
(* in its sleep falls into the loop of main and is a daemon like its       *)
(* parent, which waits in the read until somebody writes into the pipe or  *)
(* nobody can any more.  So there may be several daemons.                  *)
(***************************************************************************)
EXTENDS Naturals

CONSTANTS
  Clients,      \* the processes that use wifi_interface
  Daemons,      \* the ids of the daemons that are followed
  NoOne,        \* no process
  Empty,        \* no file yet, or a file without a byte
  Rubbish,      \* the records an uninitialised buffer may look like
  Bounds        \* bounds: how often a parent that waits is followed, how many
                \* turns daemons begin while another one runs, and how often
                \* clients call

VARIABLES
  file,         \* NET_PATH
  st,           \* the state of each daemon
  heard,        \* the daemons whose pipe holds something they have not read
  budget,       \* what is left of the bounds
  cpc, rec,     \* where each client is, and its copy of the record
  told,         \* observation: what the player was told last
  resumed,      \* observation: a daemon that waited for a helper has gone on
  cut,          \* observation: a daemon was killed between fopen and fclose,
                \* and nobody has written since
  last,         \* observation: the last record written
  seen          \* observation: who has read that record

clientVars  == <<cpc, rec>>
daemonVars  == <<st, heard, told, resumed>>
netVars     == <<file, last, cut, seen, budget, daemonVars, clientVars>>

(***************************************************************************)
(* The fields that somebody tests.  A status or a DHCP flag is compared    *)
(* with 0 and 1 only, so 2 stands for every other int a status may hold;   *)
(* iConnect_Format is abstracted to whether there is a request at all, and *)
(* iAction_Flag to its lowest bit.                                         *)
(***************************************************************************)
N_Info_t == [iStatus_Wire : 0..2, iStatus_Wireless : 0..2,
             iDhcp_Wire : 0..1, iDhcp_Wireless : 0..1,
             iConnect_Format : 0..1, iAction_Flag : 0..1]

Zero == [iStatus_Wire |-> 0, iStatus_Wireless |-> 0, iDhcp_Wire |-> 0,
         iDhcp_Wireless |-> 0, iConnect_Format |-> 0, iAction_Flag |-> 0]

\* Where main goes on after the read of a helper's pipe.
AfterProbe == [scan |-> "links",
               wire_status |-> "wire_gateway", wire_gateway |-> "wifi_up",
               wifi_status |-> "wifi_gateway", wifi_gateway |-> "save"]

Places == {"top", "wire", "wifi", "scan", "links", "fifo", "wire_up", "wire_status",
           "wire_gateway", "wifi_up", "wifi_tell", "wifi_status", "wifi_gateway",
           "save", "write"}

(***************************************************************************)
(* A daemon: its place in main, gNetInfo and iConnect_flag, the            *)
(* descriptors left to it (0, 1, or more), and what descriptor 1 is: free, *)
(* the pipe that its parent reads, or anything else.  While it waits in    *)
(* the read of a helper's pipe, pc is the place after it and child the     *)
(* helper.  It holds the write ends of its parent's pipe and of those its  *)
(* parent held.  wiped is an observation: Get_Net_Status has cleared       *)
(* gNetInfo in this turn.                                                  *)
(***************************************************************************)
Process == [pc : Places \cup {"gone"}, net : N_Info_t, flag : 0..1, left : 0..2,
            out : {"closed", "pipe", "taken"}, child : Daemons \cup {NoOne},
            holds : SUBSET Daemons, wiped : BOOLEAN]

Gone == [pc |-> "gone", net |-> Zero, flag |-> 0, left |-> 0, out |-> "closed",
         child |-> NoOne, holds |-> {}, wiped |-> FALSE]

ASSUME NetAssumption ==
  /\ Bounds \subseteq [hangs : Nat, turns : Nat, calls : Nat]
  /\ Daemons # {} /\ Daemons \cap Clients = {} /\ NoOne \notin Daemons
  /\ Empty \notin N_Info_t /\ Rubbish \subseteq N_Info_t

\* main begins with SaveNetInfo; init_daemon has closed descriptor 1.
Begun == [Gone EXCEPT !.pc = "save", !.left = 2]

NetInit ==
  /\ file = Empty /\ last = Empty /\ seen = {} /\ cut = FALSE
  /\ st = [d \in Daemons |-> IF d = CHOOSE e \in Daemons : TRUE THEN Begun ELSE Gone]
  /\ heard = {} /\ told = FALSE /\ resumed = FALSE
  /\ budget \in Bounds
  /\ cpc = [c \in Clients |-> "idle"] /\ rec = [c \in Clients |-> Zero]

-----------------------------------------------------------------------------

\* What the buffer of ReadNetInfo holds afterwards, if it held `before`: one
\* of a set, because `before` may be rubbish.
ReadNetInfo(before) == IF file = Empty THEN before ELSE {file}

\* A daemon cannot open the file once its descriptors are used up.
DaemonReads(d, before) == IF st[d].left = 0 THEN before ELSE ReadNetInfo(before)

Sees(who) == seen' = IF file = Empty THEN seen \ {who} ELSE seen \cup {who}

Waits(d) == st[d].child # NoOne

At(d, place) == st[d].pc = place /\ ~Waits(d)

Becomes(d, x) == st' = [st EXCEPT ![d] = x]

Goto(d, next) == Becomes(d, [st[d] EXCEPT !.pc = next])

\* A process after a call that leaves one descriptor open, or two: open takes
\* descriptor 1 if it is free.
Opened(x) ==
  {[x EXCEPT !.left = n, !.out = IF @ = "closed" THEN "taken" ELSE @] :
     n \in IF x.left = 2 THEN {1, 2} ELSE {0}}

OpenedTwo(x) == UNION {Opened(y) : y \in Opened(x)}

\* A daemon returns from main, or is killed.
Exits(d) == Becomes(d, Gone) /\ seen' = seen \ {d}

UnchangedShared == UNCHANGED <<file, last, cut, budget, clientVars>>

UnchangedTold == UNCHANGED <<told, resumed>>

UnchangedOthers == UnchangedShared /\ UnchangedTold /\ UNCHANGED <<heard, seen>>

\* A command prints something, or nothing: a helper's output reaches the
\* parent's pipe.
Prints(d) ==
  \/ UNCHANGED heard
  \/ heard' = heard \cup {p \in Daemons : st[p].child = d /\ st[d].out = "pipe"}

(***************************************************************************)
(* A turn of the loop begins: gNetInfo is cleared and read.                *)
(***************************************************************************)
\* Variants with a bug: gNetInfo is cleared and not read; an empty file is
\* taken for a record.
AtTop_NotRead(d) == {Zero}
AtTop_Empty(d) == {file}

AtTop(d) == DaemonReads(d, {Zero})

\* No other daemon runs.
Alone(d) == \A e \in Daemons \ {d} : st[e].pc = "gone" \/ Waits(e)

read_net_info(d) ==
  /\ At(d, "top")
  /\ IF Alone(d) THEN UNCHANGED budget
     ELSE budget.turns > 0 /\ budget' = [budget EXCEPT !.turns = @ - 1]
  /\ \E r \in AtTop(d) :
       Becomes(d, [st[d] EXCEPT !.pc = "wire", !.net = r, !.wiped = FALSE])
  /\ IF st[d].left = 0 THEN seen' = seen \ {d} ELSE Sees(d)
  /\ UnchangedTold /\ UNCHANGED <<file, last, cut, clientVars, heard>>

(***************************************************************************)
(* Get_Net_Status, for the wire and for wifi.  The network answers anew at *)
(* each turn.  NetInfo_Tmp is not initialised.                             *)
(***************************************************************************)
Tmp(d) == DaemonReads(d, Rubbish)

\* Variant with a bug: the status is set in the wrong field.
WireUp_Lease(n) == [n EXCEPT !.iDhcp_Wire = 1]

WireUp(n) == [n EXCEPT !.iStatus_Wire = 1]

\* Wifi is down: the whole of gNetInfo is cleared, the wire's status as well.
\* Variant with a bug: only the status of wifi is.
WifiLost_Status(n) == [n EXCEPT !.iStatus_Wireless = 0]

WifiLost(n) == Zero

no_wire(d) ==
  /\ At(d, "wire") /\ Goto(d, "wifi")
  /\ \E tmp \in Tmp(d) : tmp.iDhcp_Wire # 1
  /\ UnchangedOthers

wire_answers(d) ==
  /\ At(d, "wire")
  /\ \E tmp \in Tmp(d) : tmp.iDhcp_Wire = 1
  /\ Becomes(d, [st[d] EXCEPT !.pc = "wifi", !.net = WireUp(@)])
  /\ Prints(d) /\ UnchangedShared /\ UnchangedTold /\ UNCHANGED seen

wire_silent(d) ==
  /\ At(d, "wire")
  /\ \E tmp \in Tmp(d) : tmp.iDhcp_Wire = 1
  /\ Becomes(d, [st[d] EXCEPT !.pc = "wifi", !.net = Zero, !.wiped = TRUE])
  /\ Prints(d) /\ UnchangedShared /\ UnchangedTold /\ UNCHANGED seen

wifi_unknown(d) ==
  /\ At(d, "wifi") /\ st[d].left = 0
  /\ Becomes(d, [st[d] EXCEPT !.pc = "scan", !.net.iStatus_Wireless = 0])
  /\ UnchangedOthers

\* The file is closed only if the link is neither up with a lease nor down.
wifi_connected(d) ==
  /\ At(d, "wifi") /\ st[d].left > 0
  /\ \E tmp \in Tmp(d) : tmp.iDhcp_Wireless = 1
  /\ \E x \in Opened(st[d]) :
       Becomes(d, [x EXCEPT !.pc = "scan", !.net.iStatus_Wireless = 1])
  /\ UnchangedOthers

wifi_disconnected(d) ==
  /\ At(d, "wifi") /\ st[d].left > 0
  /\ \E x \in Opened(st[d]) :
       Becomes(d, [x EXCEPT !.pc = "scan", !.net = WifiLost(@), !.wiped = TRUE])
  /\ UnchangedOthers

wifi_other(d) ==
  /\ At(d, "wifi") /\ st[d].left > 0 /\ Goto(d, "scan")
  /\ UnchangedOthers

Get_Net_Status(d) ==
  \/ no_wire(d) \/ wire_answers(d) \/ wire_silent(d)
  \/ wifi_unknown(d) \/ wifi_connected(d) \/ wifi_disconnected(d) \/ wifi_other(d)

-----------------------------------------------------------------------------

(***************************************************************************)
(* The player is told, by the process id in a file; the first syslog opens *)
(* a socket as well.  If the file cannot be opened, main returns.          *)
(***************************************************************************)
\* Variant with a bug: the flag is set and the player not told.
Told_Never(up) == told

Told(up) == up

Tell(d, up, next) ==
  \/ /\ st[d].left > 0
     /\ \E x \in Opened(st[d]) \cup OpenedTwo(st[d]) :
          Becomes(d, [x EXCEPT !.pc = next, !.flag = IF up THEN 1 ELSE 0])
     /\ told' = Told(up) /\ UNCHANGED seen
  \/ Exits(d) /\ UNCHANGED told

Keep(d, next) == Goto(d, next) /\ UNCHANGED <<told, seen>>

\* Variant with a bug: the wire alone counts.
LinkDown_Wire(n) == n.iStatus_Wire = 0

LinkDown(n) == n.iStatus_Wire = 0 /\ n.iStatus_Wireless = 0

link_down(d) ==
  /\ At(d, "links") /\ LinkDown(st[d].net)
  /\ IF st[d].flag = 1 THEN Tell(d, FALSE, "fifo") ELSE Keep(d, "fifo")
  /\ UnchangedShared /\ UNCHANGED <<heard, resumed>>

no_link_down(d) ==
  /\ At(d, "links") /\ ~LinkDown(st[d].net)
  /\ Goto(d, "wire_up") /\ UnchangedOthers

\* There is no fifo, or no descriptor for it: the loop starts again, without
\* a pause and without saving.
no_fifo(d) == At(d, "fifo") /\ Goto(d, "top") /\ UnchangedOthers

\* What a command of the fifo does to gNetInfo.  A read that fails counts as a
\* command as well, whose code is rubbish.  ConnectWifi may run off its end
\* without a value, so what it returns says nothing about the lease.
Commanded(n) ==
  {n} \cup {[n EXCEPT !.iDhcp_Wire = ok] : ok \in 0..1}        \* ConnectInternet
      \cup {[n EXCEPT !.iDhcp_Wireless = ok] : ok \in 0..1}    \* ConnectWifi

\* One command of the fifo, or none.  Without a password ConnectWifi is called
\* with NULL, which it follows.
fifo_command(d) ==
  /\ At(d, "fifo") /\ st[d].left > 0
  /\ \/ /\ \E x \in Opened(st[d]) \cup OpenedTwo(st[d]), n \in Commanded(st[d].net) :
             Becomes(d, [x EXCEPT !.pc = "save", !.net = n])
        /\ UNCHANGED seen
     \/ Exits(d)
  /\ Prints(d) /\ UnchangedShared /\ UnchangedTold

wire_up(d) ==
  /\ At(d, "wire_up")
  /\ IF st[d].net.iStatus_Wire = 1
     THEN IF st[d].flag = 0 THEN Tell(d, TRUE, "wire_status") ELSE Keep(d, "wire_status")
     ELSE Keep(d, "wifi_up")
  /\ UnchangedShared /\ UNCHANGED <<heard, resumed>>

\* GetLinkSSID, which leaves its file open, or finds no descriptor for it.
wifi_up(d) ==
  /\ At(d, "wifi_up")
  /\ IF st[d].net.iStatus_Wireless # 1
     THEN Goto(d, "save")
     ELSE IF st[d].left = 0
     THEN Becomes(d, [st[d] EXCEPT !.pc = "wifi_tell", !.net.iStatus_Wireless = 0])
     ELSE \E x \in Opened(st[d]) : Becomes(d, [x EXCEPT !.pc = "wifi_tell"])
  /\ UnchangedOthers

wifi_tell(d) ==
  /\ At(d, "wifi_tell")
  /\ IF st[d].flag = 0 THEN Tell(d, TRUE, "wifi_status") ELSE Keep(d, "wifi_status")
  /\ UnchangedShared /\ UNCHANGED <<heard, resumed>>

-----------------------------------------------------------------------------

(***************************************************************************)
(* The helpers.  pipe needs two descriptors.  The helper closes its        *)
(* descriptor 1, duplicates the write end there and closes the read end.   *)
(* If descriptor 1 was free, pipe has made it the read end: the helper is  *)
(* left without standard output and prints nothing at all.                 *)
(***************************************************************************)
AtProbe(d) == st[d].pc \in DOMAIN AfterProbe /\ ~Waits(d)

AfterRead(d) == AfterProbe[st[d].pc]

\* The helper when its sleep is over: where its parent would be, with the
\* parent's variables.
Helpers(d) ==
  {[st[d] EXCEPT !.pc = AfterRead(d), !.left = n, !.holds = @ \cup {d},
                 !.out = IF @ = "closed" THEN @ ELSE "pipe"] : n \in {1, 2}}

\* GetNetStatus calls GetDNSStr after an output, which leaves a file open.
StatusRead == {"wire_gateway", "wifi_gateway"}

\* Ids: a process that has ended keeps its own until its parent has waited.
Free == {h \in Daemons : st[h].pc = "gone" /\ \A p \in Daemons : st[p].child # h}

Followed == budget.hangs > 0 /\ Free # {}

no_pipe(d) ==
  /\ AtProbe(d) /\ st[d].left < 2 /\ Goto(d, AfterRead(d))
  /\ UnchangedOthers

\* The helper prints at once and is killed in its sleep.
helper_prints(d) ==
  /\ AtProbe(d) /\ st[d].left = 2 /\ st[d].out # "closed"
  /\ \E x \in IF AfterRead(d) \in StatusRead THEN OpenedTwo(st[d]) ELSE Opened(st[d]) :
       Becomes(d, [x EXCEPT !.pc = AfterRead(d)])
  /\ UnchangedOthers

\* It prints nothing: the daemon waits and the helper goes on.
helper_goes_on(d) ==
  /\ AtProbe(d) /\ st[d].left = 2
  /\ Followed /\ budget' = [budget EXCEPT !.hangs = @ - 1]
  /\ \E h \in Free, y \in Helpers(d), x \in Opened(st[d]) :
       /\ st' = [st EXCEPT ![h] = y, ![d] = [x EXCEPT !.pc = AfterRead(d), !.child = h]]
       /\ seen' = IF d \in seen THEN seen \cup {h} ELSE seen
  /\ UnchangedTold /\ UNCHANGED <<file, last, cut, clientVars, heard>>

\* The same where the bounds do not let the parent be followed: the helper
\* takes its place.
helper_replaces(d) ==
  /\ AtProbe(d) /\ st[d].left = 2 /\ st[d].out = "closed" /\ ~Followed
  /\ \E y \in Helpers(d) : Becomes(d, [y EXCEPT !.holds = st[d].holds])
  /\ UnchangedOthers

probe(d) ==
  no_pipe(d) \/ helper_prints(d) \/ helper_goes_on(d) \/ helper_replaces(d)

(***************************************************************************)
(* A daemon that waits goes on: with the first output of the daemon its    *)
(* helper has become, which it then kills wherever that may be, or when    *)
(* nobody holds the write end any more.                                    *)
(***************************************************************************)
\* What a kill leaves: nothing, or the helper that the killed daemon had just
\* forked.
Killed(c) ==
  {Gone} \cup IF AtProbe(c) /\ st[c].left = 2
              THEN {[y EXCEPT !.holds = st[c].holds] : y \in Helpers(c)} ELSE {}

output_comes(p) ==
  /\ p \in heard /\ Waits(p)
  /\ LET c == st[p].child IN
     /\ \E x \in IF st[p].pc \in StatusRead THEN Opened(st[p]) ELSE {st[p]}, y \in Killed(c) :
          /\ st' = [d \in Daemons |->
                      LET z == IF d = p THEN [x EXCEPT !.child = NoOne]
                               ELSE IF d = c THEN y ELSE st[d]
                      IN  [z EXCEPT !.holds = @ \ {p, c}]]
          /\ seen' = IF y = Gone THEN seen \ {c} ELSE seen
     /\ heard' = heard \ {p, c}
     /\ cut' = (cut \/ st[c].pc = "write")
  /\ resumed' = TRUE
  /\ UNCHANGED <<file, last, budget, told, clientVars>>

pipe_ends(p) ==
  /\ Waits(p) /\ p \notin heard /\ \A d \in Daemons : p \notin st[d].holds
  /\ Becomes(p, [st[p] EXCEPT !.child = NoOne])
  /\ resumed' = TRUE
  /\ UnchangedShared /\ UNCHANGED <<heard, seen, told>>

resume(p) == output_comes(p) \/ pipe_ends(p)

(***************************************************************************)
(* SaveNetInfo, and the end of the turn.                                   *)
(***************************************************************************)
save_open(d) ==
  /\ At(d, "save")
  /\ IF st[d].left = 0 THEN Goto(d, "top") /\ UNCHANGED file
                       ELSE Goto(d, "write") /\ file' = Empty
  /\ UnchangedTold /\ UNCHANGED <<last, cut, seen, budget, heard, clientVars>>

\* Variant with a bug: the record is not written before the file is closed.
Written_Not(r) == Empty

Written(r) == r

save_write(d) ==
  /\ At(d, "write")
  /\ Becomes(d, [st[d] EXCEPT !.pc = "top", !.wiped = FALSE])
  /\ file' = Written(st[d].net) /\ last' = st[d].net /\ seen' = {} /\ cut' = FALSE
  /\ UnchangedTold /\ UNCHANGED <<budget, heard, clientVars>>

daemon(d) ==
  \/ read_net_info(d) \/ Get_Net_Status(d)
  \/ link_down(d) \/ no_link_down(d) \/ no_fifo(d) \/ fifo_command(d)
  \/ wire_up(d) \/ wifi_up(d) \/ wifi_tell(d) \/ probe(d) \/ resume(d)
  \/ save_open(d) \/ save_write(d)

-----------------------------------------------------------------------------

(***************************************************************************)
(* A client: ConnectInternetDaemon, ConnectWifiDaemon and                  *)
(* ConnectWifiAutoiDaemon set a request; Clear_Connect_Flag takes the      *)
(* answer back.  Their buffers are not initialised; that of main_test is.  *)
(***************************************************************************)
ClientReads == ReadNetInfo(Rubbish)

client_read(c) ==
  /\ cpc[c] = "idle" /\ cpc' = [cpc EXCEPT ![c] = "save"]
  /\ \E r \in ClientReads :
       \/ rec' = [rec EXCEPT ![c] = [r EXCEPT !.iConnect_Format = 1]]
       \/ rec' = [rec EXCEPT ![c] = [r EXCEPT !.iAction_Flag = 0]]
  /\ Sees(c)
  /\ budget.calls > 0 /\ budget' = [budget EXCEPT !.calls = @ - 1]
  /\ UNCHANGED <<file, last, cut, daemonVars>>

client_save_open(c) ==
  /\ cpc[c] = "save" /\ cpc' = [cpc EXCEPT ![c] = "write"]
  /\ file' = Empty
  /\ UNCHANGED <<rec, last, cut, seen, budget, daemonVars>>

client_save_write(c) ==
  /\ cpc[c] = "write" /\ cpc' = [cpc EXCEPT ![c] = "idle"]
  /\ file' = Written(rec[c]) /\ last' = rec[c] /\ seen' = {} /\ cut' = FALSE
  /\ rec' = [rec EXCEPT ![c] = Zero]
  /\ UNCHANGED <<budget, daemonVars>>

client_saves(c) == client_save_open(c) \/ client_save_write(c)

\* The bounds do not let the daemon begin another turn.
Unfollowed(d) == At(d, "top") /\ ~Alone(d) /\ budget.turns = 0

\* Every daemon has ended or is not followed any more, and the clients have
\* had their calls.
Ended ==
  /\ \A d \in Daemons : \/ st[d].pc = "gone" \/ Unfollowed(d)
                        \/ Waits(d) /\ \E e \in Daemons : Unfollowed(e)
  /\ budget.calls = 0 /\ \A c \in Clients : cpc[c] = "idle"
  /\ UNCHANGED netVars

NetNext ==
  \/ \E d \in Daemons : daemon(d)
  \/ \E c \in Clients : client_read(c) \/ client_saves(c)
  \/ Ended

NetSpec == NetInit /\ [][NetNext]_netVars

\* The processes get the processor; nothing is assumed of the network, and a
\* client need not begin another call.
NetFairSpec ==
  /\ NetSpec
  /\ \A d \in Daemons : WF_netVars(daemon(d))
  /\ \A c \in Clients : WF_netVars(client_saves(c))

-----------------------------------------------------------------------------

\* Every variable keeps its type.
NetTypeOK ==
  /\ file \in N_Info_t \cup {Empty} /\ last \in N_Info_t \cup {Empty}
  /\ seen \subseteq Clients \cup Daemons
  /\ st \in [Daemons -> Process] /\ heard \subseteq Daemons
  /\ told \in BOOLEAN /\ resumed \in BOOLEAN /\ cut \in BOOLEAN
  /\ cpc \in [Clients -> {"idle", "save", "write"}] /\ rec \in [Clients -> N_Info_t]
  /\ budget \in [hangs : Nat, turns : Nat, calls : Nat]

\* Once there is a record, the file is empty only while somebody is between
\* the fopen and the fclose of SaveNetInfo, or after a daemon was killed there
\* by its parent and until the next write: no other order of daemons, helpers
\* that have become daemons, and clients leaves it empty behind (daemon.c 835
\* to 847 and 280, 356, 506; wifi_interface.c 1001 to 1013).
EmptyOnlyWhileSaving ==
  (file = Empty /\ last # Empty) =>
     \/ cut
     \/ \E d \in Daemons : At(d, "write")
     \/ \E c \in Clients : cpc[c] = "write"

\* The shared file always holds a whole record of the right type, or is empty
\* because a writer is inside SaveNetInfo at this moment or was killed there
\* (daemon.c 835 to 847, wifi_interface.c 1001 to 1013).
NetStateOK ==
  /\ NetTypeOK
  /\ EmptyOnlyWhileSaving

\* What a daemon writes into the file agrees with what it last decided to
\* tell: a record without a link is written with iConnect_flag 0, one with a
\* link with iConnect_flag 1 - also while the descriptors run out, when the
\* status of wifi is taken back after the test of the flag, in a helper that
\* has become a daemon, and in a daemon that waited for one (daemon.c 899 to
\* 1104).
AnnouncedIsSaved ==
  \A d \in Daemons : At(d, "write") =>
    LET n == st[d].net IN
    /\ n.iStatus_Wire = 0 /\ n.iStatus_Wireless = 0 => st[d].flag = 0
    /\ n.iStatus_Wire = 1 \/ n.iStatus_Wireless = 1 => st[d].flag = 1

\* As long as no daemon has come back from the wait for a helper, the player
\* knows what the daemon believes at the end of each turn, whoever is the
\* daemon by then: one signal for each change, none twice and none forgotten
\* (daemon.c 901, 1035, 1067).
PlayerAgrees ==
  \A d \in Daemons : At(d, "write") /\ ~resumed => (told <=> st[d].flag = 1)

\* At the end of each turn what a daemon writes, what its flag says and what
\* the player was told are one and the same (daemon.c 899 to 1104).
PlayerIsTold ==
  /\ AnnouncedIsSaved
  /\ PlayerAgrees

\* A change somebody else made is lost only by a writer whose copy is older
\* than the last record, or that was cleared by Get_Net_Status: a client that
\* has read the last record keeps the state of the links, and a daemon that
\* has keeps the requests, also a daemon that was a helper or waited for one
\* (daemon.c 872, 750, 808; wifi_interface.c 1015).
LostOnlyByOverlap ==
  [][ /\ \A d \in Daemons : (save_write(d) /\ d \in seen /\ ~st[d].wiped) =>
           /\ file'.iConnect_Format = last.iConnect_Format
           /\ file'.iAction_Flag = last.iAction_Flag
      /\ \A c \in Clients : (client_save_write(c) /\ c \in seen) =>
           /\ file'.iStatus_Wire = last.iStatus_Wire
           /\ file'.iStatus_Wireless = last.iStatus_Wireless
           /\ file'.iDhcp_Wire = last.iDhcp_Wire
           /\ file'.iDhcp_Wireless = last.iDhcp_Wireless ]_netVars

\* A daemon that cannot open a file any more, waits for a helper, or is gone.
OutOfService(d) == st[d].left = 0 \/ Waits(d)

\* If from some turn on Get_Net_Status always finds wifi disconnected, each
\* daemon comes to say that there is no connection, whatever clients and other
\* daemons write into the file, unless it is out of service (daemon.c 803 to
\* 809).
DownIsAnnounced ==
  <>[][\A d \in Daemons : ~wifi_connected(d) /\ ~wifi_other(d)]_netVars
  => \A d \in Daemons : []<>(st[d].flag = 0 \/ OutOfService(d) \/ Unfollowed(d))

\* At most one daemon runs, and no other process is inside SaveNetInfo or was
\* killed there.
Settled ==
  /\ \E d \in Daemons : Alone(d)
  /\ ~cut /\ \A c \in Clients : cpc[c] = "idle"

\* A wire with a lease that answers is announced, once nobody else writes the
\* file and wifi is not found disconnected, unless the daemon is out of service
\* (daemon.c 739 to 746, 1033 to 1058).
UpIsAnnounced ==
  /\ <>[][\A d \in Daemons : ~wire_silent(d) /\ ~wifi_disconnected(d)]_netVars
  /\ <>[](last # Empty /\ last.iDhcp_Wire = 1 /\ Settled)
  => \A d \in Daemons : []<>(st[d].flag = 1 \/ OutOfService(d))

\* A link that stays as it is comes to be announced: one that stays down as
\* down, and a wire that stays up as up (daemon.c 739 to 809, 899 to 1058).
LinkIsAnnounced ==
  /\ DownIsAnnounced
  /\ UpIsAnnounced

\* A client that has asked for a connection is answered while a daemon runs:
\* wifi_interface.h says of iAction_Flag "0 mean begin 1 mean end", and
\* main_test.c (line 126) waits for the 1 in a loop without an end.
RequestIsAnswered ==
  (file # Empty /\ file.iConnect_Format = 1)
    ~> \/ \A d \in Daemons : OutOfService(d) \/ Unfollowed(d)
       \/ file # Empty /\ file.iAction_Flag = 1
=============================================================================
