------------------------------- MODULE Remote -------------------------------
(***************************************************************************)
(* remote.c and server.c on top of the event loop: main opens the          *)
(* connection, runs the loop and opens again when it returns; the handlers *)
(* are handle_accept_event and handle_serial_event, and the only callback  *)
(* is process_remaining, which readchar schedules while characters are     *)
(* left in its buffer.                                                     *)
(*                                                                         *)
(* The code that would call readchar is a stub in this repository          *)
(* (process_serial_event, server.c:34).  The model has the most general    *)
(* one: each call reads at least one character, and a caller that got an   *)
(* error or wants to end calls remote_close and returns -1.                *)
(***************************************************************************)
EXTENDS EventLoop

CONSTANTS
  Names,            \* what the command line may name: "stdio", "device", "port"
  ListenFd, ConnFd, \* the descriptors socket and accept (or open) return
  BufSize,          \* BUFSIZ
  CloseOnError,     \* does the caller of readchar close after an error?
  MaxConn, MaxBytes \* bounds: connections, characters sent on each

NOT_SCHEDULED == -1
INVALID_DESCRIPTOR == -1

ASSUME RemoteAssumption ==
  /\ Names \subseteq {"stdio", "device", "port"}
  /\ {ListenFd, ConnFd} \subseteq Fd /\ ListenFd # ConnFd
  /\ Proc = {"accept", "serial"}
  /\ BufSize \in Nat \ {0} /\ MaxConn \in Nat \ {0} /\ MaxBytes \in Nat
  /\ CloseOnError \in BOOLEAN

VARIABLES
  port,             \* the name main was started with
  remote_desc,
  readchar_callback,
  readchar_bufcnt, readchar_buf, readchar_bufp,
  serial,           \* where handle_serial_event (or the accept handler) is
  backlog,          \* connections that wait for accept
  conn,             \* the number of the connection
  peer,             \* the other side: "none", "open" or "closed"
  sent, taken,      \* characters sent on conn, and read from the kernel
  start,            \* ... and taken when this session was opened
  chars,            \* observation: what readchar returned in this session
  aborted           \* the process died of undefined behaviour

readVars   == <<readchar_bufcnt, readchar_buf, readchar_bufp>>
netVars    == <<backlog, conn, peer, sent>>
remoteVars == <<port, remote_desc, readchar_callback, readVars, serial, netVars,
                taken, start, chars, aborted>>
serverVars == <<loopVars, remoteVars>>

RemoteInit ==
  /\ LoopInit
  /\ proc = [fd \in Fd |-> "serial"]
  /\ port \in Names
  /\ remote_desc = INVALID_DESCRIPTOR
  /\ readchar_callback = NOT_SCHEDULED
  /\ readchar_bufcnt = 0 /\ readchar_bufp = NULL
  /\ readchar_buf = [i \in 1 .. BufSize |-> NULL]
  /\ serial = "idle"
  /\ backlog = 0
  /\ conn = IF port = "port" THEN 0 ELSE 1
  /\ peer = IF port = "port" THEN "none" ELSE "open"
  /\ sent = 0 /\ taken = 0 /\ start = 0
  /\ chars = <<>>
  /\ aborted = FALSE

-----------------------------------------------------------------------------

(***************************************************************************)
(* add_file_handler(-1): FD_SET(-1) is undefined.  A fortified build       *)
(* aborts; another one sets a bit select never reports, and num_fds stays, *)
(* so that the loop goes on as if nothing was registered.                  *)
(***************************************************************************)
add_invalid_descriptor ==
  /\ aborted' \in BOOLEAN
  /\ UNCHANGED <<handlerVars, fresh>>

opened(fd) ==
  /\ remote_desc' = fd
  /\ add_file_handler(fd, "serial")
  /\ start' = taken /\ chars' = <<>>
  /\ UNCHANGED aborted

remote_open ==
  CASE port = "stdio" -> opened(ConnFd)
    [] port = "device" ->
         \/ opened(ConnFd)
         \/ /\ remote_desc' = INVALID_DESCRIPTOR
            /\ add_invalid_descriptor
            /\ UNCHANGED <<start, chars>>
    [] port = "port" ->
         /\ add_file_handler(ListenFd, "accept")
         /\ UNCHANGED <<remote_desc, start, chars, aborted>>

(* The loop of main: open, then serve until start_event_loop returns.      *)
main_opens ==
  /\ pc = "outside" /\ serial = "idle"
  /\ remote_open
  /\ serial' = "opened"
  /\ UNCHANGED <<pc, event_queue, scanVars, call, callbackVars, readchar_callback,
                 readVars, netVars, taken>>

main_serves ==
  /\ start_event_loop /\ serial = "opened"
  /\ serial' = "idle"
  /\ UNCHANGED <<remote_desc, readchar_callback, readVars, netVars, taken,
                 start, chars, aborted>>

-----------------------------------------------------------------------------

(***************************************************************************)
(* The steps of the loop.  select reports what can be read: a connection   *)
(* that waits, characters, or the end of the stream.                       *)
(***************************************************************************)
Readable(fd) ==
  \/ fd = ListenFd /\ backlog > 0
  \/ fd = ConnFd /\ (sent > taken \/ peer = "closed")

select_readable ==
  /\ select
  /\ ready_masks'["exception"] = {}
  /\ ready_masks'["readable"] = {fd \in check_masks["readable"] : Readable(fd)}
  /\ UNCHANGED remoteVars

plain_step ==
  /\ \/ process_event_none \/ no_callback \/ no_sources \/ select_fails
     \/ scan_handler \/ scan_ends
  /\ UNCHANGED remoteVars

call_handler ==
  /\ handle_file_event
  /\ serial' = IF pc' # "handler" THEN serial
               ELSE IF proc[call'.fd] = "accept" THEN "accepting" ELSE "called"
  /\ UNCHANGED <<remote_desc, readchar_callback, readVars, netVars, taken,
                 start, chars, aborted>>

(* process_remaining: it is no longer scheduled when handle_serial_event   *)
(* runs, and does nothing when the buffer has been emptied meanwhile.      *)
\* Variant with a bug: the one-shot event is not marked as done.
AfterOneShot_Kept == readchar_callback

AfterOneShot == NOT_SCHEDULED

process_remaining ==
  /\ run_callback
  /\ readchar_callback' = AfterOneShot
  /\ serial' = IF readchar_bufcnt > 0 THEN "called" ELSE "nothing"
  /\ UNCHANGED <<remote_desc, readVars, netVars, taken, start, chars, aborted>>

RemoteLoopStep ==
  plain_step \/ select_readable \/ call_handler \/ process_remaining

-----------------------------------------------------------------------------

(***************************************************************************)
(* handle_accept_event: accept, delete_file_handler(listen_desc), then     *)
(* add_file_handler(remote_desc), which may be -1.                         *)
(***************************************************************************)
\* Variant with a bug: the listening socket stays registered.
StopListening_Forgotten == UNCHANGED <<handlerVars, fresh>>

StopListening == delete_file_handler(ListenFd)

accept ==
  /\ serial = "accepting" /\ backlog > 0
  /\ StopListening
  /\ \/ /\ remote_desc' = ConnFd
        /\ backlog' = backlog - 1
        /\ conn' = conn + 1 /\ peer' = "open"
        /\ sent' = 0 /\ taken' = 0 /\ start' = 0 /\ chars' = <<>>
     \/ /\ remote_desc' = INVALID_DESCRIPTOR
        /\ UNCHANGED <<netVars, taken, start, chars>>
  /\ serial' = "accepted"
  /\ UNCHANGED <<pc, event_queue, scanVars, call, callbackVars,
                 readchar_callback, readVars, aborted>>

accept_registers ==
  /\ serial = "accepted"
  /\ IF remote_desc = INVALID_DESCRIPTOR
     THEN add_invalid_descriptor
     ELSE add_file_handler(remote_desc, "serial") /\ UNCHANGED aborted
  /\ serial' = "done"
  /\ UNCHANGED <<pc, event_queue, scanVars, call, callbackVars, remote_desc,
                 readchar_callback, readVars, netVars, taken, start, chars>>

-----------------------------------------------------------------------------

(***************************************************************************)
(* readchar.  An empty buffer is filled by read, which may return less     *)
(* than it was asked for, blocks when there is nothing to read, and may    *)
(* fail.  A result <= 0 stays in readchar_bufcnt.                          *)
(***************************************************************************)
Reading == serial \in {"called", "reading"}

ReadCounts ==
  {n \in 1 .. BufSize : n <= sent - taken}

readchar_fails ==
  /\ Reading /\ readchar_bufcnt = 0
  /\ \/ sent = taken /\ peer = "closed" /\ readchar_bufcnt' = 0
     \/ readchar_bufcnt' = -1
  /\ serial' = IF CloseOnError THEN "failed" ELSE "reading"
  /\ UNCHANGED <<loopVars, remote_desc, readchar_callback, readchar_buf,
                 readchar_bufp, netVars, taken, start, chars, aborted>>

\* Variant with a bug: what is left in the buffer is not scheduled.
reschedule_Never(left) == UNCHANGED <<callbackVars, readchar_callback>>

\* Variant with a bug: a callback is appended although one is scheduled.
reschedule_Always(left) ==
  IF left > 0
  THEN append_callback_event /\ readchar_callback' = num_callbacks
  ELSE UNCHANGED <<callbackVars, readchar_callback>>

reschedule(left) ==
  IF left > 0 /\ readchar_callback = NOT_SCHEDULED
  THEN /\ append_callback_event
       /\ readchar_callback' = num_callbacks
  ELSE UNCHANGED <<callbackVars, readchar_callback>>

(* The character at position i of the buffer is returned, and left remain. *)
take_char(i, left) ==
  /\ chars' = Append(chars, IF i \in 1 .. BufSize THEN readchar_buf'[i] ELSE NULL)
  /\ readchar_bufp' = i + 1
  /\ readchar_bufcnt' = left
  /\ reschedule(left)

readchar_refills ==
  /\ Reading /\ readchar_bufcnt = 0
  /\ \E n \in ReadCounts :
       /\ readchar_buf' = [i \in 1 .. BufSize |-> IF i <= n THEN <<conn, taken + i>>
                                                  ELSE readchar_buf[i]]
       /\ taken' = taken + n
       /\ take_char(1, n - 1)
  /\ serial' = "reading"
  /\ UNCHANGED <<pc, handlerVars, event_queue, scanVars, call, fresh,
                 remote_desc, netVars, start, aborted>>

(* A count that is not 0 is taken for a number of characters.  The last    *)
(* conjunct is a bound of the model.                                       *)
readchar_buffered ==
  /\ Reading /\ readchar_bufcnt # 0 /\ readchar_bufcnt > -3
  /\ UNCHANGED <<readchar_buf, taken>>
  /\ IF readchar_bufp = NULL
     THEN /\ aborted' = TRUE
          /\ UNCHANGED <<readchar_bufp, readchar_bufcnt, readchar_callback,
                         chars, callbackVars>>
     ELSE /\ take_char(readchar_bufp, readchar_bufcnt - 1)
          /\ UNCHANGED aborted
  /\ serial' = "reading"
  /\ UNCHANGED <<pc, handlerVars, event_queue, scanVars, call, fresh,
                 remote_desc, netVars, start>>

(***************************************************************************)
(* remote_close and reset_readchar.  The kernel forgets a socket; for a    *)
(* device it may keep or drop what was not read.                           *)
(***************************************************************************)
\* Variant with a bug: the characters of the old connection stay.
ResetCount_Kept == readchar_bufcnt

ResetCount == 0

reset_callback ==
  IF readchar_callback # NOT_SCHEDULED
  THEN delete_callback_event(readchar_callback) /\ readchar_callback' = NOT_SCHEDULED
  ELSE UNCHANGED <<callbackVars, readchar_callback>>

remote_close ==
  /\ serial \in {"called", "reading", "failed"}
  /\ delete_file_handler(remote_desc)
  /\ remote_desc' = INVALID_DESCRIPTOR
  /\ readchar_bufcnt' = ResetCount
  /\ reset_callback
  /\ peer' = IF port = "port" THEN "none" ELSE peer
  /\ taken' \in IF port = "device" THEN taken .. sent ELSE {taken}
  /\ serial' = "closed"
  /\ UNCHANGED <<pc, event_queue, scanVars, call, readchar_buf, readchar_bufp,
                 backlog, conn, sent, start, chars, aborted>>

(* The handler, or process_remaining, returns to the loop.                 *)
Result == IF serial = "closed" THEN -1 ELSE 0

proc_returns ==
  /\ serial \in {"reading", "closed", "nothing", "done"}
  /\ handler_returns(Result) \/ callback_returns(Result)
  /\ serial' = "idle"
  /\ UNCHANGED <<remote_desc, readchar_callback, readVars, netVars, taken,
                 start, chars, aborted>>

ProcStep ==
  \/ accept \/ accept_registers
  \/ readchar_fails \/ readchar_refills \/ readchar_buffered
  \/ remote_close \/ proc_returns

-----------------------------------------------------------------------------

(* The other side: it connects, sends characters and closes.               *)
peer_connects ==
  /\ port = "port" /\ conn + backlog < MaxConn
  /\ backlog' = backlog + 1
  /\ UNCHANGED <<conn, peer, sent>>

peer_sends ==
  /\ peer = "open" /\ sent < MaxBytes
  /\ sent' = sent + 1
  /\ UNCHANGED <<backlog, conn, peer>>

peer_closes ==
  /\ peer = "open"
  /\ peer' = "closed"
  /\ UNCHANGED <<backlog, conn, sent>>

PeerStep ==
  /\ peer_connects \/ peer_sends \/ peer_closes
  /\ UNCHANGED <<loopVars, port, remote_desc, readchar_callback, readVars, serial,
                 taken, start, chars, aborted>>

ServerStep ==
  /\ ~aborted
  /\ RemoteLoopStep \/ ProcStep \/ main_opens \/ main_serves
  /\ UNCHANGED port

Gone == aborted /\ UNCHANGED serverVars

RemoteNext == ServerStep \/ PeerStep \/ Gone

RemoteSpec == RemoteInit /\ [][RemoteNext]_serverVars

(***************************************************************************)
(* The one thread of the server runs whenever it can, and select is not    *)
(* interrupted by a signal each time there is something to read.           *)
(***************************************************************************)
RemoteFairSpec ==
  /\ RemoteSpec
  /\ WF_serverVars(ServerStep)
  /\ SF_serverVars(~aborted /\ select_readable)

-----------------------------------------------------------------------------

(* Every variable of the server keeps its type: the count of readchar      *)
(* stays below the size of its buffer, and its pointer inside it or just   *)
(* past its end (remote.c:344-350).                                        *)
RemoteTypeOK ==
  /\ LoopTypeOK
  /\ remote_desc \in Fd \cup {INVALID_DESCRIPTOR}
  /\ readchar_callback \in Ids \cup {NOT_SCHEDULED}
  /\ readchar_bufcnt \in -1 .. BufSize - 1
  /\ readchar_buf \in [1 .. BufSize -> ((1 .. MaxConn) \X (1 .. MaxBytes)) \cup {NULL}]
  /\ readchar_bufp \in (2 .. BufSize + 1) \cup {NULL}
  /\ serial \in {"idle", "accepting", "accepted", "done", "called", "reading",
                 "failed", "closed", "nothing", "opened"}
  /\ backlog \in 0 .. MaxConn /\ conn \in 0 .. MaxConn
  /\ peer \in {"none", "open", "closed"}
  /\ sent \in 0 .. MaxBytes /\ taken \in 0 .. sent /\ start \in 0 .. taken
  /\ aborted \in BOOLEAN

(* readchar returns the characters of this session, each once and in the   *)
(* order they were sent: nothing of an earlier connection, nothing stale   *)
(* (remote.c:352, "Returns next char from remote.  -1 if error.").         *)
NextCharFromRemote ==
  \A k \in 1 .. Len(chars) : chars[k] = <<conn, start + k>>

(* What was read from the kernel was returned or is in the buffer: none of *)
(* the three places that reset the buffer loses a character of a session.  *)
NoCharLost ==
  remote_desc # INVALID_DESCRIPTOR /\ readchar_bufcnt >= 0 =>
    start + Len(chars) + readchar_bufcnt = taken

(* The caller of readchar sees the stream of its session whole and in      *)
(* order: nothing stale, nothing of another connection, and what it has    *)
(* not seen yet is in the buffer (remote.c 354 to 387).                    *)
StreamIntact ==
  /\ NextCharFromRemote
  /\ NoCharLost

(* readchar_callback tells whether process_remaining is scheduled          *)
(* (remote.c:29, "Either NOT_SCHEDULED or the callback id.").              *)
CallbackStatus == live = {readchar_callback} \ {NOT_SCHEDULED}

(* The server never waits in select while characters are in the buffer,    *)
(* which select does not see.                                              *)
NoSleepOnBuffered == pc \in {"wait_for_event", "outside"} => readchar_bufcnt <= 0

(* The server listens or is connected, never both: a second connection     *)
(* would share the one buffer of readchar (remote.c:81-83).                *)
OneConnection == ~ {ListenFd, ConnFd} \subseteq Registered

(* What remote.c keeps agrees with what the event loop keeps for it: the   *)
(* scheduled callback, the characters nobody would look at while the loop  *)
(* sleeps, and the one registered descriptor.                              *)
RemoteStateOK ==
  /\ RemoteTypeOK
  /\ CallbackStatus
  /\ NoSleepOnBuffered
  /\ OneConnection

(* The server is a client of the event loop as EventLoop describes it, so  *)
(* that what is shown of LoopSpec holds for the server (event-loop.c).     *)
IsLoopClient == LoopInit /\ [][LoopNext]_loopVars

(* Every character that was sent is handed out by readchar, or its session *)
(* ends, or the process dies.                                              *)
EveryCharReturned ==
  \A c \in 1 .. MaxConn, k \in 1 .. MaxBytes :
    (conn = c /\ remote_desc = ConnFd /\ sent >= k) ~>
      (start + Len(chars) >= k \/ conn # c \/ remote_desc # ConnFd \/ aborted)

(* The server always comes back to a registered source: after a connection *)
(* ends it waits for a new one (remote.c:81-82, server.c:24-31), however   *)
(* the procs end and although accept may fail.                             *)
AlwaysServesAgain == port = "port" => []<>(Registered # {} \/ aborted)

(* The server neither sits on characters it has read nor stays without a   *)
(* source: it serves all of a session, and then the next (server.c 24-31,  *)
(* remote.c 398-420).                                                      *)
ServesEverySession == EveryCharReturned /\ AlwaysServesAgain

=============================================================================
