-------------------------- MODULE NetDaemonProofs --------------------------
(***************************************************************************)
(* What NetDaemon promises, for every number of clients and of daemons at  *)
(* a time, every content of an uninitialised buffer and every bound: the   *)
(* types, that no writer leaves the shared file empty behind unless it is  *)
(* killed in between, that what is saved agrees with what was announced,   *)
(* and that only a writer whose copy is out of date loses a change.        *)
(***************************************************************************)
EXTENDS NetDaemon, TLAPS

LEMMA ZeroIsRecord == Zero \in N_Info_t
BY DEF Zero, N_Info_t

LEMMA PlacesAre ==
  /\ Places = {"top", "wire", "wifi", "scan", "links", "fifo", "wire_up", "wire_status",
               "wire_gateway", "wifi_up", "wifi_tell", "wifi_status", "wifi_gateway",
               "save", "write"}
  /\ DOMAIN AfterProbe = {"scan", "wire_status", "wire_gateway", "wifi_status",
                          "wifi_gateway"}
  /\ AfterProbe["scan"] = "links"
  /\ AfterProbe["wire_status"] = "wire_gateway"
  /\ AfterProbe["wire_gateway"] = "wifi_up"
  /\ AfterProbe["wifi_status"] = "wifi_gateway"
  /\ AfterProbe["wifi_gateway"] = "save"
BY DEF Places, AfterProbe

\* What a buffer holds after a read is a record.
LEMMA ReadsRecords ==
  ASSUME NetTypeOK
  PROVE  /\ ClientReads \subseteq N_Info_t
         /\ \A d \in Daemons : AtTop(d) \subseteq N_Info_t
BY ZeroIsRecord, NetAssumption
DEF NetTypeOK, AtTop, ClientReads, DaemonReads, ReadNetInfo

\* The fields that are changed.
LEMMA RecordsStay ==
  ASSUME NEW r \in N_Info_t
  PROVE  /\ [r EXCEPT !.iStatus_Wire = 1] \in N_Info_t
         /\ [r EXCEPT !.iStatus_Wireless = 0] \in N_Info_t
         /\ [r EXCEPT !.iStatus_Wireless = 1] \in N_Info_t
         /\ \A b \in 0..1 : /\ [r EXCEPT !.iDhcp_Wire = b] \in N_Info_t
                            /\ [r EXCEPT !.iDhcp_Wireless = b] \in N_Info_t
         /\ [r EXCEPT !.iConnect_Format = 1] \in N_Info_t
         /\ [r EXCEPT !.iAction_Flag = 0] \in N_Info_t
BY DEF N_Info_t

-----------------------------------------------------------------------------
(* One daemon.                                                             *)

\* y is x but for its descriptors.
Like(x, y) ==
  /\ y \in Process
  /\ y.pc = x.pc /\ y.net = x.net /\ y.flag = x.flag
  /\ y.child = x.child /\ y.holds = x.holds /\ y.wiped = x.wiped
  /\ y.left > 0 => x.left > 0

LEMMA GoneIsProcess == Gone \in Process
BY ZeroIsRecord DEF Gone, Process

LEMMA OpenedLike ==
  ASSUME NEW x \in Process
  PROVE  /\ Like(x, x)
         /\ \A y \in Opened(x) : Like(x, y)
         /\ \A y \in OpenedTwo(x) : Like(x, y)
<1>1. Like(x, x) BY DEF Like
<1>2. ASSUME NEW z \in Process, NEW y \in Opened(z) PROVE Like(z, y)
  <2>1. PICK n \in (IF z.left = 2 THEN {1, 2} ELSE {0}) :
          y = [z EXCEPT !.left = n, !.out = IF @ = "closed" THEN "taken" ELSE @]
    BY <1>2 DEF Opened
  <2>2. n \in 0..2 /\ (n > 0 => z.left > 0) BY <2>1
  <2>3. (IF z.out = "closed" THEN "taken" ELSE z.out) \in {"closed", "pipe", "taken"}
    BY DEF Process
  <2>4. QED BY <2>1, <2>2, <2>3 DEF Like, Process
<1>3. ASSUME NEW y \in OpenedTwo(x) PROVE Like(x, y)
  <2>1. PICK z \in Opened(x) : y \in Opened(z) BY <1>3 DEF OpenedTwo
  <2>2. Like(x, z) /\ Like(z, y) BY <1>2, <2>1 DEF Like
  <2>3. QED BY <2>2 DEF Like
<1>4. QED BY <1>1, <1>2, <1>3

\* A helper is its parent, at the next place, with descriptors of its own.
LEMMA HelperIs ==
  ASSUME NetTypeOK, NEW d \in Daemons, AtProbe(d), NEW y \in Helpers(d)
  PROVE  /\ y \in Process /\ y.pc = AfterRead(d) /\ y.net = st[d].net
         /\ y.flag = st[d].flag /\ y.wiped = st[d].wiped /\ y.child = NoOne
         /\ \A s \in SUBSET Daemons : /\ [y EXCEPT !.holds = s] \in Process
                                      /\ [y EXCEPT !.holds = s].left = y.left
<1>1. PICK n \in {1, 2} :
        y = [st[d] EXCEPT !.pc = AfterRead(d), !.left = n, !.holds = @ \cup {d},
                          !.out = IF @ = "closed" THEN @ ELSE "pipe"]
  BY DEF Helpers
<1>2. st[d] \in Process BY DEF NetTypeOK
<1>3. AfterRead(d) \in Places /\ st[d].child = NoOne
  BY PlacesAre DEF AtProbe, AfterRead, Waits
<1>4. /\ (IF st[d].out = "closed" THEN st[d].out ELSE "pipe") \in {"closed", "pipe", "taken"}
      /\ st[d].holds \cup {d} \in SUBSET Daemons
  BY <1>2 DEF Process
<1>5. y \in Process
  <2>1. \A p \in Places, m \in 0..2, s \in SUBSET Daemons, o \in {"closed", "pipe", "taken"} :
          [st[d] EXCEPT !.pc = p, !.left = m, !.holds = s, !.out = o] \in Process
    BY <1>2 DEF Process
  <2>2. [st[d] EXCEPT !.pc = AfterRead(d), !.left = n, !.holds = st[d].holds \cup {d},
                      !.out = IF st[d].out = "closed" THEN st[d].out ELSE "pipe"] \in Process
    <3>1. n \in 0..2 OBVIOUS
    <3>2. QED BY <2>1, <3>1, <1>3, <1>4, Zenon
  <2>3. QED BY <1>1, <2>2
<1>6. y.pc = AfterRead(d) /\ y.net = st[d].net /\ y.flag = st[d].flag
      /\ y.wiped = st[d].wiped /\ y.child = NoOne
  BY <1>1, <1>2, <1>3 DEF Process
<1>7. \A s \in SUBSET Daemons : /\ [y EXCEPT !.holds = s] \in Process
                               /\ [y EXCEPT !.holds = s].left = y.left
  BY <1>5 DEF Process
<1>8. QED BY <1>5, <1>6, <1>7

-----------------------------------------------------------------------------
(* A step of a turn that neither reads nor writes the shared file, forks   *)
(* no helper that stays, and wakes nobody.                                 *)

QuietStep(d) ==
  \/ Get_Net_Status(d) \/ link_down(d) \/ no_link_down(d) \/ no_fifo(d)
  \/ fifo_command(d) \/ wire_up(d) \/ wifi_up(d) \/ wifi_tell(d)
  \/ no_pipe(d) \/ helper_prints(d) \/ helper_replaces(d)

\* What such a step makes of a daemon x.
Turned(x, y) ==
  /\ y \in Process /\ y.pc \notin {"gone", "write"} /\ y.child = NoOne
  /\ \/ y.wiped
     \/ /\ y.wiped = x.wiped
        /\ y.net.iConnect_Format = x.net.iConnect_Format
        /\ y.net.iAction_Flag = x.net.iAction_Flag

\* The same, and its flag is left alone.
TurnedOnly(x, y) == Turned(x, y) /\ y.flag = x.flag

\* What the player is told is what the flag says.
Tells(d, y) == \/ y.flag = st[d].flag /\ told' = told
               \/ told' <=> y.flag = 1

\* The daemon goes on, or ends.
GoesOn(d) == Turned(st[d], st'[d]) /\ seen' = seen /\ Tells(d, st'[d])
Ends(d) == st'[d] = Gone /\ seen' = seen \ {d}

Quietly(d) ==
  /\ ~Waits(d) /\ st[d].pc \notin {"gone", "write"}
  /\ st' = [st EXCEPT ![d] = st'[d]]
  /\ GoesOn(d) \/ Ends(d)
  /\ UNCHANGED <<file, last, cut, budget, cpc, rec, resumed>>
  /\ heard' \subseteq Daemons /\ told' \in BOOLEAN

LEMMA SetIs ==
  ASSUME NetTypeOK, NEW d \in Daemons, NEW x, Becomes(d, x)
  PROVE  st'[d] = x /\ st' = [st EXCEPT ![d] = st'[d]]
BY DEF Becomes, NetTypeOK

LEMMA PrintsType ==
  ASSUME NetTypeOK, NEW d \in Daemons, Prints(d) PROVE heard' \subseteq Daemons
BY DEF Prints, NetTypeOK

\* The daemon goes on as x.
LEMMA GoingOn ==
  ASSUME NetTypeOK, NEW d \in Daemons, NEW x, Becomes(d, x),
         ~Waits(d), st[d].pc \notin {"gone", "write"}, TurnedOnly(st[d], x),
         seen' = seen, told' = told, heard' \subseteq Daemons,
         UNCHANGED <<file, last, cut, budget, cpc, rec, resumed>>
  PROVE  Quietly(d)
BY SetIs DEF Quietly, GoesOn, Tells, TurnedOnly, NetTypeOK

\* Another place, and a record with another status or lease.
LEMMA TurnedRecord ==
  ASSUME NEW x \in Process, x.child = NoOne, NEW z, Like(x, z),
         NEW p \in Places \ {"write"}, NEW n \in N_Info_t,
         n.iConnect_Format = x.net.iConnect_Format, n.iAction_Flag = x.net.iAction_Flag
  PROVE  TurnedOnly(x, [z EXCEPT !.pc = p, !.net = n])
BY PlacesAre DEF Like, TurnedOnly, Turned, Process

LEMMA QuietStatus ==
  ASSUME NetTypeOK, NEW d \in Daemons, Get_Net_Status(d) PROVE Quietly(d)
<1>1. st[d] \in Process BY DEF NetTypeOK
<1>2. ASSUME NEW x, Becomes(d, x), TurnedOnly(st[d], x), At(d, "wire") \/ At(d, "wifi"),
             Prints(d) \/ UNCHANGED heard, UnchangedShared, UnchangedTold, UNCHANGED seen
      PROVE  Quietly(d)
  <2>1. heard' \subseteq Daemons BY <1>2, PrintsType DEF NetTypeOK
  <2>2. told' = told BY <1>2 DEF UnchangedTold
  <2>3. ~Waits(d) /\ st[d].pc \notin {"gone", "write"} BY <1>2 DEF At
  <2>4. UNCHANGED <<file, last, cut, budget, cpc, rec, resumed>>
    BY <1>2 DEF UnchangedShared, UnchangedTold, clientVars
  <2>5. QED BY <1>2, <2>1, <2>2, <2>3, <2>4, GoingOn
<1>3. At(d, "wire") \/ At(d, "wifi")
  BY DEF Get_Net_Status, no_wire, wire_answers, wire_silent, wifi_unknown, wifi_connected,
    wifi_disconnected, wifi_other
<1>4. st[d].child = NoOne BY <1>3 DEF At, Waits
<1>5. /\ Prints(d) \/ UNCHANGED heard
      /\ UnchangedShared /\ UnchangedTold /\ UNCHANGED seen
  BY DEF Get_Net_Status, no_wire, wire_answers, wire_silent, wifi_unknown, wifi_connected,
    wifi_disconnected, wifi_other, UnchangedOthers
<1>6. \E x : Becomes(d, x) /\ TurnedOnly(st[d], x)
  <2>1. CASE no_wire(d)
    <3>1. Becomes(d, [st[d] EXCEPT !.pc = "wifi"]) BY <2>1 DEF no_wire, Goto
    <3>2. TurnedOnly(st[d], [st[d] EXCEPT !.pc = "wifi"])
      BY <1>1, <1>4, PlacesAre DEF TurnedOnly, Turned, Process
    <3>3. QED BY <3>1, <3>2
  <2>2. CASE wire_answers(d)
    <3> DEFINE x == [st[d] EXCEPT !.pc = "wifi", !.net = [@ EXCEPT !.iStatus_Wire = 1]]
    <3>1. Becomes(d, x) BY <2>2 DEF wire_answers, WireUp
    <3>2. TurnedOnly(st[d], x)
      <4> DEFINE n == [st[d].net EXCEPT !.iStatus_Wire = 1]
      <4>1. st[d].net \in N_Info_t BY <1>1 DEF Process
      <4>2. /\ n \in N_Info_t /\ n.iConnect_Format = st[d].net.iConnect_Format
            /\ n.iAction_Flag = st[d].net.iAction_Flag
        BY <4>1 DEF N_Info_t
      <4>3. x = [st[d] EXCEPT !.pc = "wifi", !.net = n] OBVIOUS
      <4> HIDE DEF n, x
      <4>4. QED BY <1>1, <1>4, <4>2, <4>3, OpenedLike, TurnedRecord, PlacesAre
    <3>3. QED BY <3>1, <3>2
  <2>3. CASE wire_silent(d)
    <3> DEFINE x == [st[d] EXCEPT !.pc = "wifi", !.net = Zero, !.wiped = TRUE]
    <3>1. Becomes(d, x) BY <2>3 DEF wire_silent
    <3>2. TurnedOnly(st[d], x) BY <1>1, <1>4, PlacesAre, ZeroIsRecord DEF TurnedOnly, Turned, Process
    <3>3. QED BY <3>1, <3>2
  <2>4. CASE wifi_unknown(d)
    <3> DEFINE x == [st[d] EXCEPT !.pc = "scan", !.net.iStatus_Wireless = 0]
    <3>1. Becomes(d, x) BY <2>4 DEF wifi_unknown
    <3>2. TurnedOnly(st[d], x)
      <4> DEFINE n == [st[d].net EXCEPT !.iStatus_Wireless = 0]
      <4>1. st[d].net \in N_Info_t BY <1>1 DEF Process
      <4>2. /\ n \in N_Info_t /\ n.iConnect_Format = st[d].net.iConnect_Format
            /\ n.iAction_Flag = st[d].net.iAction_Flag
        BY <4>1 DEF N_Info_t
      <4>3. x = [st[d] EXCEPT !.pc = "scan", !.net = n] OBVIOUS
      <4> HIDE DEF n, x
      <4>4. QED BY <1>1, <1>4, <4>2, <4>3, OpenedLike, TurnedRecord, PlacesAre
    <3>3. QED BY <3>1, <3>2
  <2>5. CASE wifi_connected(d)
    <3>1. PICK z \in Opened(st[d]) :
            Becomes(d, [z EXCEPT !.pc = "scan", !.net.iStatus_Wireless = 1])
      BY <2>5 DEF wifi_connected
    <3>2. Like(st[d], z) BY <1>1, OpenedLike
    <3> DEFINE x == [z EXCEPT !.pc = "scan", !.net.iStatus_Wireless = 1]
    <3>3. TurnedOnly(st[d], x)
      <4> DEFINE n == [st[d].net EXCEPT !.iStatus_Wireless = 1]
      <4>1. st[d].net \in N_Info_t BY <1>1 DEF Process
      <4>2. /\ n \in N_Info_t /\ n.iConnect_Format = st[d].net.iConnect_Format
            /\ n.iAction_Flag = st[d].net.iAction_Flag
        BY <4>1 DEF N_Info_t
      <4>3. x = [z EXCEPT !.pc = "scan", !.net = n] BY <3>2 DEF Like
      <4> HIDE DEF n, x
      <4>4. QED BY <1>1, <1>4, <3>2, <4>2, <4>3, TurnedRecord, PlacesAre
    <3>4. QED BY <3>1, <3>3
  <2>6. CASE wifi_disconnected(d)
    <3>1. PICK z \in Opened(st[d]) :
            Becomes(d, [z EXCEPT !.pc = "scan", !.net = Zero, !.wiped = TRUE])
      BY <2>6 DEF wifi_disconnected, WifiLost
    <3>2. Like(st[d], z) BY <1>1, OpenedLike
    <3>3. TurnedOnly(st[d], [z EXCEPT !.pc = "scan", !.net = Zero, !.wiped = TRUE])
      BY <3>2, <1>4, PlacesAre, ZeroIsRecord DEF Like, TurnedOnly, Turned, Process
    <3>4. QED BY <3>1, <3>3
  <2>7. CASE wifi_other(d)
    <3>1. Becomes(d, [st[d] EXCEPT !.pc = "scan"]) BY <2>7 DEF wifi_other, Goto
    <3>2. TurnedOnly(st[d], [st[d] EXCEPT !.pc = "scan"])
      BY <1>1, <1>4, PlacesAre DEF TurnedOnly, Turned, Process
    <3>3. QED BY <3>1, <3>2
  <2>8. QED BY <2>1, <2>2, <2>3, <2>4, <2>5, <2>6, <2>7 DEF Get_Net_Status
<1>7. QED BY <1>2, <1>3, <1>5, <1>6

LEMMA QuietGoto ==
  ASSUME NetTypeOK, NEW d \in Daemons, NEW p \in Places \ {"write"}, Goto(d, p),
         ~Waits(d), st[d].pc \notin {"gone", "write"}, seen' = seen,
         UNCHANGED <<file, last, cut, budget, cpc, rec, resumed>>,
         heard' \subseteq Daemons, told' = told
  PROVE  Quietly(d)
<1>1. TurnedOnly(st[d], [st[d] EXCEPT !.pc = p])
  BY PlacesAre DEF TurnedOnly, Turned, Process, NetTypeOK, Waits
<1>2. QED BY <1>1, GoingOn DEF Goto

LEMMA QuietTell ==
  ASSUME NetTypeOK, NEW d \in Daemons, NEW up \in BOOLEAN, NEW next \in Places \ {"write"},
         Tell(d, up, next) \/ Keep(d, next),
         ~Waits(d), st[d].pc \notin {"gone", "write"},
         UnchangedShared, UNCHANGED <<heard, resumed>>
  PROVE  Quietly(d)
<1>1. UNCHANGED <<file, last, cut, budget, cpc, rec, resumed>> /\ heard' \subseteq Daemons
  BY DEF UnchangedShared, clientVars, NetTypeOK
<1>2. told' \in BOOLEAN BY DEF Tell, Told, Keep, NetTypeOK
<1>3. CASE Exits(d)
  BY <1>1, <1>2, <1>3, SetIs DEF Exits, Quietly, Ends
<1>4. CASE Keep(d, next) BY <1>1, <1>2, <1>4, QuietGoto DEF Keep
<1>5. CASE Tell(d, up, next) /\ ~Exits(d)
  <2> DEFINE f == IF up THEN 1 ELSE 0
  <2>1. PICK x \in Opened(st[d]) \cup OpenedTwo(st[d]) :
          Becomes(d, [x EXCEPT !.pc = next, !.flag = f])
    BY <1>5 DEF Tell
  <2>2. Like(st[d], x) BY OpenedLike DEF NetTypeOK
  <2>3. f \in 0..1 /\ (f = 1 <=> up) OBVIOUS
  <2> DEFINE y == [x EXCEPT !.pc = next, !.flag = f]
  <2>4. Turned(st[d], y) /\ y.flag = f
    <3> HIDE DEF f
    <3>1. QED BY <2>2, <2>3, PlacesAre DEF Like, Turned, Process, Waits
  <2>5. seen' = seen /\ told' = up BY <1>5 DEF Tell, Told
  <2>6. st'[d] = y /\ st' = [st EXCEPT ![d] = st'[d]] BY <2>1, SetIs
  <2> HIDE DEF y, f
  <2>7. GoesOn(d) BY <2>3, <2>4, <2>5, <2>6 DEF GoesOn, Tells
  <2>8. QED BY <1>1, <1>2, <2>6, <2>7 DEF Quietly
<1>6. QED BY <1>3, <1>4, <1>5

LEMMA QuietFifo ==
  ASSUME NetTypeOK, NEW d \in Daemons, fifo_command(d) PROVE Quietly(d)
<1>1. st[d] \in Process BY DEF NetTypeOK
<1>2. /\ UNCHANGED <<file, last, cut, budget, cpc, rec, resumed>>
      /\ heard' \subseteq Daemons /\ told' = told
      /\ ~Waits(d) /\ st[d].pc \notin {"gone", "write"}
  BY PrintsType DEF fifo_command, At, UnchangedShared, UnchangedTold, clientVars, NetTypeOK
<1>3. CASE Exits(d) BY <1>2, <1>3, SetIs DEF Exits, Quietly, Ends, NetTypeOK
<1>4. CASE ~Exits(d)
  <2>1. PICK x \in Opened(st[d]) \cup OpenedTwo(st[d]), n \in Commanded(st[d].net) :
          Becomes(d, [x EXCEPT !.pc = "save", !.net = n])
    BY <1>4 DEF fifo_command
  <2>2. seen' = seen BY <1>4 DEF fifo_command
  <2>3. Like(st[d], x) BY <1>1, OpenedLike
  <2>4. /\ n \in N_Info_t /\ n.iConnect_Format = st[d].net.iConnect_Format
        /\ n.iAction_Flag = st[d].net.iAction_Flag
    BY <1>1, <2>1 DEF Commanded, Process, N_Info_t
  <2>5. TurnedOnly(st[d], [x EXCEPT !.pc = "save", !.net = n])
    BY <1>2, <2>3, <2>4, PlacesAre DEF Like, TurnedOnly, Turned, Process, Waits
  <2>6. QED BY <1>2, <2>1, <2>2, <2>5, GoingOn
<1>5. QED BY <1>3, <1>4

LEMMA QuietWifi ==
  ASSUME NetTypeOK, NEW d \in Daemons, wifi_up(d) PROVE Quietly(d)
<1>1. st[d] \in Process /\ st[d].child = NoOne BY DEF NetTypeOK, wifi_up, At, Waits
<1>2. /\ UNCHANGED <<file, last, cut, budget, cpc, rec, resumed>>
      /\ heard' \subseteq Daemons /\ told' = told /\ seen' = seen
      /\ ~Waits(d) /\ st[d].pc \notin {"gone", "write"}
  BY DEF wifi_up, At, UnchangedOthers, UnchangedShared, UnchangedTold, clientVars, NetTypeOK
<1>3. CASE Goto(d, "save") BY <1>2, <1>3, QuietGoto, PlacesAre
<1>4. CASE Becomes(d, [st[d] EXCEPT !.pc = "wifi_tell", !.net.iStatus_Wireless = 0])
  <2> DEFINE x == [st[d] EXCEPT !.pc = "wifi_tell", !.net.iStatus_Wireless = 0]
  <2>1. TurnedOnly(st[d], x)
    <3> DEFINE n == [st[d].net EXCEPT !.iStatus_Wireless = 0]
    <3>1. st[d].net \in N_Info_t BY <1>1 DEF Process
    <3>2. /\ n \in N_Info_t /\ n.iConnect_Format = st[d].net.iConnect_Format
          /\ n.iAction_Flag = st[d].net.iAction_Flag
      BY <3>1 DEF N_Info_t
    <3>3. x = [st[d] EXCEPT !.pc = "wifi_tell", !.net = n] OBVIOUS
    <3> HIDE DEF n, x
    <3>4. QED BY <1>1, <3>2, <3>3, OpenedLike, TurnedRecord, PlacesAre
  <2>2. QED BY <1>2, <1>4, <2>1, GoingOn
<1>5. CASE \E x \in Opened(st[d]) : Becomes(d, [x EXCEPT !.pc = "wifi_tell"])
  <2>1. PICK x \in Opened(st[d]) : Becomes(d, [x EXCEPT !.pc = "wifi_tell"]) BY <1>5
  <2>2. Like(st[d], x) BY <1>1, OpenedLike
  <2>3. TurnedOnly(st[d], [x EXCEPT !.pc = "wifi_tell"])
    BY <1>1, <2>2, PlacesAre DEF Like, TurnedOnly, Turned, Process
  <2>4. QED BY <1>2, <2>1, <2>3, GoingOn
<1>6. QED BY <1>3, <1>4, <1>5 DEF wifi_up

LEMMA QuietProbe ==
  ASSUME NetTypeOK, NEW d \in Daemons,
         no_pipe(d) \/ helper_prints(d) \/ helper_replaces(d)
  PROVE  Quietly(d)
<1>1. AtProbe(d) /\ UnchangedOthers BY DEF no_pipe, helper_prints, helper_replaces
<1>2. st[d] \in Process /\ st[d].child = NoOne BY <1>1 DEF NetTypeOK, AtProbe, Waits
<1>3. AfterRead(d) \in Places \ {"write"} BY <1>1, PlacesAre DEF AtProbe, AfterRead
<1>4. /\ UNCHANGED <<file, last, cut, budget, cpc, rec, resumed>>
      /\ heard' \subseteq Daemons /\ told' = told /\ seen' = seen
      /\ ~Waits(d) /\ st[d].pc \notin {"gone", "write"}
  BY <1>1, PlacesAre
  DEF AtProbe, UnchangedOthers, UnchangedShared, UnchangedTold, clientVars, NetTypeOK
<1>5. CASE no_pipe(d) BY <1>3, <1>4, <1>5, QuietGoto DEF no_pipe
<1>6. CASE helper_prints(d)
  <2>1. PICK x \in Opened(st[d]) \cup OpenedTwo(st[d]) :
          Becomes(d, [x EXCEPT !.pc = AfterRead(d)])
    BY <1>6 DEF helper_prints
  <2>2. Like(st[d], x) BY <1>2, OpenedLike
  <2>3. TurnedOnly(st[d], [x EXCEPT !.pc = AfterRead(d)])
    BY <1>2, <1>3, <2>2, PlacesAre DEF Like, TurnedOnly, Turned, Process
  <2>4. QED BY <1>4, <2>1, <2>3, GoingOn
<1>7. CASE helper_replaces(d)
  <2>1. PICK y \in Helpers(d) : Becomes(d, [y EXCEPT !.holds = st[d].holds])
    BY <1>7 DEF helper_replaces
  <2>2. TurnedOnly(st[d], [y EXCEPT !.holds = st[d].holds])
    BY <1>1, <1>2, <1>3, HelperIs, PlacesAre DEF TurnedOnly, Turned, Process
  <2>3. QED BY <1>4, <2>1, <2>2, GoingOn
<1>8. QED BY <1>5, <1>6, <1>7

LEMMA Quiet ==
  ASSUME NetTypeOK, NEW d \in Daemons, QuietStep(d) PROVE Quietly(d)
<1>1. CASE Get_Net_Status(d) BY <1>1, QuietStatus
<1>2. CASE link_down(d)
  BY <1>2, QuietTell, PlacesAre DEF link_down, At
<1>3. CASE no_link_down(d) \/ no_fifo(d)
  BY <1>3, QuietGoto, PlacesAre
  DEF no_link_down, no_fifo, At, UnchangedOthers, UnchangedShared, UnchangedTold,
    clientVars, NetTypeOK
<1>4. CASE fifo_command(d) BY <1>4, QuietFifo
<1>5. CASE wire_up(d)
  BY <1>5, QuietTell, PlacesAre DEF wire_up, At
<1>6. CASE wifi_up(d) BY <1>6, QuietWifi
<1>7. CASE wifi_tell(d)
  BY <1>7, QuietTell, PlacesAre DEF wifi_tell, At
<1>8. CASE no_pipe(d) \/ helper_prints(d) \/ helper_replaces(d) BY <1>8, QuietProbe
<1>9. QED BY <1>1, <1>2, <1>3, <1>4, <1>5, <1>6, <1>7, <1>8 DEF QuietStep

-----------------------------------------------------------------------------
(* The steps in which a helper stays, and those that wake its parent.      *)

\* y is the daemon x, after the read of a helper's pipe or as the helper.
Follows(x, y) ==
  /\ x.pc \in DOMAIN AfterProbe /\ x.left = 2 /\ y \in Process /\ y.pc = AfterProbe[x.pc]
  /\ y.net = x.net /\ y.flag = x.flag /\ y.wiped = x.wiped

LEMMA ForkIs ==
  ASSUME NetTypeOK, NEW d \in Daemons, helper_goes_on(d)
  PROVE  \E h \in Free :
           /\ h # d /\ ~Waits(d) /\ Follows(st[d], st'[d]) /\ Follows(st[d], st'[h])
           /\ st'[d].child = h /\ st'[h].child = NoOne
           /\ \A e \in Daemons \ {d, h} : st'[e] = st[e]
           /\ st' \in [Daemons -> Process]
           /\ seen' = IF d \in seen THEN seen \cup {h} ELSE seen
<1>1. PICK h \in Free, y \in Helpers(d), x \in Opened(st[d]) :
        /\ st' = [st EXCEPT ![h] = y, ![d] = [x EXCEPT !.pc = AfterRead(d), !.child = h]]
        /\ seen' = IF d \in seen THEN seen \cup {h} ELSE seen
  BY DEF helper_goes_on
<1>2. AtProbe(d) /\ st[d].left = 2 BY DEF helper_goes_on
<1>3. st[d] \in Process /\ h \in Daemons BY DEF NetTypeOK, Free
<1>4. h # d /\ ~Waits(d) BY <1>2, PlacesAre DEF AtProbe, Free
<1>5. Like(st[d], x) BY <1>3, OpenedLike
<1>6. AfterRead(d) \in Places BY <1>2, PlacesAre DEF AtProbe, AfterRead
<1>7. Follows(st[d], y) /\ y.child = NoOne
  BY <1>2, HelperIs DEF Follows, AtProbe, AfterRead
<1>8. /\ Follows(st[d], [x EXCEPT !.pc = AfterRead(d), !.child = h])
      /\ [x EXCEPT !.pc = AfterRead(d), !.child = h].child = h
  BY <1>2, <1>3, <1>5, <1>6 DEF Like, Follows, AtProbe, AfterRead, Process
<1>9. /\ st'[h] = y /\ st'[d] = [x EXCEPT !.pc = AfterRead(d), !.child = h]
      /\ \A e \in Daemons \ {d, h} : st'[e] = st[e]
  BY <1>1, <1>3, <1>4 DEF NetTypeOK
<1>10. st' \in [Daemons -> Process]
  BY <1>1, <1>7, <1>8, <1>3 DEF Follows, NetTypeOK
<1>11. QED BY <1>1, <1>4, <1>7, <1>8, <1>9, <1>10

\* y is the daemon x at the same place, if it waited then perhaps no more.
Stays(x, y) ==
  /\ y \in Process /\ y.pc = x.pc /\ y.net = x.net /\ y.flag = x.flag
  /\ y.wiped = x.wiped /\ (y.left > 0 => x.left > 0)

\* What becomes of d when a daemon is woken.
AfterWake(d) ==
  \/ Stays(st[d], st'[d])
  \/ st'[d] = Gone /\ d \notin seen'
  \/ Follows(st[d], st'[d])

Wakes(p) ==
  /\ \A d \in Daemons : AfterWake(d)
  /\ st' \in [Daemons -> Process]
  /\ \A d \in Daemons : At(d, "write") => At(d, "write")' \/ cut'
  /\ seen' \subseteq seen /\ heard' \subseteq heard /\ resumed' = TRUE
  /\ cut' \in BOOLEAN /\ (cut => cut')
  /\ UNCHANGED <<file, last, budget, told, cpc, rec>>

LEMMA OutputWakes ==
  ASSUME NetTypeOK, NEW p \in Daemons, output_comes(p) PROVE Wakes(p)
<1> DEFINE c == st[p].child
<1> DEFINE Less(z) == [z EXCEPT !.holds = @ \ {p, c}]
<1>1. PICK x \in Opened(st[p]) \cup {st[p]}, y \in Killed(c) :
        /\ st' = [d \in Daemons |-> Less(IF d = p THEN [x EXCEPT !.child = NoOne]
                                         ELSE IF d = c THEN y ELSE st[d])]
        /\ seen' = IF y = Gone THEN seen \ {c} ELSE seen
  <2>1. PICK x \in IF st[p].pc \in StatusRead THEN Opened(st[p]) ELSE {st[p]}, y \in Killed(c) :
          /\ st' = [d \in Daemons |->
                      LET z == IF d = p THEN [x EXCEPT !.child = NoOne]
                               ELSE IF d = c THEN y ELSE st[d]
                      IN  [z EXCEPT !.holds = @ \ {p, c}]]
          /\ seen' = IF y = Gone THEN seen \ {c} ELSE seen
    BY Zenon DEF output_comes
  <2>2. x \in Opened(st[p]) \cup {st[p]} BY <2>1
  <2>3. QED BY <2>1, <2>2
<1>2. c \in Daemons /\ c # NoOne /\ st[p] \in Process /\ st[c] \in Process
  BY DEF output_comes, Waits, NetTypeOK, Process
<1>3. Like(st[p], x) BY <1>1, <1>2, OpenedLike
<1>4. ASSUME NEW z \in Process
      PROVE  /\ Less(z) \in Process /\ Less(z).pc = z.pc /\ Less(z).net = z.net
             /\ Less(z).flag = z.flag /\ Less(z).wiped = z.wiped /\ Less(z).left = z.left
             /\ Less(z).child = z.child
  BY DEF Process
<1>5. y = Gone \/ (y \in Process /\ Follows(st[c], y))
  <2>1. ASSUME y # Gone PROVE y \in Process /\ Follows(st[c], y)
    <3>1. AtProbe(c) /\ st[c].left = 2 BY <1>1, <2>1 DEF Killed
    <3>2. PICK w \in Helpers(c) : y = [w EXCEPT !.holds = st[c].holds]
      BY <1>1, <2>1 DEF Killed
    <3>3. st[c].holds \in SUBSET Daemons BY <1>2 DEF Process
    <3>4. w \in Process /\ Follows(st[c], w)
      BY <1>2, <3>1, <3>2, HelperIs DEF Follows, AtProbe, AfterRead
    <3>5. y \in Process /\ y.pc = w.pc /\ y.net = w.net /\ y.flag = w.flag /\ y.wiped = w.wiped
      BY <3>2, <3>3, <3>4 DEF Process
    <3>6. QED BY <3>4, <3>5 DEF Follows
  <2>2. QED BY <2>1
<1>6. Less(Gone) = Gone
  <2>1. Gone.holds = {} /\ {} \ {p, c} = {} BY DEF Gone
  <2>2. \A z \in Process : z.holds = {} => [z EXCEPT !.holds = {}] = z BY DEF Process
  <2>3. [Gone EXCEPT !.holds = {}] = Gone BY <2>1, <2>2, GoneIsProcess
  <2>4. QED BY <2>1, <2>3
<1>7. ASSUME NEW d \in Daemons PROVE AfterWake(d) /\ st'[d] \in Process
  <2>1. CASE d = p
    <3>1. /\ [x EXCEPT !.child = NoOne] \in Process
          /\ [x EXCEPT !.child = NoOne].pc = st[p].pc
          /\ [x EXCEPT !.child = NoOne].net = st[p].net
          /\ [x EXCEPT !.child = NoOne].flag = st[p].flag
          /\ [x EXCEPT !.child = NoOne].wiped = st[p].wiped
          /\ [x EXCEPT !.child = NoOne].left > 0 => st[p].left > 0
      BY <1>3 DEF Like, Process
    <3>2. st'[d] = Less([x EXCEPT !.child = NoOne]) BY <1>1, <2>1
    <3> DEFINE w == [x EXCEPT !.child = NoOne]
    <3>3. /\ Less(w) \in Process /\ Less(w).pc = w.pc /\ Less(w).net = w.net
          /\ Less(w).flag = w.flag /\ Less(w).wiped = w.wiped /\ Less(w).left = w.left
      BY <3>1, <1>4
    <3> HIDE DEF Less, w
    <3>4. st'[p] = Less(w) BY <3>2, <2>1 DEF w
    <3>5. /\ w.pc = st[p].pc /\ w.net = st[p].net /\ w.flag = st[p].flag
          /\ w.wiped = st[p].wiped /\ (w.left > 0 => st[p].left > 0)
      BY <3>1 DEF w
    <3>6. Stays(st[p], st'[p]) BY <3>3, <3>4, <3>5 DEF Stays
    <3>7. QED BY <2>1, <3>3, <3>4, <3>6 DEF AfterWake
  <2>2. CASE d = c /\ d # p
    <3>1. st'[d] = Less(y) BY <1>1, <2>2
    <3>2. CASE y = Gone
      <4>1. st'[d] = Gone /\ d \notin seen' BY <1>1, <1>6, <2>2, <3>1, <3>2
      <4>2. QED BY <4>1, GoneIsProcess DEF AfterWake
    <3>3. CASE y \in Process /\ Follows(st[c], y)
      <4> HIDE DEF Less
      <4>1. QED BY <1>4, <2>2, <3>1, <3>3 DEF AfterWake, Follows
    <3>4. QED BY <1>5, <3>2, <3>3
  <2>3. CASE d # c /\ d # p
    <3>1. st'[d] = Less(st[d]) /\ st[d] \in Process BY <1>1, <2>3 DEF NetTypeOK
    <3> HIDE DEF Less, c
    <3>2. QED BY <3>1, <1>4 DEF AfterWake, Stays
  <2>4. QED BY <2>1, <2>2, <2>3
<1>8. cut' = (cut \/ st[c].pc = "write") BY DEF output_comes
<1>9. ASSUME NEW d \in Daemons, At(d, "write") PROVE At(d, "write")' \/ cut'
  <2>1. d # p BY <1>9 DEF At, output_comes
  <2>2. CASE d = c BY <1>8, <1>9, <2>2 DEF At
  <2>3. CASE d # c
    <3>1. st'[d] = Less(st[d]) /\ st[d] \in Process BY <1>1, <2>1, <2>3 DEF NetTypeOK
    <3>2. st'[d].pc = st[d].pc /\ st'[d].child = st[d].child
      <4> HIDE DEF Less
      <4>1. QED BY <3>1, <1>4
    <3>3. QED BY <1>9, <3>2 DEF At, Waits
  <2>4. QED BY <2>2, <2>3
<1>10. st' \in [Daemons -> Process]
  <2>1. DOMAIN st' = Daemons /\ st' = [d \in Daemons |-> st'[d]] BY <1>1
  <2>2. QED BY <1>7, <2>1
<1>11. /\ seen' \subseteq seen /\ heard' \subseteq heard /\ resumed' = TRUE
       /\ UNCHANGED <<file, last, budget, told, cpc, rec>>
  BY <1>1 DEF output_comes, clientVars
<1>12. cut' \in BOOLEAN /\ (cut => cut') BY <1>8 DEF NetTypeOK
<1>13. QED BY <1>7, <1>9, <1>10, <1>11, <1>12 DEF Wakes

LEMMA EndWakes ==
  ASSUME NetTypeOK, NEW p \in Daemons, pipe_ends(p) PROVE Wakes(p)
<1>1. /\ st'[p] = [st[p] EXCEPT !.child = NoOne]
      /\ \A d \in Daemons \ {p} : st'[d] = st[d]
  BY DEF pipe_ends, Becomes, NetTypeOK
<1>2. st[p] \in Process /\ st'[p] \in Process BY <1>1 DEF NetTypeOK, Process
<1>3. ASSUME NEW d \in Daemons PROVE AfterWake(d)
  <2>1. Stays(st[d], st'[d]) BY <1>1, <1>2 DEF Stays, NetTypeOK, Process
  <2>2. QED BY <2>1 DEF AfterWake
<1>4. st' \in [Daemons -> Process] BY <1>1, <1>2 DEF pipe_ends, Becomes, NetTypeOK
<1>5. ASSUME NEW d \in Daemons, At(d, "write") PROVE At(d, "write")'
  <2>1. d # p BY <1>5 DEF At, pipe_ends
  <2>2. QED BY <1>1, <1>5, <2>1 DEF At, Waits
<1>6. QED
  BY <1>3, <1>4, <1>5 DEF Wakes, pipe_ends, UnchangedShared, clientVars, NetTypeOK

LEMMA Wake == ASSUME NetTypeOK, NEW p \in Daemons, resume(p) PROVE Wakes(p)
BY OutputWakes, EndWakes DEF resume

-----------------------------------------------------------------------------

LEMMA TypeInit == NetInit => NetTypeOK
<1> SUFFICES ASSUME NetInit PROVE NetTypeOK OBVIOUS
<1>1. Begun \in Process
  <2>1. "save" \in Places BY DEF Places
  <2>2. \A q \in Places, n \in 0..2 : [Gone EXCEPT !.pc = q, !.left = n] \in Process
    BY GoneIsProcess DEF Process
  <2>3. 2 \in 0..2 OBVIOUS
  <2>4. QED BY <2>1, <2>2, <2>3, Zenon DEF Begun
<1>2. st \in [Daemons -> Process] BY <1>1, GoneIsProcess DEF NetInit
<1>3. budget \in [hangs : Nat, turns : Nat, calls : Nat] BY NetAssumption DEF NetInit
<1>4. rec \in [Clients -> N_Info_t] BY ZeroIsRecord DEF NetInit
<1>5. cpc \in [Clients -> {"idle", "save", "write"}] BY DEF NetInit
<1>6. told \in BOOLEAN /\ resumed \in BOOLEAN /\ cut \in BOOLEAN BY DEF NetInit
<1>7. file \in N_Info_t \cup {Empty} /\ last \in N_Info_t \cup {Empty} BY DEF NetInit
<1>8. seen \subseteq Clients \cup Daemons /\ heard \subseteq Daemons BY DEF NetInit
<1>9. QED BY <1>2, <1>3, <1>4, <1>5, <1>6, <1>7, <1>8 DEF NetTypeOK

LEMMA TypeDaemon ==
  ASSUME NetTypeOK, NEW d \in Daemons, daemon(d) PROVE NetTypeOK'
<1>1. st[d] \in Process BY DEF NetTypeOK
<1>2. CASE QuietStep(d)
  <2>1. Quietly(d) BY <1>2, Quiet
  <2>2. st'[d] \in Process BY <2>1, GoneIsProcess DEF Quietly, GoesOn, Ends, Turned
  <2>3. st' \in [Daemons -> Process] BY <2>1, <2>2 DEF Quietly, NetTypeOK
  <2>4. seen' \subseteq Clients \cup Daemons
    BY <2>1 DEF Quietly, GoesOn, Ends, NetTypeOK
  <2>5. QED BY <2>1, <2>3, <2>4 DEF Quietly, NetTypeOK
<1>3. CASE read_net_info(d)
  <2>1. PICK r \in AtTop(d) :
          Becomes(d, [st[d] EXCEPT !.pc = "wire", !.net = r, !.wiped = FALSE])
    BY <1>3 DEF read_net_info
  <2>2. r \in N_Info_t BY ReadsRecords
  <2>3. [st[d] EXCEPT !.pc = "wire", !.net = r, !.wiped = FALSE] \in Process
    BY <1>1, <2>2, PlacesAre DEF Process
  <2>4. st' \in [Daemons -> Process] BY <2>1, <2>3 DEF Becomes, NetTypeOK
  <2>5. seen' \subseteq Clients \cup Daemons BY <1>3 DEF read_net_info, Sees, NetTypeOK
  <2>6. budget' \in [hangs : Nat, turns : Nat, calls : Nat]
    BY <1>3 DEF read_net_info, NetTypeOK
  <2>7. QED
    BY <1>3, <2>4, <2>5, <2>6 DEF read_net_info, UnchangedTold, clientVars, NetTypeOK
<1>4. CASE helper_goes_on(d)
  <2>1. st' \in [Daemons -> Process] /\ seen' \subseteq Clients \cup Daemons
    BY <1>4, ForkIs DEF Free, NetTypeOK
  <2>2. budget' \in [hangs : Nat, turns : Nat, calls : Nat]
    BY <1>4 DEF helper_goes_on, Followed, NetTypeOK
  <2>3. QED
    BY <1>4, <2>1, <2>2 DEF helper_goes_on, UnchangedTold, clientVars, NetTypeOK
<1>5. CASE resume(d) BY <1>5, Wake DEF Wakes, NetTypeOK
<1>6. CASE save_open(d)
  <2>1. \A p \in Places : [st[d] EXCEPT !.pc = p] \in Process BY <1>1 DEF Process
  <2>2. st' \in [Daemons -> Process]
    BY <1>6, <2>1, PlacesAre DEF save_open, Goto, Becomes, NetTypeOK
  <2>3. QED BY <1>6, <2>2 DEF save_open, UnchangedTold, clientVars, NetTypeOK
<1>7. CASE save_write(d)
  <2>1. [st[d] EXCEPT !.pc = "top", !.wiped = FALSE] \in Process
    BY <1>1, PlacesAre DEF Process
  <2>2. st' \in [Daemons -> Process] BY <1>7, <2>1 DEF save_write, Becomes, NetTypeOK
  <2>3. st[d].net \in N_Info_t BY <1>1 DEF Process
  <2>4. QED
    BY <1>7, <2>2, <2>3 DEF save_write, Written, UnchangedTold, clientVars, NetTypeOK
<1>8. QED
  BY <1>2, <1>3, <1>4, <1>5, <1>6, <1>7 DEF daemon, QuietStep, probe

LEMMA TypeStep == ASSUME NetTypeOK, [NetNext]_netVars PROVE NetTypeOK'
<1>1. ASSUME NEW d \in Daemons, daemon(d) PROVE NetTypeOK' BY <1>1, TypeDaemon
<1>2. ASSUME NEW c \in Clients, client_read(c) PROVE NetTypeOK'
  <2>1. rec' \in [Clients -> N_Info_t]
    <3>1. PICK r \in ClientReads :
             \/ rec' = [rec EXCEPT ![c] = [r EXCEPT !.iConnect_Format = 1]]
             \/ rec' = [rec EXCEPT ![c] = [r EXCEPT !.iAction_Flag = 0]]
      BY <1>2 DEF client_read
    <3>2. r \in N_Info_t BY ReadsRecords
    <3>3. /\ [r EXCEPT !.iConnect_Format = 1] \in N_Info_t
          /\ [r EXCEPT !.iAction_Flag = 0] \in N_Info_t
      BY <3>2, RecordsStay
    <3>4. QED BY <3>1, <3>3 DEF NetTypeOK
  <2>2. seen' \subseteq Clients \cup Daemons BY <1>2 DEF client_read, Sees, NetTypeOK
  <2>3. budget' \in [hangs : Nat, turns : Nat, calls : Nat] BY <1>2 DEF client_read, NetTypeOK
  <2>4. QED BY <1>2, <2>1, <2>2, <2>3 DEF client_read, daemonVars, NetTypeOK
<1>3. ASSUME NEW c \in Clients, client_save_open(c) PROVE NetTypeOK'
  BY <1>3 DEF client_save_open, daemonVars, NetTypeOK
<1>4. ASSUME NEW c \in Clients, client_save_write(c) PROVE NetTypeOK'
  BY <1>4, ZeroIsRecord DEF client_save_write, Written, daemonVars, NetTypeOK
<1>5. CASE UNCHANGED netVars BY <1>5 DEF netVars, daemonVars, clientVars, NetTypeOK
<1>6. QED BY <1>1, <1>2, <1>3, <1>4, <1>5 DEF NetNext, Ended, client_saves

\* Every variable of the daemons and of their clients keeps its type.
THEOREM NetTypes == NetSpec => []NetTypeOK
<1>1. NetInit => NetTypeOK BY TypeInit
<1>2. NetTypeOK /\ [NetNext]_netVars => NetTypeOK' BY TypeStep
<1>3. QED BY <1>1, <1>2, PTL DEF NetSpec

-----------------------------------------------------------------------------
(* The shared file.                                                        *)

\* A step that leaves the file alone and every writer at its place.
LEMMA EmptySame ==
  ASSUME EmptyOnlyWhileSaving, UNCHANGED <<file, last, cpc>>, cut => cut',
         \A e \in Daemons : At(e, "write") => At(e, "write")' \/ cut'
  PROVE  EmptyOnlyWhileSaving'
BY DEF EmptyOnlyWhileSaving

\* No writer leaves the file empty behind: every order of fopen and fclose of
\* daemons and clients keeps the writer that will fill it, unless it is killed.
LEMMA EmptyDaemon ==
  ASSUME NetTypeOK, EmptyOnlyWhileSaving, NEW d \in Daemons, daemon(d)
  PROVE  EmptyOnlyWhileSaving'
<1>1. ASSUME st[d].pc # "write", \A e \in Daemons \ {d} : st'[e] = st[e],
             UNCHANGED <<file, last, cpc, cut>>
      PROVE  EmptyOnlyWhileSaving'
  <2>1. \A e \in Daemons : At(e, "write") => At(e, "write")' BY <1>1 DEF At, Waits
  <2>2. QED BY <1>1, <2>1, EmptySame
<1>2. CASE QuietStep(d)
  <2>1. Quietly(d) BY <1>2, Quiet
  <2>2. \A e \in Daemons \ {d} : st'[e] = st[e] BY <2>1 DEF Quietly, NetTypeOK
  <2>3. QED BY <1>1, <2>1, <2>2 DEF Quietly
<1>3. CASE read_net_info(d)
  BY <1>1, <1>3 DEF read_net_info, At, Becomes, clientVars, NetTypeOK
<1>4. CASE helper_goes_on(d)
  <2>1. PICK h \in Free : /\ Follows(st[d], st'[d])
                          /\ \A e \in Daemons \ {d, h} : st'[e] = st[e]
    BY <1>4, ForkIs
  <2>2. \A e \in Daemons : At(e, "write") => e # d /\ e # h
    BY <2>1, PlacesAre DEF At, Free, Follows
  <2>3. \A e \in Daemons : At(e, "write") => At(e, "write")' BY <2>1, <2>2 DEF At, Waits
  <2>4. QED BY <1>4, <2>3, EmptySame DEF helper_goes_on, clientVars
<1>5. CASE resume(d) BY <1>5, Wake, EmptySame DEF Wakes
<1>6. CASE save_open(d)
  <2>1. \A e \in Daemons \ {d} : st'[e] = st[e]
    BY <1>6 DEF save_open, Goto, Becomes, NetTypeOK
  <2>2. CASE st[d].left = 0
    BY <1>1, <1>6, <2>1, <2>2 DEF save_open, At, clientVars
  <2>3. CASE st[d].left # 0
    <3>1. st'[d] = [st[d] EXCEPT !.pc = "write"] /\ ~Waits(d)
      BY <1>6, <2>3, SetIs DEF save_open, Goto, At
    <3>2. At(d, "write")' BY <3>1 DEF At, Waits, NetTypeOK, Process
    <3>3. QED BY <3>2 DEF EmptyOnlyWhileSaving
  <2>4. QED BY <2>2, <2>3
<1>7. CASE save_write(d)
  <2>1. st[d].net \in N_Info_t BY DEF NetTypeOK, Process
  <2>2. QED BY <1>7, <2>1, NetAssumption DEF save_write, Written, EmptyOnlyWhileSaving
<1>8. QED
  BY <1>2, <1>3, <1>4, <1>5, <1>6, <1>7 DEF daemon, QuietStep, probe

LEMMA EmptyStep ==
  ASSUME NetTypeOK, EmptyOnlyWhileSaving, [NetNext]_netVars
  PROVE  EmptyOnlyWhileSaving'
<1>1. ASSUME NEW d \in Daemons, daemon(d) PROVE EmptyOnlyWhileSaving'
  BY <1>1, EmptyDaemon
<1>2. ASSUME NEW c \in Clients, client_read(c) PROVE EmptyOnlyWhileSaving'
  BY <1>2 DEF client_read, daemonVars, EmptyOnlyWhileSaving, At, Waits, NetTypeOK
<1>3. ASSUME NEW c \in Clients, client_save_open(c) PROVE EmptyOnlyWhileSaving'
  BY <1>3 DEF client_save_open, daemonVars, EmptyOnlyWhileSaving, At, Waits, NetTypeOK
<1>4. ASSUME NEW c \in Clients, client_save_write(c) PROVE EmptyOnlyWhileSaving'
  BY <1>4, NetAssumption DEF client_save_write, Written, EmptyOnlyWhileSaving, NetTypeOK
<1>5. CASE UNCHANGED netVars
  BY <1>5 DEF netVars, daemonVars, clientVars, EmptyOnlyWhileSaving, At, Waits
<1>6. QED BY <1>1, <1>2, <1>3, <1>4, <1>5 DEF NetNext, Ended, client_saves

\* Once written, the shared file is empty only between the fopen and the
\* fclose of some SaveNetInfo, or after a daemon was killed there.
THEOREM NetEmptyOnlyWhileSaving == NetSpec => []EmptyOnlyWhileSaving
<1>1. NetInit => NetTypeOK /\ EmptyOnlyWhileSaving
  BY TypeInit DEF NetInit, EmptyOnlyWhileSaving
<1>2. NetTypeOK /\ EmptyOnlyWhileSaving /\ [NetNext]_netVars
        => NetTypeOK' /\ EmptyOnlyWhileSaving'
  BY TypeStep, EmptyStep
<1>3. QED BY <1>1, <1>2, PTL DEF NetSpec

(* The shared file holds a whole record, or a writer is at work or was     *)
(* killed, for any number of clients and daemons.                          *)
THEOREM NetState == NetSpec => []NetStateOK
<1>1. NetTypeOK /\ EmptyOnlyWhileSaving => NetStateOK BY DEF NetStateOK
<1>2. QED BY <1>1, NetTypes, NetEmptyOnlyWhileSaving, PTL

-----------------------------------------------------------------------------
(* Copies: a file that is not empty holds the last record, and whoever has *)
(* read that record still has the fields that others set.                  *)

KeepsRequest(d) == st[d].net.iConnect_Format = last.iConnect_Format
                   /\ st[d].net.iAction_Flag = last.iAction_Flag

KeepsLinks(c) == /\ rec[c].iStatus_Wire = last.iStatus_Wire
                 /\ rec[c].iStatus_Wireless = last.iStatus_Wireless
                 /\ rec[c].iDhcp_Wire = last.iDhcp_Wire
                 /\ rec[c].iDhcp_Wireless = last.iDhcp_Wireless

\* A daemon that has read the last record runs, and has its requests.
DaemonKeeps(d) == d \in seen => st[d].pc # "gone" /\ (~st[d].wiped => KeepsRequest(d))

CopyInv ==
  /\ file # Empty => file = last
  /\ \A d \in Daemons : DaemonKeeps(d)
  /\ \A c \in Clients : c \in seen => KeepsLinks(c)

\* A step of a daemon that leaves the file alone.
LEMMA CopySame ==
  ASSUME CopyInv, UNCHANGED <<file, last, rec>>, seen' \cap Clients \subseteq seen,
         \A d \in Daemons : DaemonKeeps(d)'
  PROVE  CopyInv'
BY DEF CopyInv, KeepsLinks

LEMMA CopyDaemon ==
  ASSUME NetTypeOK, CopyInv, NEW d \in Daemons, daemon(d) PROVE CopyInv'
<1>1. ASSUME NEW e \in Daemons, e \in seen' => e \in seen, UNCHANGED last,
             \/ st'[e].wiped /\ st'[e].pc # "gone"
             \/ /\ st'[e].wiped = st[e].wiped
                /\ st'[e].net.iConnect_Format = st[e].net.iConnect_Format
                /\ st'[e].net.iAction_Flag = st[e].net.iAction_Flag
                /\ st'[e].pc = "gone" => st[e].pc = "gone"
      PROVE  DaemonKeeps(e)'
  BY <1>1 DEF CopyInv, DaemonKeeps, KeepsRequest
<1>2. CASE QuietStep(d)
  <2>1. Quietly(d) BY <1>2, Quiet
  <2>2. \A e \in Daemons \ {d} : st'[e] = st[e] BY <2>1 DEF Quietly, NetTypeOK
  <2>3. seen' \subseteq seen /\ UNCHANGED <<file, last, rec>>
    BY <2>1 DEF Quietly, GoesOn, Ends
  <2>4. \A e \in Daemons \ {d} : DaemonKeeps(e)' BY <1>1, <2>2, <2>3
  <2>5. CASE GoesOn(d)
    <3>1. DaemonKeeps(d)' BY <1>1, <2>3, <2>5 DEF GoesOn, Turned
    <3>2. QED BY <2>3, <2>4, <3>1, CopySame
  <2>6. CASE Ends(d)
    <3>1. DaemonKeeps(d)' BY <2>6 DEF Ends, DaemonKeeps
    <3>2. QED BY <2>3, <2>4, <3>1, CopySame
  <2>7. QED BY <2>1, <2>5, <2>6 DEF Quietly
<1>3. CASE read_net_info(d)
  <2>1. PICK r \in AtTop(d) :
          Becomes(d, [st[d] EXCEPT !.pc = "wire", !.net = r, !.wiped = FALSE])
    BY <1>3 DEF read_net_info
  <2>2. st'[d].net = r /\ st'[d].pc = "wire"
    <3>1. st'[d] = [st[d] EXCEPT !.pc = "wire", !.net = r, !.wiped = FALSE]
      BY <2>1 DEF Becomes, NetTypeOK
    <3>2. st[d] \in Process BY DEF NetTypeOK
    <3>3. QED BY <3>1, <3>2 DEF Process
  <2>3. \A e \in Daemons \ {d} : st'[e] = st[e] BY <2>1 DEF Becomes, NetTypeOK
  <2>4. UNCHANGED <<file, last, rec>> BY <1>3 DEF read_net_info, clientVars
  <2>5. seen' \subseteq seen \cup {d} BY <1>3 DEF read_net_info, Sees
  <2>6. ASSUME d \in seen' PROVE r = last
    BY <1>3, <2>1, <2>6 DEF read_net_info, Sees, AtTop, DaemonReads, ReadNetInfo, CopyInv
  <2>7. DaemonKeeps(d)' BY <2>2, <2>4, <2>6 DEF DaemonKeeps, KeepsRequest
  <2>8. \A e \in Daemons \ {d} : DaemonKeeps(e)' BY <1>1, <2>3, <2>4, <2>5
  <2>9. QED BY <2>4, <2>5, <2>7, <2>8, NetAssumption, CopySame
<1>4. CASE helper_goes_on(d)
  <2>1. PICK h \in Free :
           /\ h # d /\ Follows(st[d], st'[d]) /\ Follows(st[d], st'[h])
           /\ \A e \in Daemons \ {d, h} : st'[e] = st[e]
           /\ seen' = IF d \in seen THEN seen \cup {h} ELSE seen
    BY <1>4, ForkIs
  <2>2. UNCHANGED <<file, last, rec>> BY <1>4 DEF helper_goes_on, clientVars
  <2>3. h \in Daemons /\ h \notin seen BY DEF Free, CopyInv, DaemonKeeps
  <2>4. st'[d].pc # "gone" /\ st'[h].pc # "gone" BY <2>1, PlacesAre DEF Follows
  <2>5. DaemonKeeps(d)' /\ DaemonKeeps(h)'
    BY <2>1, <2>2, <2>3, <2>4 DEF Follows, CopyInv, DaemonKeeps, KeepsRequest
  <2>6. \A e \in Daemons \ {d, h} : DaemonKeeps(e)' BY <1>1, <2>1, <2>2
  <2>7. seen' \cap Clients \subseteq seen BY <2>1, <2>3, NetAssumption
  <2>8. QED BY <2>2, <2>5, <2>6, <2>7, CopySame
<1>5. CASE resume(d)
  <2>1. Wakes(d) BY <1>5, Wake
  <2>2. UNCHANGED <<file, last, rec>> /\ seen' \subseteq seen BY <2>1 DEF Wakes
  <2>3. ASSUME NEW e \in Daemons PROVE DaemonKeeps(e)'
    <3>1. CASE Stays(st[e], st'[e]) BY <1>1, <2>2, <3>1 DEF Stays
    <3>2. CASE e \notin seen' BY <3>2 DEF DaemonKeeps
    <3>3. CASE Follows(st[e], st'[e]) BY <1>1, <2>2, <3>3, PlacesAre DEF Follows
    <3>4. QED BY <2>1, <3>1, <3>2, <3>3 DEF Wakes, AfterWake
  <2>4. QED BY <2>2, <2>3, CopySame
<1>6. CASE save_open(d)
  <2>1. \A e \in Daemons \ {d} : st'[e] = st[e]
    BY <1>6 DEF save_open, Goto, Becomes, NetTypeOK
  <2>2. /\ st'[d].net = st[d].net /\ st'[d].wiped = st[d].wiped /\ st'[d].pc # "gone"
    BY <1>6, SetIs DEF save_open, Goto, NetTypeOK, Process
  <2>3. UNCHANGED <<last, rec, seen>> BY <1>6 DEF save_open, clientVars
  <2>4. \A e \in Daemons : DaemonKeeps(e)' BY <1>1, <2>1, <2>2, <2>3
  <2>5. file' = Empty \/ file' = file BY <1>6 DEF save_open
  <2>6. QED BY <2>3, <2>4, <2>5 DEF CopyInv, KeepsLinks
<1>7. CASE save_write(d)
  BY <1>7 DEF save_write, Written, CopyInv, DaemonKeeps
<1>8. QED
  BY <1>2, <1>3, <1>4, <1>5, <1>6, <1>7 DEF daemon, QuietStep, probe

LEMMA CopyStep ==
  ASSUME NetTypeOK, CopyInv, [NetNext]_netVars PROVE CopyInv'
<1>1. ASSUME NEW d \in Daemons, daemon(d) PROVE CopyInv' BY <1>1, CopyDaemon
<1>2. ASSUME NEW c \in Clients, client_read(c) PROVE CopyInv'
  <2>1. UNCHANGED <<file, last, st>> BY <1>2 DEF client_read, daemonVars
  <2>2. c \in seen' => KeepsLinks(c)'
    <3> SUFFICES ASSUME c \in seen' PROVE KeepsLinks(c)' OBVIOUS
    <3>1. file # Empty BY <1>2 DEF client_read, Sees
    <3>2. file = last /\ file \in N_Info_t BY <3>1 DEF CopyInv, NetTypeOK
    <3>3. \/ rec'[c] = [file EXCEPT !.iConnect_Format = 1]
          \/ rec'[c] = [file EXCEPT !.iAction_Flag = 0]
      BY <1>2, <3>1 DEF client_read, ClientReads, ReadNetInfo, NetTypeOK
    <3>4. QED BY <2>1, <3>2, <3>3 DEF KeepsLinks, N_Info_t
  <2>3. ASSUME NEW e \in Clients, e # c, e \in seen' PROVE KeepsLinks(e)'
    <3>1. e \in seen BY <1>2, <2>3 DEF client_read, Sees
    <3>2. rec'[e] = rec[e] BY <1>2, <2>3 DEF client_read, NetTypeOK
    <3>3. QED BY <2>1, <3>1, <3>2 DEF KeepsLinks, CopyInv
  <2>4. \A d \in Daemons : d \in seen' => d \in seen
    BY <1>2, NetAssumption DEF client_read, Sees
  <2>5. QED BY <2>1, <2>2, <2>3, <2>4 DEF CopyInv, DaemonKeeps, KeepsRequest
<1>3. ASSUME NEW c \in Clients, client_save_open(c) PROVE CopyInv'
  BY <1>3 DEF client_save_open, daemonVars, CopyInv, KeepsLinks, DaemonKeeps, KeepsRequest
<1>4. ASSUME NEW c \in Clients, client_save_write(c) PROVE CopyInv'
  BY <1>4 DEF client_save_write, Written, daemonVars, CopyInv, DaemonKeeps
<1>5. CASE UNCHANGED netVars
  BY <1>5 DEF netVars, daemonVars, clientVars, CopyInv, KeepsLinks, DaemonKeeps, KeepsRequest
<1>6. QED BY <1>1, <1>2, <1>3, <1>4, <1>5 DEF NetNext, Ended, client_saves

\* A daemon or client that has read the last record, and has not been wiped
\* by Get_Net_Status, loses no change of another.
THEOREM NetLostOnlyByOverlap == NetSpec => LostOnlyByOverlap
<1> DEFINE A == /\ \A d \in Daemons : (save_write(d) /\ d \in seen /\ ~st[d].wiped) =>
                     /\ file'.iConnect_Format = last.iConnect_Format
                     /\ file'.iAction_Flag = last.iAction_Flag
                /\ \A c \in Clients : (client_save_write(c) /\ c \in seen) =>
                     /\ file'.iStatus_Wire = last.iStatus_Wire
                     /\ file'.iStatus_Wireless = last.iStatus_Wireless
                     /\ file'.iDhcp_Wire = last.iDhcp_Wire
                     /\ file'.iDhcp_Wireless = last.iDhcp_Wireless
<1>1. NetInit => NetTypeOK /\ CopyInv
  BY TypeInit DEF NetInit, CopyInv, DaemonKeeps
<1>2. NetTypeOK /\ CopyInv /\ [NetNext]_netVars => NetTypeOK' /\ CopyInv'
  BY TypeStep, CopyStep
<1>3. CopyInv => A
  BY DEF CopyInv, DaemonKeeps, KeepsRequest, KeepsLinks, save_write, client_save_write, Written
<1>4. CopyInv /\ [NetNext]_netVars => [A]_netVars BY <1>3
<1>5. QED BY <1>1, <1>2, <1>4, PTL DEF NetSpec, LostOnlyByOverlap

-----------------------------------------------------------------------------
(* Announcing.  At each place of the turn the record and the flag agree    *)
(* with each other so far as they have been looked at - as long as there   *)
(* are descriptors: with the last one gone, wifi_up takes the status of    *)
(* wifi back, but then nothing is saved either.  A daemon that waits is    *)
(* already at the place where it will go on, and so is its helper.         *)

Down(n) == n.iStatus_Wire = 0 /\ n.iStatus_Wireless = 0
Up(n) == n.iStatus_Wire = 1 \/ n.iStatus_Wireless = 1

AtPlace(p, n, f) ==
  /\ p = "fifo" => Down(n) /\ f = 0
  /\ p = "wire_up" => ~Down(n)
  /\ p \in {"wire_status", "wire_gateway"} => n.iStatus_Wire = 1 /\ f = 1
  /\ p = "wifi_up" => ~Down(n) /\ (n.iStatus_Wire = 1 => f = 1)
  /\ p = "wifi_tell" => n.iStatus_Wireless = 1
  /\ p \in {"wifi_status", "wifi_gateway"} => n.iStatus_Wireless = 1 /\ f = 1
  /\ p \in {"save", "write"} => (Down(n) => f = 0) /\ (Up(n) => f = 1)

Announces(x) == x.left > 0 \/ x.pc = "write" => AtPlace(x.pc, x.net, x.flag)

AnnounceInv == \A d \in Daemons : Announces(st[d])

LEMMA AnnounceInit == NetInit => AnnounceInv
BY DEF NetInit, AnnounceInv, Announces, Begun, Gone, AtPlace, Down, Up, Zero

\* Only the daemon that makes the step changes.
LEMMA AnnounceSame ==
  ASSUME NetTypeOK, AnnounceInv, NEW d \in Daemons, NEW x, Becomes(d, x), Announces(x)
  PROVE  AnnounceInv'
BY DEF Becomes, AnnounceInv, NetTypeOK

LEMMA AnnounceGone == Announces(Gone)
BY DEF Announces, AtPlace, Gone

LEMMA AnnounceFollows ==
  ASSUME NEW x \in Process, NEW y, Announces(x), Follows(x, y) PROVE Announces(y)
BY PlacesAre DEF Follows, Announces, AtPlace, Down, Up

\* Places at which nothing is asked.
LEMMA AnnounceFree ==
  ASSUME NEW x, x.pc \in {"top", "wire", "wifi", "scan", "links"} PROVE Announces(x)
BY DEF Announces, AtPlace

LEMMA AnnounceStatus ==
  ASSUME NetTypeOK, AnnounceInv, NEW d \in Daemons, Get_Net_Status(d) PROVE AnnounceInv'
<1>1. st[d] \in Process BY DEF NetTypeOK
<1>2. \A z \in Opened(st[d]) : z \in Process BY <1>1, OpenedLike DEF Like
<1>3. \E x : Becomes(d, x) /\ x.pc \in {"wifi", "scan"}
  <2>1. CASE no_wire(d)
    <3>1. Becomes(d, [st[d] EXCEPT !.pc = "wifi"]) BY <2>1 DEF no_wire, Goto
    <3>2. [st[d] EXCEPT !.pc = "wifi"].pc = "wifi" BY <1>1 DEF Process
    <3>3. QED BY <3>1, <3>2
  <2>2. CASE wire_answers(d)
    <3>1. Becomes(d, [st[d] EXCEPT !.pc = "wifi", !.net = WireUp(@)]) BY <2>2 DEF wire_answers
    <3>2. [st[d] EXCEPT !.pc = "wifi", !.net = WireUp(@)].pc = "wifi" BY <1>1 DEF Process
    <3>3. QED BY <3>1, <3>2
  <2>3. CASE wire_silent(d)
    <3>1. Becomes(d, [st[d] EXCEPT !.pc = "wifi", !.net = Zero, !.wiped = TRUE]) BY <2>3 DEF wire_silent
    <3>2. [st[d] EXCEPT !.pc = "wifi", !.net = Zero, !.wiped = TRUE].pc = "wifi" BY <1>1 DEF Process
    <3>3. QED BY <3>1, <3>2
  <2>4. CASE wifi_unknown(d)
    <3>1. Becomes(d, [st[d] EXCEPT !.pc = "scan", !.net.iStatus_Wireless = 0]) BY <2>4 DEF wifi_unknown
    <3>2. [st[d] EXCEPT !.pc = "scan", !.net.iStatus_Wireless = 0].pc = "scan" BY <1>1 DEF Process
    <3>3. QED BY <3>1, <3>2
  <2>5. CASE wifi_connected(d)
    <3>1. PICK z \in Opened(st[d]) :
            Becomes(d, [z EXCEPT !.pc = "scan", !.net.iStatus_Wireless = 1])
      BY <2>5 DEF wifi_connected
    <3>2. [z EXCEPT !.pc = "scan", !.net.iStatus_Wireless = 1].pc = "scan"
      BY <1>2 DEF Process
    <3>3. QED BY <3>1, <3>2
  <2>6. CASE wifi_disconnected(d)
    <3>1. PICK z \in Opened(st[d]) :
            Becomes(d, [z EXCEPT !.pc = "scan", !.net = WifiLost(@), !.wiped = TRUE])
      BY <2>6 DEF wifi_disconnected
    <3>2. [z EXCEPT !.pc = "scan", !.net = WifiLost(@), !.wiped = TRUE].pc = "scan"
      BY <1>2 DEF Process
    <3>3. QED BY <3>1, <3>2
  <2>7. CASE wifi_other(d)
    <3>1. Becomes(d, [st[d] EXCEPT !.pc = "scan"]) BY <2>7 DEF wifi_other, Goto
    <3>2. [st[d] EXCEPT !.pc = "scan"].pc = "scan" BY <1>1 DEF Process
    <3>3. QED BY <3>1, <3>2
  <2>8. QED BY <2>1, <2>2, <2>3, <2>4, <2>5, <2>6, <2>7 DEF Get_Net_Status
<1>4. QED BY <1>3, AnnounceFree, AnnounceSame

\* The player is told, or the daemon ends, or the flag was right.
LEMMA TellUp ==
  ASSUME NetTypeOK, NEW d \in Daemons, NEW next \in Places,
         \/ st[d].flag # 1 /\ Tell(d, TRUE, next)
         \/ st[d].flag = 1 /\ Keep(d, next)
  PROVE  \/ Becomes(d, Gone)
         \/ \E y \in Process :
              /\ Becomes(d, y) /\ y.pc = next /\ y.net = st[d].net
              /\ y.flag = 1 /\ (y.left > 0 => st[d].left > 0)
<1> DEFINE f == 1
<1>1. f \in 0..1 /\ st[d] \in Process BY DEF NetTypeOK
<1>2. CASE Tell(d, TRUE, next) /\ ~Exits(d)
  <2>1. PICK x \in Opened(st[d]) \cup OpenedTwo(st[d]) :
          Becomes(d, [x EXCEPT !.pc = next, !.flag = f])
    BY <1>2 DEF Tell
  <2>2. Like(st[d], x) BY <1>1, OpenedLike
  <2> DEFINE y == [x EXCEPT !.pc = next, !.flag = f]
  <2> HIDE DEF f
  <2>3. y \in Process /\ y.pc = next /\ y.flag = f /\ y.net = x.net /\ y.left = x.left
    BY <1>1, <2>2 DEF Like, Process
  <2>4. Becomes(d, y) BY <2>1
  <2> HIDE DEF y
  <2>5. QED BY <2>2, <2>3, <2>4 DEF Like, f
<1>3. CASE st[d].flag = f /\ Keep(d, next)
  <2> DEFINE y == [st[d] EXCEPT !.pc = next]
  <2>1. Becomes(d, y) BY <1>3 DEF Keep, Goto
  <2> HIDE DEF f
  <2>2. y \in Process /\ y.pc = next /\ y.flag = f /\ y.net = st[d].net /\ y.left = st[d].left
    BY <1>1, <1>3 DEF Process
  <2> HIDE DEF y
  <2>3. QED BY <2>1, <2>2 DEF f
<1>4. QED BY <1>2, <1>3 DEF Tell, Exits

LEMMA TellDown ==
  ASSUME NetTypeOK, NEW d \in Daemons, NEW next \in Places,
         \/ st[d].flag # 0 /\ Tell(d, FALSE, next)
         \/ st[d].flag = 0 /\ Keep(d, next)
  PROVE  \/ Becomes(d, Gone)
         \/ \E y \in Process :
              /\ Becomes(d, y) /\ y.pc = next /\ y.net = st[d].net
              /\ y.flag = 0 /\ (y.left > 0 => st[d].left > 0)
<1> DEFINE f == 0
<1>1. f \in 0..1 /\ st[d] \in Process BY DEF NetTypeOK
<1>2. CASE Tell(d, FALSE, next) /\ ~Exits(d)
  <2>1. PICK x \in Opened(st[d]) \cup OpenedTwo(st[d]) :
          Becomes(d, [x EXCEPT !.pc = next, !.flag = f])
    BY <1>2 DEF Tell
  <2>2. Like(st[d], x) BY <1>1, OpenedLike
  <2> DEFINE y == [x EXCEPT !.pc = next, !.flag = f]
  <2> HIDE DEF f
  <2>3. y \in Process /\ y.pc = next /\ y.flag = f /\ y.net = x.net /\ y.left = x.left
    BY <1>1, <2>2 DEF Like, Process
  <2>4. Becomes(d, y) BY <2>1
  <2> HIDE DEF y
  <2>5. QED BY <2>2, <2>3, <2>4 DEF Like, f
<1>3. CASE st[d].flag = f /\ Keep(d, next)
  <2> DEFINE y == [st[d] EXCEPT !.pc = next]
  <2>1. Becomes(d, y) BY <1>3 DEF Keep, Goto
  <2> HIDE DEF f
  <2>2. y \in Process /\ y.pc = next /\ y.flag = f /\ y.net = st[d].net /\ y.left = st[d].left
    BY <1>1, <1>3 DEF Process
  <2> HIDE DEF y
  <2>3. QED BY <2>1, <2>2 DEF f
<1>4. QED BY <1>2, <1>3 DEF Tell, Exits

LEMMA AnnounceLinks ==
  ASSUME NetTypeOK, AnnounceInv, NEW d \in Daemons,
         link_down(d) \/ wire_up(d) \/ wifi_tell(d)
  PROVE  AnnounceInv'
<1>1. st[d] \in Process /\ Announces(st[d]) BY DEF NetTypeOK, AnnounceInv
<1>2. ASSUME Becomes(d, Gone) PROVE AnnounceInv' BY <1>2, AnnounceGone, AnnounceSame
<1>3. CASE link_down(d)
  <2>1. st[d].flag = 0 \/ (st[d].flag = 1 /\ st[d].flag # 0) BY <1>1 DEF Process
  <2>2. \/ st[d].flag # 0 /\ Tell(d, FALSE, "fifo")
        \/ st[d].flag = 0 /\ Keep(d, "fifo")
    <3>1. st[d].flag = 0 => st[d].flag # 1 OBVIOUS
    <3>2. QED BY <1>3, <2>1, <3>1, Zenon DEF link_down
  <2>3. Down(st[d].net) BY <1>3 DEF link_down, LinkDown, Down
  <2>4. CASE \E y \in Process : Becomes(d, y) /\ y.pc = "fifo" /\ y.net = st[d].net /\ y.flag = 0
    <3>1. PICK y \in Process : Becomes(d, y) /\ y.pc = "fifo" /\ y.net = st[d].net /\ y.flag = 0
      BY <2>4
    <3>2. Announces(y) BY <2>3, <3>1 DEF Announces, AtPlace
    <3>3. QED BY <3>1, <3>2, AnnounceSame
  <2>5. "fifo" \in Places BY PlacesAre
  <2>6. \/ Becomes(d, Gone)
        \/ \E y \in Process :
             /\ Becomes(d, y) /\ y.pc = "fifo" /\ y.net = st[d].net
             /\ y.flag = 0 /\ (y.left > 0 => st[d].left > 0)
    BY <2>2, <2>5, TellDown
  <2>7. QED BY <1>2, <2>4, <2>6
<1>4. CASE wire_up(d)
  <2>1. st[d].left > 0 => ~Down(st[d].net) BY <1>1, <1>4 DEF wire_up, At, Announces, AtPlace
  <2>2. CASE st[d].net.iStatus_Wire = 1
    <3>1. \/ st[d].flag # 1 /\ Tell(d, TRUE, "wire_status")
          \/ st[d].flag = 1 /\ Keep(d, "wire_status")
      <4>1. st[d].flag = 1 \/ (st[d].flag = 0 /\ st[d].flag # 1) BY <1>1 DEF Process
      <4>2. st[d].flag = 1 => st[d].flag # 0 OBVIOUS
      <4>3. QED BY <1>4, <2>2, <4>1, <4>2, Zenon DEF wire_up
    <3>2. CASE \E y \in Process : Becomes(d, y) /\ y.pc = "wire_status"
                                  /\ y.net = st[d].net /\ y.flag = 1
      <4>1. PICK y \in Process : Becomes(d, y) /\ y.pc = "wire_status"
                                 /\ y.net = st[d].net /\ y.flag = 1
        BY <3>2
      <4>2. Announces(y) BY <2>2, <4>1 DEF Announces, AtPlace
      <4>3. QED BY <4>1, <4>2, AnnounceSame
    <3>3. "wire_status" \in Places BY PlacesAre
    <3>4. \/ Becomes(d, Gone)
          \/ \E y \in Process :
               /\ Becomes(d, y) /\ y.pc = "wire_status" /\ y.net = st[d].net
               /\ y.flag = 1 /\ (y.left > 0 => st[d].left > 0)
      BY <3>1, <3>3, TellUp
    <3>5. QED BY <1>2, <3>2, <3>4
  <2>3. CASE st[d].net.iStatus_Wire # 1
    <3> DEFINE y == [st[d] EXCEPT !.pc = "wifi_up"]
    <3>1. Becomes(d, y) BY <1>4, <2>3 DEF wire_up, Keep, Goto
    <3>2. /\ y.pc = "wifi_up" /\ y.net = st[d].net /\ y.flag = st[d].flag
          /\ y.left = st[d].left
      BY <1>1 DEF Process
    <3>3. Announces(y) BY <2>1, <2>3, <3>2 DEF Announces, AtPlace
    <3>4. QED BY <3>1, <3>3, AnnounceSame
  <2>4. QED BY <2>2, <2>3
<1>5. CASE wifi_tell(d)
  <2>1. \/ st[d].flag # 1 /\ Tell(d, TRUE, "wifi_status")
        \/ st[d].flag = 1 /\ Keep(d, "wifi_status")
    <3>1. st[d].flag = 1 \/ (st[d].flag = 0 /\ st[d].flag # 1) BY <1>1 DEF Process
    <3>2. st[d].flag = 1 => st[d].flag # 0 OBVIOUS
    <3>3. QED BY <1>5, <3>1, <3>2, Zenon DEF wifi_tell
  <2>2. st[d].left > 0 => st[d].net.iStatus_Wireless = 1
    BY <1>1, <1>5 DEF wifi_tell, At, Announces, AtPlace
  <2>3. ASSUME NEW y \in Process, Becomes(d, y), y.pc = "wifi_status", y.net = st[d].net,
               y.flag = 1, y.left > 0 => st[d].left > 0
        PROVE  AnnounceInv'
    <3>1. Announces(y) BY <2>2, <2>3 DEF Announces, AtPlace
    <3>2. QED BY <2>3, <3>1, AnnounceSame
  <2>4. "wifi_status" \in Places BY PlacesAre
  <2>5. \/ Becomes(d, Gone)
        \/ \E y \in Process :
             /\ Becomes(d, y) /\ y.pc = "wifi_status" /\ y.net = st[d].net
             /\ y.flag = 1 /\ (y.left > 0 => st[d].left > 0)
    BY <2>1, <2>4, TellUp
  <2>6. QED BY <1>2, <2>3, <2>5
<1>6. QED BY <1>3, <1>4, <1>5

LEMMA AnnounceGoto ==
  ASSUME NetTypeOK, AnnounceInv, NEW d \in Daemons,
         no_link_down(d) \/ no_fifo(d) \/ wifi_up(d) \/ no_pipe(d)
  PROVE  AnnounceInv'
<1>1. st[d] \in Process /\ Announces(st[d]) BY DEF NetTypeOK, AnnounceInv
<1>2. ASSUME NEW p \in Places, Goto(d, p), st[d].left > 0 \/ p = "write" => AtPlace(p, st[d].net, st[d].flag)
      PROVE  AnnounceInv'
  <2> DEFINE y == [st[d] EXCEPT !.pc = p]
  <2>1. y.pc = p /\ y.net = st[d].net /\ y.flag = st[d].flag /\ y.left = st[d].left
    BY <1>1 DEF Process
  <2>2. Announces(y) BY <1>2, <2>1 DEF Announces
  <2>3. QED BY <1>2, <2>2, AnnounceSame DEF Goto
<1>3. CASE no_link_down(d)
  BY <1>2, <1>3, PlacesAre DEF no_link_down, LinkDown, AtPlace, Down
<1>4. CASE no_fifo(d) BY <1>2, <1>4, PlacesAre DEF no_fifo, AtPlace
<1>5. CASE no_pipe(d)
  <2>1. /\ Goto(d, AfterProbe[st[d].pc]) /\ AfterProbe[st[d].pc] \in Places \ {"write"}
        /\ st[d].pc \in DOMAIN AfterProbe
    BY <1>5, PlacesAre DEF no_pipe, AtProbe, AfterRead
  <2>2. st[d].left > 0 => AtPlace(st[d].pc, st[d].net, st[d].flag)
    BY <1>1 DEF Announces
  <2>3. st[d].left > 0 => AtPlace(AfterProbe[st[d].pc], st[d].net, st[d].flag)
    BY <2>1, <2>2, PlacesAre DEF AtPlace, Down, Up
  <2>4. QED BY <1>2, <2>1, <2>3
<1>6. CASE wifi_up(d)
  <2>1. st[d].left > 0 => /\ ~Down(st[d].net)
                          /\ st[d].net.iStatus_Wire = 1 => st[d].flag = 1
    BY <1>1, <1>6 DEF wifi_up, At, Announces, AtPlace
  <2>2. CASE st[d].net.iStatus_Wireless # 1
    <3>1. Goto(d, "save") BY <1>6, <2>2 DEF wifi_up
    <3>2. st[d].left > 0 => AtPlace("save", st[d].net, st[d].flag)
      BY <2>1, <2>2 DEF AtPlace, Up
    <3>3. QED BY <1>2, <3>1, <3>2, PlacesAre
  <2>3. CASE st[d].net.iStatus_Wireless = 1 /\ st[d].left = 0
    <3> DEFINE y == [st[d] EXCEPT !.pc = "wifi_tell", !.net.iStatus_Wireless = 0]
    <3>1. Becomes(d, y) BY <1>6, <2>3 DEF wifi_up
    <3>2. y.pc = "wifi_tell" /\ y.left = 0 BY <1>1, <2>3 DEF Process
    <3>3. Announces(y) BY <3>2 DEF Announces
    <3>4. QED BY <3>1, <3>3, AnnounceSame
  <2>4. CASE st[d].net.iStatus_Wireless = 1 /\ st[d].left # 0
    <3>1. PICK x \in Opened(st[d]) : Becomes(d, [x EXCEPT !.pc = "wifi_tell"])
      BY <1>6, <2>4 DEF wifi_up
    <3>2. Like(st[d], x) BY <1>1, OpenedLike
    <3> DEFINE y == [x EXCEPT !.pc = "wifi_tell"]
    <3>3. y.pc = "wifi_tell" /\ y.net = st[d].net BY <3>2 DEF Like, Process
    <3>4. Announces(y) BY <2>4, <3>3 DEF Announces, AtPlace
    <3>5. QED BY <3>1, <3>4, AnnounceSame
  <2>5. QED BY <2>2, <2>3, <2>4
<1>7. QED BY <1>3, <1>4, <1>5, <1>6

LEMMA AnnounceFifo ==
  ASSUME NetTypeOK, AnnounceInv, NEW d \in Daemons, fifo_command(d) PROVE AnnounceInv'
<1>1. st[d] \in Process /\ Announces(st[d]) BY DEF NetTypeOK, AnnounceInv
<1>2. Down(st[d].net) /\ st[d].flag = 0
  BY <1>1 DEF fifo_command, At, Announces, AtPlace, Process
<1>3. CASE Exits(d) BY <1>3, AnnounceGone, AnnounceSame DEF Exits
<1>4. CASE ~Exits(d)
  <2>1. PICK x \in Opened(st[d]) \cup OpenedTwo(st[d]), n \in Commanded(st[d].net) :
          Becomes(d, [x EXCEPT !.pc = "save", !.net = n])
    BY <1>4 DEF fifo_command
  <2>2. Like(st[d], x) BY <1>1, OpenedLike
  <2>3. Down(n) BY <1>1, <1>2, <2>1 DEF Commanded, Down, Process, N_Info_t
  <2> DEFINE y == [x EXCEPT !.pc = "save", !.net = n]
  <2>4. y.pc = "save" /\ y.net = n /\ y.flag = 0 BY <1>2, <2>2 DEF Like, Process
  <2>5. Announces(y) BY <2>3, <2>4 DEF Announces, AtPlace, Down, Up
  <2>6. QED BY <2>1, <2>5, AnnounceSame
<1>5. QED BY <1>3, <1>4

LEMMA AnnounceHelper ==
  ASSUME NetTypeOK, AnnounceInv, NEW d \in Daemons, helper_prints(d) \/ helper_replaces(d)
  PROVE  AnnounceInv'
<1>1. st[d] \in Process /\ Announces(st[d]) BY DEF NetTypeOK, AnnounceInv
<1>2. AtProbe(d) /\ st[d].left = 2 BY DEF helper_prints, helper_replaces
<1>3. AfterRead(d) \in Places BY <1>2, PlacesAre DEF AtProbe, AfterRead
<1>4. CASE helper_prints(d)
  <2>1. PICK x \in Opened(st[d]) \cup OpenedTwo(st[d]) :
          Becomes(d, [x EXCEPT !.pc = AfterRead(d)])
    BY <1>4 DEF helper_prints
  <2>2. Like(st[d], x) BY <1>1, OpenedLike
  <2>3. Follows(st[d], [x EXCEPT !.pc = AfterRead(d)])
    BY <1>2, <1>3, <2>2 DEF Like, Follows, AtProbe, AfterRead, Process
  <2>4. QED BY <1>1, <2>1, <2>3, AnnounceFollows, AnnounceSame
<1>5. CASE helper_replaces(d)
  <2>1. PICK w \in Helpers(d) : Becomes(d, [w EXCEPT !.holds = st[d].holds])
    BY <1>5 DEF helper_replaces
  <2>2. st[d].holds \in SUBSET Daemons BY <1>1 DEF Process
  <2>3. w \in Process /\ Follows(st[d], w)
    BY <1>2, <2>1, HelperIs DEF Follows, AtProbe, AfterRead
  <2>4. Follows(st[d], [w EXCEPT !.holds = st[d].holds])
    BY <2>2, <2>3 DEF Follows, Process
  <2>5. QED BY <1>1, <2>1, <2>4, AnnounceFollows, AnnounceSame
<1>6. QED BY <1>4, <1>5

LEMMA AnnounceDaemon ==
  ASSUME NetTypeOK, AnnounceInv, NEW d \in Daemons, daemon(d) PROVE AnnounceInv'
<1>1. st[d] \in Process /\ Announces(st[d]) BY DEF NetTypeOK, AnnounceInv
<1>2. CASE read_net_info(d)
  <2>1. PICK r \in AtTop(d) :
          Becomes(d, [st[d] EXCEPT !.pc = "wire", !.net = r, !.wiped = FALSE])
    BY <1>2 DEF read_net_info
  <2> DEFINE y == [st[d] EXCEPT !.pc = "wire", !.net = r, !.wiped = FALSE]
  <2>2. y.pc = "wire" /\ Becomes(d, y) BY <1>1, <2>1 DEF Process
  <2> HIDE DEF y
  <2>3. QED BY <2>2, AnnounceFree, AnnounceSame
<1>3. CASE helper_goes_on(d)
  <2>1. PICK h \in Free : /\ Follows(st[d], st'[d]) /\ Follows(st[d], st'[h])
                          /\ \A e \in Daemons \ {d, h} : st'[e] = st[e]
    BY <1>3, ForkIs
  <2>2. Announces(st'[d]) /\ Announces(st'[h]) BY <1>1, <2>1, AnnounceFollows
  <2>3. QED BY <2>1, <2>2 DEF AnnounceInv
<1>4. CASE resume(d)
  <2>1. Wakes(d) BY <1>4, Wake
  <2>2. ASSUME NEW e \in Daemons PROVE Announces(st'[e])
    <3>1. st[e] \in Process /\ Announces(st[e]) BY DEF NetTypeOK, AnnounceInv
    <3>2. CASE Stays(st[e], st'[e]) BY <3>1, <3>2 DEF Stays, Announces
    <3>3. CASE st'[e] = Gone BY <3>3, AnnounceGone
    <3>4. CASE Follows(st[e], st'[e]) BY <3>1, <3>4, AnnounceFollows
    <3>5. QED BY <2>1, <3>2, <3>3, <3>4 DEF Wakes, AfterWake
  <2>3. QED BY <2>2 DEF AnnounceInv
<1>5. CASE save_open(d)
  <2> DEFINE y(p) == [st[d] EXCEPT !.pc = p]
  <2>1. \A p \in Places : /\ y(p).pc = p /\ y(p).net = st[d].net
                          /\ y(p).flag = st[d].flag /\ y(p).left = st[d].left
    BY <1>1 DEF Process
  <2>2. CASE st[d].left = 0
    <3> DEFINE z == y("top")
    <3>1. Becomes(d, z) BY <1>5, <2>2 DEF save_open, Goto
    <3>2. z.pc = "top" BY <2>1, PlacesAre
    <3> HIDE DEF z
    <3>3. QED BY <3>1, <3>2, AnnounceFree, AnnounceSame
  <2>3. CASE st[d].left # 0
    <3>1. Becomes(d, y("write")) BY <1>5, <2>3 DEF save_open, Goto
    <3>2. st[d].left > 0 BY <1>1, <2>3 DEF Process
    <3>3. AtPlace("save", st[d].net, st[d].flag)
      BY <1>1, <1>5, <3>2 DEF save_open, At, Announces
    <3>4. AtPlace("write", st[d].net, st[d].flag) BY <3>3 DEF AtPlace
    <3>5. /\ y("write").pc = "write" /\ y("write").net = st[d].net
          /\ y("write").flag = st[d].flag
      BY <2>1, PlacesAre
    <3>6. Announces(y("write")) BY <3>4, <3>5 DEF Announces
    <3>7. QED BY <3>1, <3>6, AnnounceSame
  <2>4. QED BY <2>2, <2>3
<1>6. CASE save_write(d)
  <2> DEFINE y == [st[d] EXCEPT !.pc = "top", !.wiped = FALSE]
  <2>1. y.pc = "top" /\ Becomes(d, y) BY <1>1, <1>6 DEF save_write, Process
  <2> HIDE DEF y
  <2>2. QED BY <2>1, AnnounceFree, AnnounceSame
<1>7. QED
  BY <1>2, <1>3, <1>4, <1>5, <1>6, AnnounceStatus, AnnounceLinks, AnnounceGoto, AnnounceFifo,
     AnnounceHelper
  DEF daemon, probe

LEMMA AnnounceStep ==
  ASSUME NetTypeOK, AnnounceInv, [NetNext]_netVars PROVE AnnounceInv'
<1>1. ASSUME NEW d \in Daemons, daemon(d) PROVE AnnounceInv' BY <1>1, AnnounceDaemon
<1>2. CASE (\E c \in Clients : client_read(c) \/ client_saves(c)) \/ UNCHANGED netVars
  <2>1. UNCHANGED st
    BY <1>2 DEF client_read, client_saves, client_save_open, client_save_write,
      netVars, daemonVars
  <2>2. QED BY <2>1 DEF AnnounceInv
<1>3. QED BY <1>1, <1>2 DEF NetNext, Ended

\* What a daemon writes into the shared file agrees with what it announced.
THEOREM NetAnnouncedIsSaved == NetSpec => []AnnouncedIsSaved
<1>1. NetInit => NetTypeOK /\ AnnounceInv BY TypeInit, AnnounceInit
<1>2. NetTypeOK /\ AnnounceInv /\ [NetNext]_netVars => NetTypeOK' /\ AnnounceInv'
  BY TypeStep, AnnounceStep
<1>3. AnnounceInv => AnnouncedIsSaved
  BY DEF AnnounceInv, Announces, AnnouncedIsSaved, At, AtPlace, Down, Up
<1>4. QED BY <1>1, <1>2, <1>3, PTL DEF NetSpec

-----------------------------------------------------------------------------
(* Telling.  Until a daemon is woken there is one that runs, and what the  *)
(* player was told is what its flag says: a helper that stays has its      *)
(* parent's flag, and its parent waits.                                    *)

Runs(d) == st[d].pc # "gone" /\ ~Waits(d)

TellInv ==
  ~resumed => \A d \in Daemons : Runs(d) =>
                /\ told <=> st[d].flag = 1
                /\ \A e \in Daemons : Runs(e) => e = d

LEMMA TellSame ==
  ASSUME NetTypeOK, TellInv, NEW d \in Daemons, Runs(d),
         \A e \in Daemons \ {d} : st'[e] = st[e], UNCHANGED resumed,
         st'[d] = Gone \/ (told' <=> st'[d].flag = 1)
  PROVE  TellInv'
<1>1. \A e \in Daemons \ {d} : Runs(e)' => Runs(e) BY DEF Runs, Waits
<1>2. st'[d] = Gone => ~Runs(d)' BY DEF Runs, Gone
<1>3. QED BY <1>1, <1>2 DEF TellInv

LEMMA TellDaemon ==
  ASSUME NetTypeOK, TellInv, NEW d \in Daemons, daemon(d) PROVE TellInv'
<1>1. CASE QuietStep(d)
  <2>1. Quietly(d) BY <1>1, Quiet
  <2>2. /\ Runs(d) /\ UNCHANGED resumed
        /\ \A e \in Daemons \ {d} : st'[e] = st[e]
    BY <2>1 DEF Quietly, Runs, NetTypeOK
  <2>3. CASE resumed BY <2>2, <2>3 DEF TellInv
  <2>4. CASE ~resumed
    <3>1. told <=> st[d].flag = 1 BY <2>2, <2>4 DEF TellInv
    <3>2. st'[d] = Gone \/ (told' <=> st'[d].flag = 1)
      BY <2>1, <3>1 DEF Quietly, GoesOn, Ends, Tells
    <3>3. QED BY <2>2, <3>2, TellSame
  <2>5. QED BY <2>3, <2>4
<1>2. CASE read_net_info(d) \/ save_open(d) \/ save_write(d)
  <2>1. PICK x : Becomes(d, x) /\ x.flag = st[d].flag
    <3>1. st[d] \in Process BY DEF NetTypeOK
    <3>2. CASE read_net_info(d)
      <4>1. \A r : [st[d] EXCEPT !.pc = "wire", !.net = r, !.wiped = FALSE].flag = st[d].flag
        BY <3>1 DEF Process
      <4>2. QED BY <3>2, <4>1 DEF read_net_info
    <3>3. CASE save_open(d)
      <4>1. \A p : [st[d] EXCEPT !.pc = p].flag = st[d].flag BY <3>1 DEF Process
      <4>2. QED BY <3>3, <4>1 DEF save_open, Goto
    <3>4. CASE save_write(d)
      <4>1. [st[d] EXCEPT !.pc = "top", !.wiped = FALSE].flag = st[d].flag
        BY <3>1 DEF Process
      <4>2. QED BY <3>4, <4>1 DEF save_write
    <3>5. QED BY <1>2, <3>2, <3>3, <3>4
  <2>2. /\ Runs(d) /\ UNCHANGED <<told, resumed>>
    BY <1>2 DEF read_net_info, save_open, save_write, At, Runs, UnchangedTold
  <2>3. st'[d] = x /\ \A e \in Daemons \ {d} : st'[e] = st[e]
    BY <2>1 DEF Becomes, NetTypeOK
  <2>4. CASE resumed BY <2>2, <2>4 DEF TellInv
  <2>5. CASE ~resumed
    <3>1. told <=> st[d].flag = 1 BY <2>2, <2>5 DEF TellInv
    <3>2. QED BY <2>1, <2>2, <2>3, <3>1, TellSame
  <2>6. QED BY <2>4, <2>5
<1>3. CASE helper_goes_on(d)
  <2>1. PICK h \in Free :
          /\ h # d /\ ~Waits(d) /\ Follows(st[d], st'[d]) /\ Follows(st[d], st'[h])
          /\ st'[d].child = h
          /\ \A e \in Daemons \ {d, h} : st'[e] = st[e]
    BY <1>3, ForkIs
  <2>2. UNCHANGED <<told, resumed>> BY <1>3 DEF helper_goes_on, UnchangedTold
  <2>3. Runs(d) BY <2>1, PlacesAre DEF Runs, Follows
  <2>4. ~Runs(d)' BY <2>1, NetAssumption DEF Runs, Waits, Free
  <2>5. st'[h].flag = st[d].flag BY <2>1 DEF Follows
  <2>6. \A e \in Daemons \ {d, h} : Runs(e)' => Runs(e) BY <2>1 DEF Runs, Waits
  <2>7. QED BY <2>2, <2>3, <2>4, <2>5, <2>6 DEF TellInv
<1>4. CASE resume(d) BY <1>4, Wake DEF Wakes, TellInv
<1>5. QED BY <1>1, <1>2, <1>3, <1>4 DEF daemon, QuietStep, probe

LEMMA TellStep == ASSUME NetTypeOK, TellInv, [NetNext]_netVars PROVE TellInv'
<1>1. ASSUME NEW d \in Daemons, daemon(d) PROVE TellInv' BY <1>1, TellDaemon
<1>2. CASE (\E c \in Clients : client_read(c) \/ client_saves(c)) \/ UNCHANGED netVars
  BY <1>2 DEF client_read, client_saves, client_save_open, client_save_write,
    netVars, daemonVars, TellInv, Runs, Waits
<1>3. QED BY <1>1, <1>2 DEF NetNext, Ended

LEMMA TellInit == NetInit => TellInv
<1> SUFFICES ASSUME NetInit PROVE TellInv OBVIOUS
<1> DEFINE f == CHOOSE e \in Daemons : TRUE
<1>1. \A d \in Daemons : st[d] = IF d = f THEN Begun ELSE Gone BY DEF NetInit
<1> HIDE DEF f
<1>2. Gone.pc = "gone" /\ Begun.flag = 0 BY DEF Begun, Gone
<1>3. \A d \in Daemons : Runs(d) => d = f BY <1>1, <1>2 DEF Runs
<1>4. told = FALSE BY DEF NetInit
<1>5. QED BY <1>1, <1>2, <1>3, <1>4 DEF TellInv

\* Unless a daemon has come back from the wait for a helper, the player knows
\* at the end of each turn what the daemon believes.
THEOREM NetPlayerAgrees == NetSpec => []PlayerAgrees
<1>1. NetInit => NetTypeOK /\ TellInv BY TypeInit, TellInit
<1>2. NetTypeOK /\ TellInv /\ [NetNext]_netVars => NetTypeOK' /\ TellInv'
  BY TypeStep, TellStep
<1>3. TellInv => PlayerAgrees BY DEF TellInv, PlayerAgrees, Runs, At
<1>4. QED BY <1>1, <1>2, <1>3, PTL DEF NetSpec

(* What is written, what the flag says and what the player was told agree  *)
(* at the end of every turn.                                               *)
THEOREM NetPlayerIsTold == NetSpec => []PlayerIsTold
<1>1. AnnouncedIsSaved /\ PlayerAgrees => PlayerIsTold BY DEF PlayerIsTold
<1>2. QED BY <1>1, NetAnnouncedIsSaved, NetPlayerAgrees, PTL

=============================================================================
