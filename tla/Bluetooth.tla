----------------------------- MODULE Bluetooth -----------------------------
(***************************************************************************)
(* The Bluetooth module's driver (bluetooth.cpp), the remote control that  *)
(* listens to its events (remote.cpp), the motion controller reached       *)
(* through it (nmx.cpp) and the notification they share (notify.cpp).      *)
(*                                                                         *)
(* The module speaks in lines.  What it still has to say (mod.say) reaches *)
(* the firmware's input (rx) at any time; the answer to a command follows  *)
(* whatever is there already.  Every command of the firmware reads its     *)
(* answer with checkOK, which discards the lines before it, and BT::task   *)
(* reads one line per pass of the main loop.  A query of the motion        *)
(* controller waits for its value in waitEvent, which runs task itself.    *)
(***************************************************************************)
EXTENDS Integers, Sequences, FiniteSets

CONSTANTS
    Peers,              \* kinds of peers that may come: "tlp", "nmx", "gm", "other"
    Ids,                \* values a paired unit may watch
    MaxItems,           \* MAX_ITEMS_WATCHED, 15
    OwnItems,           \* items the firmware watches itself, 4
    MaxLines            \* bound: lines that wait, on either side of the wire

ASSUME PeersAssumption == Peers \subseteq {"tlp", "nmx", "gm", "other"}
ASSUME ItemsAssumption ==
    /\ MaxItems \in Nat /\ OwnItems \in 0 .. MaxItems /\ MaxLines \in Nat \ {0}
    /\ IsFiniteSet(Ids) /\ "free" \notin Ids /\ "own" \notin Ids
    /\ OwnItems + Cardinality(Ids) <= MaxItems     \* 4 + 5, of 15

VARIABLES
    rx,                 \* lines received and not read
    mod,                \* external: the module
    bt,                 \* the driver
    rem,                \* the remote control and the motors
    items,              \* Notify::watchedItems
    chk,                \* remote.connected and remote.nmx as last notified
    main,               \* where the main loop is
    hist                \* history

vars == <<rx, mod, bt, rem, items, chk, main, hist>>

States == {"SLEEP", "IDLE", "SCAN", "CONNECTED", "CONNECTED_NMX", "CONNECTED_GM",
           "CHECKING_NMX", "CHECKING_GM", "AUTHORIZING_GM"}
Connected == {"CONNECTED", "CONNECTED_NMX", "CONNECTED_GM"}
Checking == {"CHECKING_NMX", "CHECKING_GM", "AUTHORIZING_GM"}
Events == {"NULL", "DISCOVERY", "CONNECT", "DISCONNECT", "DATA", "SCAN_COMPLETE"}

\* A data packet carries what it asks for and of which value.
Asks == {"watch", "unwatch", "request", "set"}
Lines == {<<l>> : l \in {"OK", "ERROR", "DISCOVERY", "DONE", "CONNECT", "BRSP1", "BRSP0",
                         "DC_NMX", "DC_GM", "GATT_DONE", "GATT_VAL", "DISCONNECT",
                         "VERSION"}}
         \cup {<<"DATA", a, i>> : a \in Asks, i \in Ids}

TypeOK ==
    /\ rx \in Seq(Lines) /\ mod.say \in Seq(Lines)
    /\ mod.link \in Peers \cup {"none"} /\ mod.dial \in Peers \cup {"none"}
    /\ mod.adv \in BOOLEAN /\ mod.scan \in BOOLEAN /\ mod.data \in BOOLEAN
    /\ mod.asleep \in BOOLEAN
    /\ bt \in [state : States, mode : {"CMD", "DATA"}, event : Events, eventBuf : Events,
               tmp : Events, data : {<<"NULL">>} \cup (Asks \X Ids)]
    /\ rem \in [connected : BOOLEAN, nmx : BOOLEAN, motors : BOOLEAN, checked : BOOLEAN]
    /\ items \in [1 .. MaxItems -> Ids \cup {"free", "own"}]
    /\ chk \in [connected : BOOLEAN, nmx : BOOLEAN]
    /\ main.at \in {"menu", "timer", "task", "notify", "remote", "write", "read", "wait"}
    /\ main.back \in {"menu", "timer", "task", "remote"} /\ main.ask \in BOOLEAN
    /\ hist \in [eaten : BOOLEAN, dropped : BOOLEAN, refused : BOOLEAN, skipped : BOOLEAN]

\* eaten: checkOK discarded a line about the connection; dropped: a command changed
\* the state while a new peer was being examined; refused: the table was full;
\* skipped: waitEvent forgot a connection made or lost for a later event.
\* After BT::init and the sleep or advertise of setup; a module older than version 3
\* stays awake.
Init ==
    /\ rx = <<>>
    /\ \E adv, asleep \in BOOLEAN :
         /\ ~(adv /\ asleep)
         /\ mod = [link |-> "none", dial |-> "none", adv |-> adv, scan |-> FALSE,
                   data |-> FALSE, asleep |-> asleep, say |-> <<>>]
         /\ bt = [state |-> IF adv THEN "IDLE" ELSE "SLEEP", mode |-> "CMD",
                  event |-> "NULL", eventBuf |-> "NULL", tmp |-> "NULL",
                  data |-> <<"NULL">>]
    /\ rem = [connected |-> FALSE, nmx |-> FALSE, motors |-> FALSE, checked |-> FALSE]
    /\ items = [i \in 1 .. MaxItems |-> IF i <= OwnItems THEN "own" ELSE "free"]
    /\ chk = [connected |-> FALSE, nmx |-> FALSE]
    /\ main = [at |-> "menu", back |-> "menu", ask |-> FALSE]
    /\ hist = [eaten |-> FALSE, dropped |-> FALSE, refused |-> FALSE, skipped |-> FALSE]

-----------------------------------------------------------------------------
(* Commands.  The state they work on is a record; ok is what they return.  *)

Air == [rx |-> rx, mod |-> mod, bt |-> bt, hist |-> hist, ok |-> TRUE]
Put(s) == rx' = s.rx /\ mod' = s.mod /\ bt' = s.bt /\ hist' = s.hist

\* External: what the module does with a command, and what it answers.  In data mode
\* a command is data for the peer; one that sleeps is not ready (RTS), and nothing is
\* sent to it.
Announcements == {<<"CONNECT">>, <<"BRSP1">>, <<"BRSP0">>, <<"DISCONNECT">>}
Say(s, lines) == [s EXCEPT !.mod.say = @ \o lines]
Reply(s, line) == [s EXCEPT !.rx = Append(@, line)]

Module(s, cmd) ==
    LET linked == s.mod.link # "none"
        ok == Reply(s, <<"OK">>)
    IN  IF s.mod.asleep THEN s
        ELSE IF cmd = "+++" THEN [ok EXCEPT !.mod.data = FALSE]
        ELSE IF s.mod.data THEN s
        ELSE CASE cmd = "advertise" -> [ok EXCEPT !.mod.adv = ~linked]
               [] cmd = "scan" -> [ok EXCEPT !.mod.scan = TRUE]
               [] cmd = "cancel" -> [ok EXCEPT !.mod.adv = FALSE, !.mod.scan = FALSE,
                                               !.mod.dial = "none"]
               [] cmd = "cancelScan" -> [ok EXCEPT !.mod.scan = FALSE]
               [] cmd = "dataMode" /\ linked -> [ok EXCEPT !.mod.data = TRUE]
               [] cmd = "hangup" /\ linked ->
                     Say([ok EXCEPT !.mod.link = "none"], <<<<"DISCONNECT">>>>)
               [] cmd = "findNMX" /\ linked ->
                     Say(ok, IF s.mod.link = "nmx" THEN <<<<"DC_NMX">>, <<"GATT_DONE">>>>
                             ELSE <<<<"GATT_DONE">>>>)
               [] cmd = "findGM" /\ linked ->
                     Say(ok, IF s.mod.link = "gm" THEN <<<<"DC_GM">>, <<"GATT_DONE">>>>
                             ELSE <<<<"GATT_DONE">>>>)
               [] cmd = "read" /\ linked -> Say(ok, <<<<"GATT_VAL">>>>)
               [] cmd = "write" /\ linked -> ok
               [] cmd = "sleep" -> [ok EXCEPT !.mod.asleep = ~linked]
               [] cmd = "version" -> Reply(ok, <<"VERSION">>)
               [] cmd = "dial" /\ ~linked -> ok
               [] OTHER -> Reply(s, <<"ERROR">>)

\* checkOK: up to four lines are read, until one is OK.
checkOK(s) ==
    LET oks == {i \in 1 .. Len(s.rx) : i <= 4 /\ s.rx[i] = <<"OK">>}
        found == oks # {}
        n == IF found THEN CHOOSE i \in oks : \A j \in oks : i <= j
             ELSE IF Len(s.rx) < 4 THEN Len(s.rx) ELSE 4
        gone == {s.rx[i] : i \in 1 .. n}
    IN  [s EXCEPT !.rx = SubSeq(s.rx, n + 1, Len(s.rx)), !.ok = found,
                  !.hist.eaten = @ \/ gone \cap Announcements # {}
                                   \/ (s.bt.state \in Checking
                                       /\ gone \cap {<<"DC_NMX">>, <<"DC_GM">>,
                                                     <<"GATT_DONE">>} # {})]

\* cmdMode and sendCMD: the command is sent even if the module stays in data mode.
\* A module that sleeps is woken first, if the driver knows of its sleep.
sendCMD(s, cmd) ==
    LET w == IF s.bt.state = "SLEEP" /\ s.mod.asleep
             THEN [s EXCEPT !.bt.state = "IDLE", !.mod.asleep = FALSE] ELSE s
        c == checkOK(Module(w, "+++"))
        t == IF s.bt.mode # "DATA" THEN w
             ELSE IF c.ok THEN [c EXCEPT !.bt.mode = "CMD"] ELSE c
    IN  Module(t, cmd)
Command(s, cmd) == checkOK(sendCMD(s, cmd))

\* The commands that only an unconnected driver sends; a peer that is being examined
\* does not count as connected.
Unless(s, t) ==
    IF s.bt.state \in Connected THEN s
    ELSE [t EXCEPT !.hist.dropped = @ \/ (s.bt.state \in Checking
                                          /\ t.bt.state # s.bt.state)]


cancel(s) == Unless(s, checkOK([sendCMD(s, "cancel") EXCEPT !.bt.state = "IDLE"]))
cancelScan(s) == Unless(s, checkOK([sendCMD(s, "cancelScan") EXCEPT !.bt.state = "IDLE"]))
advertise(s) == Unless(s, Command(s, "advertise"))
scan(s) == Unless(s, Command([s EXCEPT !.bt.state = "SCAN"], "scan"))

\* The version is asked for, and its line read, before the module is put to sleep; one
\* that is old, or whose version could not be read, is left awake.
version(s) ==
    LET c == Command(s, "version")
    IN  IF c.rx = <<>> THEN c
        ELSE [c EXCEPT !.rx = Tail(@),
                       !.hist.eaten = @ \/ Head(c.rx) \in Announcements]
sleep(s, old) ==
    LET v == version([cancel(s) EXCEPT !.bt.state = "SLEEP"])
    IN  Unless(s, IF old THEN v ELSE Command(v, "sleep"))

connect(s, p) ==
    LET c == Command(cancel(s), "dial")
    IN  [c EXCEPT !.mod.dial = IF c.mod.link = "none" THEN p ELSE @]
disconnect(s) == Command(s, "hangup")

\* sendDATA goes back to data mode first.
sendDATA(s) ==
    LET c == checkOK(Module(s, "dataMode"))
    IN  IF s.bt.state # "CONNECTED" \/ s.bt.mode = "DATA" THEN s
        ELSE IF c.ok THEN [c EXCEPT !.bt.mode = "DATA"] ELSE c

-----------------------------------------------------------------------------
(* BT::task: one line.                                                     *)

Now(s, state, mode, event) ==
    [s EXCEPT !.bt.state = state, !.bt.mode = mode, !.bt.event = event]

\* The connection is over.
Lost(s) == [Now(s, "IDLE", "CMD", "DISCONNECT")
              EXCEPT !.hist.eaten = FALSE, !.hist.dropped = FALSE]

\* The examination of a peer: a motion controller, a gimbal, or nothing of use.
\* Fault for mutation: a peer of no use is forgotten, not disconnected.
GattDoneForgets(s) ==
    CASE s.bt.state = "CHECKING_NMX" -> sendCMD([s EXCEPT !.bt.state = "CHECKING_GM"], "findGM")
      [] s.bt.state = "CHECKING_GM" -> [s EXCEPT !.bt.state = "IDLE"]
      [] s.bt.state = "AUTHORIZING_GM" ->
            sendCMD(Now(s, "CONNECTED_GM", "CMD", "CONNECT"), "write")
      [] OTHER -> s
GattDone(s) ==
    CASE s.bt.state = "CHECKING_NMX" -> sendCMD([s EXCEPT !.bt.state = "CHECKING_GM"], "findGM")
      [] s.bt.state = "CHECKING_GM" -> disconnect([s EXCEPT !.bt.state = "CONNECTED"])
      [] s.bt.state = "AUTHORIZING_GM" ->
            sendCMD(Now(s, "CONNECTED_GM", "CMD", "CONNECT"), "write")
      [] OTHER -> s

CommandLine(s, line) ==
    LET state == s.bt.state
        l == line[1]
    IN  CASE l = "DISCOVERY" -> [s EXCEPT !.bt.event = "DISCOVERY"]
          [] l = "DONE" -> [s EXCEPT !.bt.event = "SCAN_COMPLETE"]
          [] l = "CONNECT" ->
                [(IF state = "SCAN" THEN cancelScan(s) ELSE s) EXCEPT !.bt.state = "CONNECTED"]
          [] l = "BRSP1" -> Now(s, "CONNECTED", "DATA", "CONNECT")
          [] l = "BRSP0" -> sendCMD(Now(s, "CHECKING_NMX", "CMD", "NULL"), "findNMX")
          [] l = "DC_NMX" /\ state = "CHECKING_NMX" ->
                Now(s, "CONNECTED_NMX", "CMD", "CONNECT")
          [] l = "DC_GM" /\ state = "CHECKING_GM" -> [s EXCEPT !.bt.state = "AUTHORIZING_GM"]
          [] l = "GATT_DONE" -> GattDone(s)
          [] l = "DISCONNECT" -> Lost(s)
          [] OTHER -> s

\* In data mode anything but a packet is skipped.
\* Fault for mutation: only packets count.
DataLineDeaf(s, line) ==
    IF line[1] = "DATA" THEN [s EXCEPT !.bt.event = "DATA", !.bt.data = <<line[2], line[3]>>]
    ELSE s
DataLine(s, line) ==
    CASE line[1] = "DISCONNECT" -> Lost(s)
      [] line[1] = "DATA" -> [s EXCEPT !.bt.event = "DATA", !.bt.data = <<line[2], line[3]>>]
      [] OTHER -> s

task(s) ==
    LET fresh == [s EXCEPT !.bt.event = "NULL", !.bt.data = <<"NULL">>]
        read == [fresh EXCEPT !.rx = Tail(@)]
    IN  IF s.bt.eventBuf # "NULL"
        THEN [s EXCEPT !.bt.event = s.bt.eventBuf, !.bt.eventBuf = "NULL"]
        ELSE IF s.rx = <<>> THEN fresh
        ELSE IF s.bt.mode = "CMD" THEN CommandLine(read, Head(s.rx))
        ELSE DataLine(read, Head(s.rx))

-----------------------------------------------------------------------------
(* The main loop.                                                          *)

Goto(at) == main' = [main EXCEPT !.at = at]
Return == main' = [at |-> main.back, back |-> "menu", ask |-> FALSE]

\* The screen: on entry, on leaving with RETURN, with CONNECT or DISCONNECT, and when
\* it sees an event.
ScreenOpens ==
    /\ main.at = "menu" /\ Goto("timer")
    /\ Put(IF bt.state \in Connected THEN Air ELSE scan(advertise(Air)))
    /\ UNCHANGED <<rem, items, chk>>

\* conf.btMode chooses between sleep and advertise; settings_load does the same, but
\* for a motion controller, which is kept awake.
ScreenCloses ==
    /\ main.at = "menu" /\ Goto("timer")
    /\ \/ /\ bt.state \notin Connected \/ ~rem.connected
          /\ Put(advertise(Air))
       \/ /\ bt.state \notin Connected \/ (~rem.connected /\ ~rem.nmx)
          /\ \E old \in BOOLEAN : Put(sleep(Air, old))
    /\ UNCHANGED <<rem, items, chk>>

HangUp ==
    /\ main.at = "menu" /\ bt.state \in Connected
    /\ Goto("timer")
    /\ rem' = [rem EXCEPT !.nmx = FALSE]
    /\ Put(disconnect(IF rem.nmx /\ bt.state = "CONNECTED_NMX" THEN Command(Air, "write")
                      ELSE Air))
    /\ UNCHANGED <<items, chk>>

Dial ==
    /\ main.at = "menu" /\ bt.state \notin Connected
    /\ Goto("timer")
    /\ \E p \in Peers : Put(connect(Air, p))
    /\ UNCHANGED <<rem, items, chk>>

ScreenEvent ==
    /\ main.at = "menu" /\ bt.event # "NULL"
    /\ Goto("timer")
    /\ LET s == CASE bt.event = "SCAN_COMPLETE" /\ bt.state \notin Connected ->
                        scan(advertise(Air))
                  [] bt.event = "DISCONNECT" -> scan(Air)
                  [] OTHER -> Air
       IN  Put([s EXCEPT !.bt.event = "NULL"])
    /\ UNCHANGED <<rem, items, chk>>

Pass ==
    /\ \/ main.at = "menu" /\ Goto("timer")
       \/ main.at = "timer" /\ Goto("task")
       \/ main.at = "remote" /\ bt.event \in {"NULL", "DISCOVERY", "SCAN_COMPLETE"} /\ Goto("menu")
    /\ UNCHANGED <<rx, mod, bt, rem, items, chk, hist>>

BtTask ==
    /\ main.at = "task" /\ Goto("notify")
    /\ Put(task(Air))
    /\ UNCHANGED <<rem, items, chk>>

\* A motor is moved or asked whether it runs, by a screen or by the timer.
MotorCommand ==
    /\ main.at \in {"menu", "timer"} /\ rem.motors
    /\ main' = [at |-> "write", back |-> IF main.at = "menu" THEN "timer" ELSE "task",
                ask |-> FALSE]
    /\ UNCHANGED <<rx, mod, bt, rem, items, chk, hist>>

\* sendCommandGeneral; a query goes on to read the answer.  main.ask: the query is
\* that of checkConnected, which remembers that it has asked.
QueryFails == rem' = [rem EXCEPT !.checked = @ \/ main.ask, !.motors = @ /\ ~main.ask]

Write ==
    /\ main.at = "write"
    /\ IF rem.nmx /\ bt.state = "CONNECTED_NMX"
       THEN LET s == Command(Air, "write")
            IN  /\ Put(s)
                /\ \/ s.ok /\ Goto("read") /\ rem' = rem
                   \/ (~s.ok \/ ~main.ask) /\ Return /\ QueryFails
       ELSE Put(Air) /\ Return /\ QueryFails
    /\ UNCHANGED <<items, chk>>

Read ==
    /\ main.at = "read"
    /\ LET s == Command(Air, "read")
       IN  /\ Put([s EXCEPT !.bt.tmp = "NULL"])
           /\ IF s.ok THEN Goto("wait") /\ rem' = rem
              ELSE Return /\ QueryFails
    /\ UNCHANGED <<items, chk>>

\* Fault for mutation: what happened meanwhile is not passed on.
KeepNoEvent(s, event) == [s EXCEPT !.bt.tmp = "NULL"]
KeepEvent(s, event) == [s EXCEPT !.bt.eventBuf = event, !.bt.tmp = "NULL"]

\* waitEvent: task is called until the value comes or a thousand calls are over; the
\* last event is kept for the main loop.  A thousand calls take fifty seconds: what
\* the module has to say arrives before.
Wait ==
    /\ main.at = "wait"
    /\ LET s == task(Air)
           tmp == IF s.bt.event = "NULL" THEN bt.tmp ELSE s.bt.event
           value == bt.mode = "CMD" /\ bt.eventBuf = "NULL" /\ rx # <<>>
                      /\ Head(rx) = <<"GATT_VAL">>
           over == value \/ (rx = <<>> /\ mod.say = <<>> /\ bt.eventBuf = "NULL")
           skips == tmp # bt.tmp /\ (bt.tmp = "DISCONNECT"
                                      \/ (bt.tmp = "CONNECT" /\ tmp # "DISCONNECT"))
       IN  /\ Put([(IF over THEN KeepEvent(s, tmp)
                    ELSE [s EXCEPT !.bt.tmp = tmp])
                     EXCEPT !.hist.skipped = @ \/ skips])
           /\ IF over THEN Return ELSE Goto("wait")
           /\ IF value /\ main.ask
              THEN \E m \in BOOLEAN : rem' = [rem EXCEPT !.checked = TRUE, !.motors = m]
              ELSE IF over THEN QueryFails ELSE rem' = rem
    /\ UNCHANGED <<items, chk>>

-----------------------------------------------------------------------------
(* Notify::task, message_notify and Remote::event.                         *)

\* Fault for mutation: that the motors were looked for is not forgotten.
MotorsGoneOnly(r) == [r EXCEPT !.motors = FALSE]
MotorsGone(r) == [r EXCEPT !.checked = FALSE, !.motors = FALSE]

\* The paired unit is told of a change; a lost connection is advertised again; motors
\* are looked for, or forgotten, when the motion controller comes or goes.
NotifyTask ==
    /\ main.at = "notify"
    /\ chk' = [connected |-> rem.connected, nmx |-> rem.nmx]
    /\ \E tell \in {FALSE, \E i \in DOMAIN items : items[i] \in Ids} :
         LET told == IF tell THEN sendDATA(Air) ELSE Air
         IN  Put(IF chk.connected /\ ~rem.connected THEN advertise(told) ELSE told)
    /\ LET came == rem.nmx /\ ~chk.nmx
           went == ~rem.nmx /\ chk.nmx
       IN  IF came /\ ~rem.checked /\ bt.state # "CONNECTED_GM"
           THEN /\ main' = [at |-> "write", back |-> "remote", ask |-> TRUE]
                /\ rem' = rem
           ELSE /\ Goto("remote")
                /\ rem' = IF came /\ ~rem.checked
                          THEN [rem EXCEPT !.checked = TRUE, !.motors = TRUE]
                          ELSE IF went THEN MotorsGone(rem)
                          ELSE rem
    /\ UNCHANGED items

unWatch(id) == [i \in DOMAIN items |-> IF items[i] = id THEN "free" ELSE items[i]]

Free(table) == {i \in DOMAIN table : table[i] = "free"}
\* What a value was watched for before is forgotten first.
\* Fault for mutation: a value may be watched twice.
TableAgain(id) == items
Table(id) == unWatch(id)

\* Fault for mutation: the slot after the free one is taken.
watchNext(id) ==
    LET table == Table(id)
        slot == 1 + (CHOOSE i \in Free(table) : \A j \in Free(table) : i <= j)
    IN  IF Free(table) = {} THEN table
        ELSE [i \in DOMAIN table \cup {slot} |-> IF i = slot THEN id ELSE table[i]]
watch(id) ==
    LET table == Table(id)
    IN  IF Free(table) = {} THEN table
        ELSE [table EXCEPT ![CHOOSE i \in Free(table) :
                                \A j \in Free(table) : i <= j] = id]

\* Fault for mutation: the watches stay.
WatchesStay == items
WatchesOver == [i \in DOMAIN items |-> IF items[i] \in Ids THEN "free" ELSE items[i]]

Disconnected ==
    /\ main.at = "remote" /\ bt.event = "DISCONNECT"
    /\ Goto("menu")
    /\ items' = WatchesOver
    /\ rem' = [rem EXCEPT !.connected = FALSE, !.nmx = FALSE]
    /\ hist' = [hist EXCEPT !.skipped = FALSE]
    /\ UNCHANGED <<rx, mod, bt, chk>>

NowConnected ==
    /\ main.at = "remote" /\ bt.event = "CONNECT"
    /\ Goto("menu")
    /\ IF bt.state = "CONNECTED"
       THEN rem' = [rem EXCEPT !.connected = TRUE] /\ Put(sendDATA(Air))
       ELSE /\ rem' = [rem EXCEPT !.nmx = @ \/ bt.state \in {"CONNECTED_NMX", "CONNECTED_GM"}]
            /\ Put(Air)
    /\ UNCHANGED <<items, chk>>

\* What a paired unit sets is set by the actions of Timer and CameraLink.
DataReceived ==
    /\ main.at = "remote" /\ bt.event = "DATA"
    /\ Goto("menu")
    /\ LET asks == bt.data[1]
           id == bt.data[2]
           s == IF asks = "request" THEN sendDATA(Air) ELSE Air
           full == asks = "watch" /\ Free(Table(id)) = {}
       IN  /\ Put([s EXCEPT !.bt.event = "NULL", !.hist.refused = @ \/ full])
           /\ items' = CASE asks = "watch" -> watch(id)
                         [] asks = "unwatch" -> unWatch(id)
                         [] OTHER -> items
    /\ UNCHANGED <<rem, chk>>

-----------------------------------------------------------------------------
(* External: the module and its peers.                                     *)

\* A line is held back while the firmware does not read.
Emit ==
    /\ mod.say # <<>> /\ Len(rx) < MaxLines
    /\ LET line == Head(mod.say)
       IN  /\ rx' = Append(rx, line)
           /\ mod' = [mod EXCEPT !.say = Tail(@),
                                 !.data = (@ \/ line = <<"BRSP1">>) /\ line # <<"DISCONNECT">>]
    /\ UNCHANGED <<bt, rem, items, chk, main, hist>>

Says(m, lines) ==
    /\ Len(mod.say) + Len(lines) <= MaxLines
    /\ mod' = [m EXCEPT !.say = @ \o lines]
    /\ UNCHANGED <<rx, bt, rem, items, chk, main, hist>>

\* A peer calls while the module advertises, or answers the firmware's call; one that
\* speaks the module's own protocol can be sent data.
PeerConnects ==
    \E p \in Peers :
      /\ mod.link = "none"
      /\ p = mod.dial \/ (mod.adv /\ p \in {"tlp", "other"})
      /\ Says([mod EXCEPT !.link = p, !.dial = "none", !.adv = FALSE],
              <<<<"CONNECT">>, <<IF p = "tlp" THEN "BRSP1" ELSE "BRSP0">>>>)

PeerDisconnects ==
    mod.link # "none" /\ Says([mod EXCEPT !.link = "none"], <<<<"DISCONNECT">>>>)

PeerSends ==
    /\ mod.link = "tlp" /\ mod.data /\ mod.say = <<>>
    /\ \E a \in Asks, i \in Ids : Says(mod, <<<<"DATA", a, i>>>>)

ScanFinds == mod.scan /\ mod.say = <<>> /\ Says(mod, <<<<"DISCOVERY">>>>)
ScanEnds == mod.scan /\ Says([mod EXCEPT !.scan = FALSE], <<<<"DONE">>>>)

-----------------------------------------------------------------------------

Main == \/ ScreenOpens \/ ScreenCloses \/ HangUp \/ Dial \/ ScreenEvent \/ Pass \/ BtTask
        \/ MotorCommand \/ Write \/ Read \/ Wait
        \/ NotifyTask \/ Disconnected \/ NowConnected \/ DataReceived
Radio == Emit \/ PeerConnects \/ PeerDisconnects \/ PeerSends \/ ScanFinds \/ ScanEnds

Next == Main \/ Radio

Spec == Init /\ [][Next]_vars

-----------------------------------------------------------------------------
(* Properties.                                                             *)

Waiting == {rx[i] : i \in DOMAIN rx} \cup {mod.say[i] : i \in DOMAIN mod.say}

\* The driver believes in a connection that is gone only while the line that says so
\* is on its way; otherwise checkOK has discarded it.
NoGhostLink ==
    (bt.state \in Connected \cup Checking /\ mod.link = "none"
       /\ <<"DISCONNECT">> \notin Waiting) => hist.eaten

\* A peer that is connected is known to the driver once all lines are read, unless
\* checkOK discarded one or a command was given while the peer was being examined.
NoOrphanLink ==
    (mod.link # "none" /\ Waiting = {})
        => (bt.state \in Connected \cup Checking \/ hist.eaten \/ hist.dropped)

\* What the rest of the firmware goes by, remote.connected and remote.nmx, follows
\* the driver's state, up to an event that is still to be delivered: a connection
\* that ends while a query waits for its value is passed on by eventBuf.
Undelivered == "DISCONNECT" \in {bt.eventBuf, bt.tmp}
                 \/ (main.at \in {"notify", "remote", "write", "read", "wait"}
                     /\ bt.event = "DISCONNECT")
FlagsFollow ==
    (~Undelivered /\ ~hist.eaten /\ ~hist.skipped) =>
        /\ rem.connected => bt.state = "CONNECTED"
        /\ rem.nmx => bt.state \in {"CONNECTED_NMX", "CONNECTED_GM"}

\* Motors are connected only with the motion controller, or until the notification
\* that it went.
MotorsFollow == (rem.motors \/ rem.checked) => (rem.nmx \/ chk.nmx)

\* A paired unit's watches never fill the table, however often it asks for them.
WatchesFit == ~hist.refused

\* Watches end with the connection they were asked for on, unless its loss is still to
\* be delivered, waitEvent forgot it, or checkOK discarded a line about a connection.
WatchesFollow == ((\E i \in DOMAIN items : items[i] \in Ids) /\ ~Undelivered)
                    => (rem.connected \/ hist.skipped \/ hist.eaten)
=============================================================================
