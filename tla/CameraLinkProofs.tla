-------------------------- MODULE CameraLinkProofs --------------------------
(***************************************************************************)
(* Proofs about CameraLink, for every set of cameras, of every make, and   *)
(* answers of every length.  The state is one record, so the invariant has *)
(* three parts: LinkInv relates the driver, the camera object, the         *)
(* settings and the bus at any time; BusInv says what holds while a        *)
(* transaction is on the bus; LoopInv what holds in a phase of the main    *)
(* loop.  A transaction may turn out in ten ways: Sent says what they have *)
(* in common, and every action that sends rests on it.                     *)
(***************************************************************************)
EXTENDS CameraLink, TLAPS

\* The parts of the state.
Usb == [plug : Cameras \cup {"nocable", "none"},
        host : {"off", "idle", "enum", "addressed", "configured"},
        session : BOOLEAN, shutter : BOOLEAN]
Driver == [ready : BOOLEAN, error : BOOLEAN, configured : BOOLEAN,
           remaining : 0 .. MaxChunks]
CameraObject == [ready : BOOLEAN, bulb_open : BOOLEAN, disabled : BOOLEAN,
                 protocol : Makes, bulb : BOOLEAN]
History == [hit : BOOLEAN, unseen : {"no", "may", "is"}, missed : BOOLEAN, kept : BOOLEAN,
            spoilt : BOOLEAN]
LinkState == [usb : Usb, d : Driver, cam : CameraObject, conf : Cameras \cup {"default"},
              serial : Cameras \cup {"none"}, hist : History]

\* What the main loop may have left to do, the phases enable returns to, those the
\* invariant asks nothing special of, and the states of a run.
Scripts == {<<>>, <<"cameraReady", "poll">>} \cup {<<op>> : op \in Ops}
FirstOp(script) == IF script = <<>> THEN "none" ELSE Head(script)
Backs == {"menu", "timer", "notify", "usbmode", "recovered"}
Resting == Phases \ {"delay", "wait", "last", "task", "poll", "remote"}
RunStates == {"gap", "bulb", "error", "retry"}
MainState == [at : Phases, back : Backs, todo : Scripts, clash : BOOLEAN]

\* The driver has opened the device, or the host is off.
Up(s) == s.d.configured \/ s.usb.host = "off"

\* The driver, the camera object and the settings against the bus.
LinkInv(s) ==
    /\ s.usb.host \in {"enum", "addressed", "configured"} => s.usb.plug \in Cameras
    /\ s.usb.session \/ s.usb.shutter => s.usb.host = "configured"
    /\ s.usb.session => s.d.configured
    /\ s.usb.host = "enum" => s.d.remaining = 0
    /\ s.d.remaining > 0 /\ s.usb.host = "configured" => s.usb.session
    /\ s.d.ready => Up(s)
    /\ s.d.ready /\ s.usb.session => s.serial = s.usb.plug
    /\ s.d.ready \/ s.cam.ready => s.serial \in Cameras
    /\ s.cam.disabled => ~s.cam.ready /\ ~s.d.ready /\ s.hist.unseen = "no"
    /\ s.cam.ready /\ s.usb.session /\ s.hist.unseen # "is" => s.conf = s.usb.plug
    /\ s.usb.shutter /\ ~s.hist.spoilt => s.cam.bulb_open /\ s.d.ready /\ s.cam.ready
    /\ ~s.hist.hit

\* What holds while the main loop waits for the answer to op.
BusInv(s, op, clash) ==
    /\ s.usb.session => s.d.ready \/ s.d.error \/ op = "info"
    /\ clash \/ op = "connect" => s.serial \in Cameras
    /\ op \in {"open", "info"} =>
         /\ Up(s) /\ ~s.d.ready /\ ~s.cam.disabled
         /\ s.usb.host = "configured" => s.d.remaining = 0
         /\ ~s.cam.ready \/ s.hist.unseen = "is"
    /\ op = "open" => ~s.usb.session
    /\ op = "connect" =>
         /\ Up(s) /\ ~s.cam.disabled
         /\ s.usb.session /\ s.hist.unseen # "is" => s.conf = s.usb.plug
    /\ op \in {"connect", "cameraReady", "poll", "fetch"} => ~s.cam.bulb_open
    /\ op = "start" =>
         /\ s.cam.ready /\ (s.cam.bulb_open \/ clash)
         /\ s.d.error /\ s.usb.host = "configured" => clash

\* The phases of the main loop, the notified value c and the bulb timing b.
LoopInv(s, at, op, c, b) ==
    /\ at = "delay" => op = "none"
    /\ b = "new" => at = "delay" /\ (s.cam.bulb => s.cam.bulb_open)
    /\ at = "wait" => /\ ~s.cam.ready /\ ~s.cam.disabled /\ s.hist.unseen = "no"
                      /\ op \in {"none", "open", "info"}
    /\ at = "last" => Up(s)
    /\ at = "task" /\ s.cam.ready => Up(s) \/ s.hist.unseen = "is"
    /\ s.hist.unseen = "may" => at \notin {"task", "poll", "remote", "wait"}
    /\ s.cam.ready \/ op = "connect" => c \/ s.hist.unseen # "no"

\* The inductive invariant.
CameraInv ==
    /\ Link \in LinkState /\ main \in MainState
    /\ chk \in BOOLEAN /\ mode \in {0, 1} /\ run_state \in RunStates
    /\ bulb \in {"none", "new", "running", "failed"}
    /\ LinkInv(Link)
    /\ BusInv(Link, FirstOp(main.todo), main.clash)
    /\ LoopInv(Link, main.at, FirstOp(main.todo), chk, bulb)

-----------------------------------------------------------------------------
(* Scripts.                                                                *)

\* The scripts of the main loop, and what they start with.
LEMMA ScriptFacts ==
    /\ <<>> \in Scripts /\ FirstOp(<<>>) = "none"
    /\ <<"cameraReady", "poll">> \in Scripts
    /\ FirstOp(<<"cameraReady", "poll">>) = "cameraReady"
    /\ \A op \in Ops : <<op>> \in Scripts /\ FirstOp(<<op>>) = op
<1>1. <<>> \in Scripts /\ FirstOp(<<>>) = "none"
  BY DEF Scripts, FirstOp
<1>2. <<"cameraReady", "poll">> \in Scripts
  BY DEF Scripts
<1>3. FirstOp(<<"cameraReady", "poll">>) = "cameraReady"
  BY DEF FirstOp
<1>4. \A op \in Ops : <<op>> \in Scripts /\ FirstOp(<<op>>) = op
  BY DEF Scripts, FirstOp
<1> QED
  BY <1>1, <1>2, <1>3, <1>4

\* What is left of a script after its first transaction.
LEMMA ScriptTail ==
    ASSUME NEW q \in Scripts
    PROVE  /\ q = <<>> <=> FirstOp(q) = "none"
           /\ q # <<>> => /\ Head(q) = FirstOp(q) /\ FirstOp(q) \in Ops
                          /\ \/ Tail(q) = <<>>
                             \/ Tail(q) = <<"poll">> /\ FirstOp(q) = "cameraReady"
           /\ q \in Seq(Ops) /\ Len(q) <= 3
<1>0. "none" \notin Ops /\ "poll" \in Ops /\ "cameraReady" \in Ops
  BY DEF Ops
<1>1. CASE q = <<>>
  BY <1>0, <1>1, ScriptFacts
<1>2. CASE q = <<"cameraReady", "poll">>
  <2>1. Head(q) = "cameraReady" /\ q # <<>> /\ Len(q) = 2
    BY <1>2
  <2>2. Tail(q) = <<"poll">>
    BY <1>2
  <2>3. q \in Seq(Ops)
    BY <1>0, <1>2
  <2> QED
    BY <1>0, <2>1, <2>2, <2>3 DEF FirstOp
<1>3. ASSUME NEW op \in Ops, q = <<op>> 
      PROVE  /\ q = <<>> <=> FirstOp(q) = "none"
             /\ q # <<>> => /\ Head(q) = FirstOp(q) /\ FirstOp(q) \in Ops
                            /\ \/ Tail(q) = <<>>
                               \/ Tail(q) = <<"poll">> /\ FirstOp(q) = "cameraReady"
             /\ q \in Seq(Ops) /\ Len(q) <= 3
  <2>1. Head(q) = op /\ q # <<>> /\ Len(q) = 1
    BY <1>3
  <2>2. Tail(q) = <<>>
    BY <1>3
  <2>3. q \in Seq(Ops)
    BY <1>3
  <2> QED
    BY <1>0, <2>1, <2>2, <2>3 DEF FirstOp
<1> QED
  BY <1>1, <1>2, <1>3 DEF Scripts

-----------------------------------------------------------------------------
(* What the operators change.                                              *)

\* A camera that is cut off has neither session nor open shutter.
LEMMA CutOffFields ==
    ASSUME NEW s \in LinkState, NEW e, e = CutOff(s)
    PROVE  /\ e \in LinkState /\ e.d = s.d /\ e.cam = s.cam /\ e.conf = s.conf
           /\ e.serial = s.serial /\ e.usb.plug = s.usb.plug /\ e.usb.host = s.usb.host
           /\ e.usb.session = FALSE /\ e.usb.shutter = FALSE
           /\ e.hist.hit = s.hist.hit /\ e.hist.unseen = s.hist.unseen
           /\ e.hist.spoilt = FALSE
  BY DEF CutOff, LinkState, Usb, History

\* A spoilt exposure is noted in the history, nothing else changes.
LEMMA SpoilFields ==
    ASSUME NEW s \in LinkState, NEW e, e = Spoil(s)
    PROVE  /\ e \in LinkState /\ e.d = s.d /\ e.cam = s.cam /\ e.conf = s.conf
           /\ e.serial = s.serial /\ e.usb = s.usb
           /\ e.hist.hit = s.hist.hit /\ e.hist.unseen = s.hist.unseen
           /\ e.hist.spoilt = s.usb.shutter
  BY DEF Spoil, LinkState, Usb, History

\* A device without configuration is addressed, and cut off.
LEMMA DeconfigureFields ==
    ASSUME NEW s \in LinkState, NEW e, e = Deconfigure(s)
    PROVE  /\ e \in LinkState /\ e.d = s.d /\ e.cam = s.cam /\ e.conf = s.conf
           /\ e.serial = s.serial /\ e.usb.plug = s.usb.plug
           /\ e.usb.host = IF s.usb.host = "configured" THEN "addressed" ELSE s.usb.host
           /\ e.usb.session = FALSE /\ e.usb.shutter = FALSE
           /\ e.hist.hit = s.hist.hit /\ e.hist.unseen = s.hist.unseen
           /\ e.hist.spoilt = FALSE
  BY ZenonT(60) DEF Deconfigure, CutOff, LinkState, Usb, History

\* A latched error takes the driver down.
LEMMA LatchFields ==
    ASSUME NEW s \in LinkState, NEW e, e = Latch(s)
    PROVE  /\ e \in LinkState /\ e.cam = s.cam /\ e.conf = s.conf
           /\ e.serial = s.serial /\ e.usb = s.usb
           /\ e.d.error = TRUE /\ e.d.ready = FALSE
           /\ e.d.configured = s.d.configured /\ e.d.remaining = s.d.remaining
           /\ e.hist.hit = s.hist.hit /\ e.hist.unseen = s.hist.unseen
           /\ e.hist.spoilt = s.usb.shutter
  BY DEF Latch, Spoil, LinkState, Usb, History, Driver

\* A transaction but OpenSession: s before, e after it.
Sent(s, e, op, ret, clash) ==
    /\ e \in LinkState /\ e.cam = s.cam /\ e.conf = s.conf /\ e.serial = s.serial
    /\ e.usb.plug = s.usb.plug /\ e.d.configured = s.d.configured
    /\ e.hist.hit = s.hist.hit /\ e.hist.unseen = s.hist.unseen
    /\ \/ e.usb.host = s.usb.host
       \/ /\ s.usb.host = "configured" /\ e.usb.host = "addressed"
          /\ ~e.usb.session /\ ~e.usb.shutter
    /\ e.usb.session => s.usb.session
    /\ e.usb.host = s.usb.host => (e.usb.session <=> s.usb.session)
    /\ e.usb.shutter => s.usb.shutter \/ s.usb.host = "configured"
    /\ e.d.ready => s.d.ready
    /\ e.d.error \/ (e.d.ready <=> s.d.ready)
    /\ s.d.error => e.d.error
    /\ e.d.remaining > 0 =>
         s.d.remaining > 0 \/ (op = "poll" /\ s.usb.session /\ s.usb.host = "configured")
    /\ e.usb.shutter /\ ~e.hist.spoilt =>
         \/ s.usb.shutter /\ ~s.hist.spoilt /\ (e.d.ready <=> s.d.ready)
         \/ /\ op = "start" /\ ret = "ok" /\ ~main.clash /\ s.usb.session
            /\ s.usb.host = "configured" /\ (e.d.ready <=> s.d.ready)
    /\ op = "end" /\ ret \in {"ok", "busy"} => ~(e.usb.shutter /\ ~e.hist.spoilt)
    /\ ret \in {"ok", "busy"} => s.usb.host = "configured" \/ clash
    /\ ret \in {"ok", "busy"} => (e.d.error <=> s.d.error)
    /\ ret = "error" => e.d.error \/ s.d.remaining > 0
    /\ ret = "more" => op = "poll" \/ s.d.remaining > 0
    /\ ret = "busy" => op \notin {"info", "poll"}
    /\ ret \in {"ok", "busy", "more", "error"}

\* A command that reached the camera.
Obeyed(s, e, op) ==
    /\ e \in LinkState /\ e.d = s.d /\ e.cam = s.cam /\ e.conf = s.conf
    /\ e.serial = s.serial /\ e.usb.plug = s.usb.plug
    /\ e.usb.host = s.usb.host /\ e.usb.session = s.usb.session
    /\ e.hist.hit = s.hist.hit /\ e.hist.unseen = s.hist.unseen
    /\ op = "start" => e.usb.shutter = TRUE /\ e.hist.spoilt = main.clash
    /\ op = "end" => e.usb.shutter = FALSE /\ e.hist.spoilt = FALSE
    /\ op \notin {"start", "end"} => e = s

\* Only start and end touch the shutter.
LEMMA ObeyFields ==
    ASSUME NEW s \in LinkState, NEW op, op # "open", main.clash \in BOOLEAN
    PROVE  Obeyed(s, Obey(s, op), op)
<1>1. CASE op = "start"
  <2> DEFINE x == [s EXCEPT !.usb.shutter = TRUE, !.hist.spoilt = main.clash]
  <2>1. Obey(s, op) = x
    BY <1>1 DEF Obey
  <2>2. /\ x \in LinkState /\ x.d = s.d /\ x.cam = s.cam /\ x.conf = s.conf
        /\ x.serial = s.serial /\ x.usb.plug = s.usb.plug
        /\ x.usb.host = s.usb.host /\ x.usb.session = s.usb.session
        /\ x.hist.hit = s.hist.hit /\ x.hist.unseen = s.hist.unseen
        /\ x.usb.shutter = TRUE /\ x.hist.spoilt = main.clash
    BY DEF LinkState, Usb, History
  <2> HIDE DEF x
  <2> QED
    BY <1>1, <2>1, <2>2 DEF Obeyed
<1>2. CASE op = "end"
  <2> DEFINE x == [s EXCEPT !.usb.shutter = FALSE, !.hist.spoilt = FALSE]
  <2>1. Obey(s, op) = x
    BY <1>2 DEF Obey
  <2>2. /\ x \in LinkState /\ x.d = s.d /\ x.cam = s.cam /\ x.conf = s.conf
        /\ x.serial = s.serial /\ x.usb.plug = s.usb.plug
        /\ x.usb.host = s.usb.host /\ x.usb.session = s.usb.session
        /\ x.hist.hit = s.hist.hit /\ x.hist.unseen = s.hist.unseen
        /\ x.usb.shutter = FALSE /\ x.hist.spoilt = FALSE
    BY DEF LinkState, Usb, History
  <2> HIDE DEF x
  <2> QED
    BY <1>2, <2>1, <2>2 DEF Obeyed
<1>3. CASE op \notin {"start", "end"}
  BY <1>3 DEF Obey, Obeyed
<1> QED
  BY <1>1, <1>2, <1>3

\* A transaction that finds data left over reads the next buffer instead.
LEMMA FetchSent ==
    ASSUME NEW s \in LinkState, NEW op \in Ops \ {"open"}, NEW clash \in BOOLEAN,
           s.d.remaining > 0, NEW a \in Answers(s, op, clash)
    PROVE  Sent(s, Fetch(s, a).s, op, Fetch(s, a).ret, clash)
<1> DEFINE t == [Spoil(s) EXCEPT !.d.remaining = @ - 1]
<1>1. /\ t \in LinkState /\ t.cam = s.cam /\ t.conf = s.conf /\ t.serial = s.serial
      /\ t.usb = s.usb /\ t.hist.spoilt = s.usb.shutter
      /\ t.hist.hit = s.hist.hit /\ t.hist.unseen = s.hist.unseen
      /\ t.d.ready = s.d.ready /\ t.d.error = s.d.error /\ t.d.configured = s.d.configured
  BY SpoilFields, CameraAssumption DEF LinkState, Driver, History
<1>2. a # "error" => s.usb.host = "configured" \/ clash
  BY DEF Answers
<1>3. CASE a = "error"
  <2>1. Fetch(s, a).s = t /\ Fetch(s, a).ret = "error"
    BY <1>3 DEF Fetch
  <2> HIDE DEF t
  <2> QED
    BY <1>1, <2>1 DEF Sent
<1>4. CASE a = "refused" /\ t.d.remaining = 0
  <2>1. Fetch(s, a).s = Deconfigure(t) /\ Fetch(s, a).ret = "error"
    BY <1>4 DEF Fetch
  <2>2. s.usb.host = "configured"
    BY <1>4 DEF Answers
  <2> DEFINE e == Deconfigure(t)
  <2> HIDE DEF t
  <2>3. /\ e \in LinkState /\ e.d = t.d /\ e.cam = t.cam /\ e.conf = t.conf
        /\ e.serial = t.serial /\ e.usb.plug = t.usb.plug
        /\ e.usb.host = "addressed"
        /\ e.usb.session = FALSE /\ e.usb.shutter = FALSE
        /\ e.hist.hit = t.hist.hit /\ e.hist.unseen = t.hist.unseen
    BY <1>1, <2>2, DeconfigureFields, ZenonT(60)
  <2> HIDE DEF e
  <2>4. Fetch(s, a).s = e
    BY <2>1 DEF e
  <2> QED
    BY <1>1, <2>1, <2>2, <2>3, <2>4 DEF Sent
<1>5. CASE a # "error" /\ ~(a = "refused" /\ t.d.remaining = 0)
  <2>1. Fetch(s, a) = [s |-> t, ret |-> IF t.d.remaining = 0 THEN "ok" ELSE "more"]
    BY <1>5 DEF Fetch
  <2>2. Fetch(s, a).s = t /\ Fetch(s, a).ret \in {"ok", "more"}
    BY <2>1
  <2> HIDE DEF t
  <2> QED
    BY <1>1, <1>2, <1>5, <2>2 DEF Sent
<1> QED
  BY <1>3, <1>4, <1>5

\* What a transaction but OpenSession does, whatever becomes of it.
LEMMA ExchangeSent ==
    ASSUME NEW s \in LinkState, NEW op \in Ops \ {"open"}, NEW clash \in BOOLEAN,
           main.clash \in BOOLEAN, NEW a \in Answers(s, op, clash),
           NEW r, r = Exchange(s, op, a)
    PROVE  Sent(s, r.s, op, r.ret, clash)
<1> DEFINE e == r.s
<1>1. CASE s.d.remaining > 0
  <2>1. r = Fetch(s, a)
    BY <1>1 DEF Exchange
  <2> QED
    BY <1>1, <2>1, FetchSent
<1>2. CASE ~(s.d.remaining > 0)
  <2>0. /\ a # "error" => s.usb.host = "configured" \/ clash
        /\ a \notin {"error", "garbled"} => s.usb.host = "configured"
        /\ a \notin {"error", "garbled", "refused"} => s.usb.session \/ op = "info"
        /\ a = "more" => op = "poll"
    BY <1>2 DEF Answers
  <2>1. CASE a = "ok"
    <3>1. e = Obey(s, op) /\ r.ret = "ok"
      BY <1>2, <2>1 DEF Exchange
    <3>2. /\ e \in LinkState /\ e.d = s.d /\ e.cam = s.cam /\ e.conf = s.conf
          /\ e.serial = s.serial /\ e.usb.plug = s.usb.plug
          /\ e.usb.host = s.usb.host /\ e.usb.session = s.usb.session
          /\ e.hist.hit = s.hist.hit /\ e.hist.unseen = s.hist.unseen
          /\ op = "start" => e.usb.shutter = TRUE /\ e.hist.spoilt = main.clash
          /\ op = "end" => e.usb.shutter = FALSE /\ e.hist.spoilt = FALSE
          /\ op \notin {"start", "end"} => e = s
      <4>1. Obeyed(s, Obey(s, op), op)
        BY ObeyFields, Zenon
      <4> QED
        BY <3>1, <4>1 DEF Obeyed
    <3> QED
      BY <1>2, <2>0, <2>1, <3>1, <3>2 DEF Sent
  <2>2. CASE a = "garbled"
    <3>1. e = Spoil(s) /\ r.ret = "ok"
      BY <1>2, <2>2 DEF Exchange
    <3>2. /\ e \in LinkState /\ e.d = s.d /\ e.cam = s.cam /\ e.conf = s.conf
          /\ e.serial = s.serial /\ e.usb = s.usb
          /\ e.hist.hit = s.hist.hit /\ e.hist.unseen = s.hist.unseen
          /\ e.hist.spoilt = s.usb.shutter
      BY <3>1, SpoilFields
    <3> QED
      BY <1>2, <2>0, <2>2, <3>1, <3>2 DEF Sent
  <2>3. CASE a = "more"
    <3>1. e = [s EXCEPT !.d.remaining = MaxChunks] /\ r.ret = "more"
      BY <1>2, <2>3 DEF Exchange
    <3>2. /\ e \in LinkState /\ e.cam = s.cam /\ e.conf = s.conf
          /\ e.serial = s.serial /\ e.usb = s.usb /\ e.hist = s.hist
          /\ e.d.ready = s.d.ready /\ e.d.error = s.d.error
          /\ e.d.configured = s.d.configured
      BY <3>1, CameraAssumption DEF LinkState, Driver
    <3> QED
      BY <1>2, <2>0, <2>3, <3>1, <3>2 DEF Sent
  <2>4. CASE a = "busy" /\ op \notin {"info", "poll"}
    <3>1. e = Spoil(s) /\ r.ret = "busy"
      BY <1>2, <2>4 DEF Exchange
    <3>2. /\ e \in LinkState /\ e.d = s.d /\ e.cam = s.cam /\ e.conf = s.conf
          /\ e.serial = s.serial /\ e.usb = s.usb
          /\ e.hist.hit = s.hist.hit /\ e.hist.unseen = s.hist.unseen
          /\ e.hist.spoilt = s.usb.shutter
      BY <3>1, SpoilFields
    <3> QED
      BY <1>2, <2>0, <2>4, <3>1, <3>2 DEF Sent
  <2>5. CASE a = "refused" /\ op = "cameraReady"
    <3>1. e = s /\ r.ret = "busy"
      BY <1>2, <2>5 DEF Exchange
    <3> QED
      BY <1>2, <2>0, <2>5, <3>1 DEF Sent
  <2>6. CASE a = "lost"
    <3> DEFINE o == Obey(s, op)
    <3>1. e = Latch(o) /\ r.ret = "error"
      BY <1>2, <2>6 DEF Exchange
    <3>2. /\ o \in LinkState /\ o.d = s.d /\ o.cam = s.cam /\ o.conf = s.conf
          /\ o.serial = s.serial /\ o.usb.plug = s.usb.plug
          /\ o.usb.host = s.usb.host /\ o.usb.session = s.usb.session
          /\ o.hist.hit = s.hist.hit /\ o.hist.unseen = s.hist.unseen
      <4>1. Obeyed(s, o, op)
        BY ObeyFields, Zenon
      <4> QED
        BY <4>1 DEF Obeyed
    <3> HIDE DEF o
    <3>3. /\ e \in LinkState /\ e.cam = o.cam /\ e.conf = o.conf
          /\ e.serial = o.serial /\ e.usb = o.usb
          /\ e.d.error = TRUE /\ e.d.ready = FALSE
          /\ e.d.configured = o.d.configured /\ e.d.remaining = o.d.remaining
          /\ e.hist.hit = o.hist.hit /\ e.hist.unseen = o.hist.unseen
          /\ e.hist.spoilt = o.usb.shutter
      BY <3>1, <3>2, LatchFields
    <3> QED
      BY <1>2, <2>0, <2>6, <3>1, <3>2, <3>3 DEF Sent
  <2>7. CASE \/ a \notin {"ok", "garbled", "more", "busy", "refused", "lost"}
             \/ a = "busy" /\ op \in {"info", "poll"}
             \/ a = "refused" /\ op # "cameraReady"
    <3>1. e = Latch(s) /\ r.ret = "error"
      BY <1>2, <2>7 DEF Exchange
    <3>3. /\ e \in LinkState /\ e.cam = s.cam /\ e.conf = s.conf
          /\ e.serial = s.serial /\ e.usb = s.usb
          /\ e.d.error = TRUE /\ e.d.ready = FALSE
          /\ e.d.configured = s.d.configured /\ e.d.remaining = s.d.remaining
          /\ e.hist.hit = s.hist.hit /\ e.hist.unseen = s.hist.unseen
          /\ e.hist.spoilt = s.usb.shutter
      BY <3>1, LatchFields
    <3> QED
      BY <1>2, <3>1, <3>3 DEF Sent
  <2> QED
    BY <2>1, <2>2, <2>3, <2>4, <2>5, <2>6, <2>7
<1> QED
  BY <1>1, <1>2

\* A transaction keeps the invariant; one that opens the shutter needs a camera that
\* is known to expose.
LEMMA SentKeeps ==
    ASSUME NEW s \in LinkState, NEW e, NEW op, NEW ret, NEW clash, LinkInv(s),
           Sent(s, e, op, ret, clash),
           op = "start" /\ ~main.clash /\ s.usb.session
               => s.cam.bulb_open /\ s.d.ready /\ s.cam.ready
    PROVE  LinkInv(e)
<1>1. e.d.remaining \in Nat /\ s.d.remaining \in Nat
  BY CameraAssumption DEF Sent, LinkState, Driver
<1> QED
  BY <1>1 DEF Sent, LinkInv, Up

-----------------------------------------------------------------------------
(* Steps.                                                                  *)

\* A handler leaves its script, or nothing once an error is latched.
LEMMA BeginFacts ==
    ASSUME NEW s, NEW script \in Scripts, NEW at \in Phases, main \in MainState,
           Begin(s, script, at)
    PROVE  /\ main' \in MainState /\ main'.at = at /\ main'.back = main.back
           /\ main'.clash = FALSE
           /\ FirstOp(main'.todo) \in {"none", FirstOp(script)}
           /\ FirstOp(main'.todo) = FirstOp(script) \/ s.d.error
           /\ FirstOp(main'.todo) # "none" => ~s.d.error \/ FirstOp(script) = "open"
<1> DEFINE todo == IF script # <<>> /\ s.d.error /\ Head(script) # "open"
                   THEN <<>> ELSE script
<1>1. /\ todo \in Scripts /\ FirstOp(todo) \in {"none", FirstOp(script)}
      /\ FirstOp(todo) = FirstOp(script) \/ s.d.error
      /\ FirstOp(todo) # "none" => ~s.d.error \/ FirstOp(script) = "open"
  BY ScriptFacts, ScriptTail
<1>2. main' = [main EXCEPT !.at = at, !.clash = FALSE, !.todo = todo]
  BY DEF Begin
<1> HIDE DEF todo
<1>3. /\ main' \in MainState /\ main'.at = at /\ main'.back = main.back
      /\ main'.clash = FALSE /\ main'.todo = todo
  BY <1>1, <1>2 DEF MainState
<1> QED
  BY <1>1, <1>3

\* The invariant holds after a step that leaves s and a main loop that fit.
LEMMA Closing ==
    ASSUME NEW s \in LinkState, Set(s), main' \in MainState,
           chk' \in BOOLEAN, mode' \in {0, 1}, run_state' \in RunStates,
           bulb' \in {"none", "new", "running", "failed"},
           LinkInv(s), BusInv(s, FirstOp(main'.todo), main'.clash),
           LoopInv(s, main'.at, FirstOp(main'.todo), chk', bulb')
    PROVE  CameraInv'
<1>1. Link' = s
  <2>1. s = [usb |-> s.usb, d |-> s.d, cam |-> s.cam, conf |-> s.conf,
             serial |-> s.serial, hist |-> s.hist]
    BY DEF LinkState
  <2> QED
    BY <2>1 DEF Set, Link
<1> HIDE DEF Link
<1>2. LinkInv(Link)'
  BY <1>1 DEF LinkInv, Up
<1>3. BusInv(Link, FirstOp(main.todo), main.clash)'
  BY <1>1 DEF BusInv, FirstOp, Up
<1>4. LoopInv(Link, main.at, FirstOp(main.todo), chk, bulb)'
  BY <1>1 DEF LoopInv, FirstOp, Up
<1> QED
  BY <1>1, <1>2, <1>3, <1>4 DEF CameraInv

-----------------------------------------------------------------------------
(* The answers.                                                            *)

\* The camera is polled only when it is ready and not run_state.
LEMMA PollScriptFacts ==
    ASSUME NEW s
    PROVE  /\ PollScript(s) \in Scripts
           /\ FirstOp(PollScript(s)) \in {"none", "cameraReady", "poll"}
           /\ FirstOp(PollScript(s)) # "none" => s.cam.ready /\ ~s.cam.bulb_open
  BY ScriptFacts DEF PollScript, Ops

\* What is left to do after an answer.
LEMMA ContinueFacts ==
    ASSUME main \in MainState, main.todo # <<>>, NEW s, NEW ret,
           NEW op, op = FirstOp(main.todo), NEW q, q = Continue(s, op, ret)
    PROVE  /\ q \in Scripts
           /\ op = "open" => FirstOp(q) = "info"
           /\ op = "connect" => \/ FirstOp(q) = "none"
                                \/ FirstOp(q) \in {"cameraReady", "poll"} /\ ~s.cam.bulb_open
           /\ op \in {"poll", "fetch", "cameraReady"} => FirstOp(q) \in {"none", "poll", "fetch"}
           /\ op \notin {"open", "connect", "poll", "fetch", "cameraReady"} => FirstOp(q) = "none"
<1>1. /\ op \in Ops
      /\ Tail(main.todo) = <<>> \/ (Tail(main.todo) = <<"poll">> /\ op = "cameraReady")
  BY ScriptTail DEF MainState
<1>2. /\ <<>> \in Scripts /\ FirstOp(<<>>) = "none"
      /\ <<"info">> \in Scripts /\ FirstOp(<<"info">>) = "info"
      /\ <<"fetch">> \in Scripts /\ FirstOp(<<"fetch">>) = "fetch"
      /\ <<"poll">> \in Scripts /\ FirstOp(<<"poll">>) = "poll"
  BY ScriptFacts DEF Ops
<1>3. CASE op = "open"
  <2>1. q = <<"info">>
    BY <1>3 DEF Continue
  <2> QED
    BY <1>2, <1>3, <2>1
<1>4. CASE op = "connect"
  <2>1. q = <<>> \/ q = PollScript(s)
    BY <1>4 DEF Continue
  <2> QED
    BY <1>2, <1>4, <2>1, PollScriptFacts
<1>5. CASE op \in {"poll", "fetch", "cameraReady"}
  <2>1. q \in {<<>>, <<"fetch">>, Tail(main.todo)}
    BY <1>5 DEF Continue
  <2> QED
    BY <1>1, <1>2, <1>5, <2>1
<1>6. CASE op \notin {"open", "connect", "poll", "fetch", "cameraReady"}
  <2>1. q \in {<<>>, Tail(main.todo)}
    BY <1>6 DEF Continue
  <2>2. q = <<>>
    BY <1>1, <1>6, <2>1
  <2> QED
    BY <1>2, <1>6, <2>2
<1> QED
  BY <1>3, <1>4, <1>5, <1>6

\* The end of a transaction: the handler goes on, or gives up and notifies.
LEMMA ConcludeFacts ==
    ASSUME main \in MainState, main.todo # <<>>, run_state \in RunStates, NEW s, NEW ret,
           NEW op, op = FirstOp(main.todo), Conclude(s, op, ret)
    PROVE  /\ main' \in MainState /\ main'.back = main.back /\ main'.clash = FALSE
           /\ run_state' \in RunStates
           /\ \/ /\ main'.at = "notify" /\ FirstOp(main'.todo) = "none"
                 /\ ret = "error" \/ (ret # "ok" /\ ~s.d.error)
              \/ /\ main'.at = main.at
                 /\ FirstOp(main'.todo) \in {"none", FirstOp(Continue(s, op, ret))}
                 /\ FirstOp(main'.todo) = FirstOp(Continue(s, op, ret)) \/ s.d.error
<1>1. <<>> \in Scripts /\ FirstOp(<<>>) = "none" /\ "notify" \in Phases
  BY ScriptFacts DEF Phases
<1>2. run_state' \in RunStates
  BY DEF Conclude, RunStates
<1>3. CASE Begin(s, <<>>, "notify") /\ (ret = "error" \/ (ret # "ok" /\ ~s.d.error))
  BY <1>1, <1>2, <1>3, BeginFacts
<1>4. CASE Begin(s, Continue(s, op, ret), main.at)
  <2> DEFINE q == Continue(s, op, ret)
  <2>1. q \in Scripts /\ main.at \in Phases
    BY ContinueFacts DEF MainState
  <2>2. Begin(s, q, main.at)
    BY <1>4
  <2> HIDE DEF q
  <2>3. /\ main' \in MainState /\ main'.at = main.at /\ main'.back = main.back
        /\ main'.clash = FALSE /\ FirstOp(main'.todo) \in {"none", FirstOp(q)}
        /\ FirstOp(main'.todo) = FirstOp(q) \/ s.d.error
    BY <2>1, <2>2, BeginFacts
  <2> QED
    BY <1>2, <2>3 DEF q
<1> QED
  BY <1>3, <1>4 DEF Conclude

\* OpenSession: the session is there, or the camera is given up.
LEMMA AnswerOpen ==
    ASSUME CameraInv, Answer, FirstOp(main.todo) = "open"
    PROVE  CameraInv'
<1>0. /\ Link \in LinkState /\ main \in MainState /\ run_state \in RunStates
      /\ main.todo # <<>> /\ Head(main.todo) = "open"
  BY ScriptTail DEF CameraInv, MainState, Answer
<1>1. PICK answer \in Answers(Link, "open", main.clash) :
        LET r == IF answer # "ok" THEN [s |-> Deconfigure(Link), ret |-> "error"]
                 ELSE Exchange(Link, "open", answer)
            s == IF r.ret \in {"ok", "busy"} THEN Done(r.s, "open") ELSE r.s
        IN  Set(s) /\ Conclude(s, "open", r.ret)
  BY <1>0 DEF Answer
<1>2. PICK s \in LinkState, ret \in {"ok", "error"} :
        /\ Set(s) /\ Conclude(s, "open", ret)
        /\ s.d = Link.d /\ s.cam = Link.cam /\ s.conf = Link.conf
        /\ s.serial = Link.serial /\ s.usb.plug = Link.usb.plug
        /\ s.hist.hit = Link.hist.hit /\ s.hist.unseen = Link.hist.unseen
        /\ \/ /\ s.usb.host = Link.usb.host /\ Link.usb.host = "configured"
              /\ s.usb.session = TRUE /\ s.usb.shutter = Link.usb.shutter
              /\ s.hist.spoilt = Link.hist.spoilt /\ ret = "ok"
           \/ /\ s.usb.host = IF Link.usb.host = "configured" THEN "addressed"
                             ELSE Link.usb.host
              /\ s.usb.session = FALSE /\ s.usb.shutter = FALSE
  <2>1. CASE answer = "ok"
    <3>1. Link.usb.host = "configured"
      BY <2>1 DEF Answers
    <3>2. ~(Link.d.remaining > 0)
      BY <1>0, <3>1 DEF CameraInv, BusInv, LinkState, Driver
    <3> DEFINE x == [Link EXCEPT !.usb.session = TRUE]
    <3>3. Exchange(Link, "open", answer) = [s |-> x, ret |-> "ok"]
      BY <2>1, <3>2 DEF Exchange, Obey
    <3>4. Done(x, "open") = x
      BY DEF Done
    <3>6. Set(x) /\ Conclude(x, "open", "ok")
      <4> HIDE DEF x
      <4> QED
        BY <1>1, <2>1, <3>3, <3>4
    <3>5. /\ x \in LinkState
          /\ x.d = Link.d /\ x.cam = Link.cam /\ x.conf = Link.conf
          /\ x.serial = Link.serial /\ x.usb.plug = Link.usb.plug
          /\ x.hist = Link.hist /\ x.usb.host = Link.usb.host
          /\ x.usb.session = TRUE /\ x.usb.shutter = Link.usb.shutter
      BY <1>0 DEF LinkState, Usb
    <3> HIDE DEF x
    <3> QED
      BY <3>1, <3>5, <3>6
  <2>2. CASE answer # "ok"
    <3> DEFINE x == Deconfigure(Link)
    <3>1. Set(x) /\ Conclude(x, "open", "error")
      BY <1>1, <2>2
    <3>2. /\ x \in LinkState
          /\ x.d = Link.d /\ x.cam = Link.cam /\ x.conf = Link.conf
          /\ x.serial = Link.serial /\ x.usb.plug = Link.usb.plug
          /\ x.hist.hit = Link.hist.hit /\ x.hist.unseen = Link.hist.unseen
          /\ x.usb.host = IF Link.usb.host = "configured" THEN "addressed"
                          ELSE Link.usb.host
          /\ x.usb.session = FALSE /\ x.usb.shutter = FALSE
      BY <1>0, DeconfigureFields
    <3> HIDE DEF x
    <3> QED
      BY <3>1, <3>2
  <2> QED
    BY <2>1, <2>2
<1> DEFINE o == FirstOp(main'.todo)
<1>3. FirstOp(Continue(s, "open", ret)) = "info"
  BY <1>0, ContinueFacts
<1>4. Conclude(s, "open", ret)
  BY <1>2
<1>5. /\ main' \in MainState /\ main'.back = main.back /\ main'.clash = FALSE
      /\ run_state' \in RunStates
      /\ \/ main'.at = "notify" /\ o = "none" /\ ret # "ok"
         \/ main'.at = main.at /\ o \in {"none", "info"} /\ (o = "info" \/ s.d.error)
  BY <1>0, <1>3, <1>4, ConcludeFacts
<1> HIDE DEF o
<1>6. LinkInv(s)
  BY <1>2 DEF CameraInv, LinkInv, BusInv, Up
<1>7. BusInv(s, o, main'.clash)
  BY <1>2, <1>5 DEF CameraInv, LinkInv, BusInv, Up
<1>8. UNCHANGED <<chk, mode, bulb>>
  BY DEF Answer
<1>9. LoopInv(s, main'.at, o, chk', bulb')
  BY <1>2, <1>5, <1>8 DEF CameraInv, LoopInv, LinkInv, BusInv, Up
<1> QED
  BY <1>2, <1>5, <1>6, <1>7, <1>8, <1>9, Closing DEF CameraInv, o

\* The answer to anything but OpenSession: e is what the transaction leaves, s what the
\* code makes of it.
Answered(e, s, op, ret) ==
    /\ Sent(Link, e, op, ret, main.clash)
    /\ s = (IF ret \in {"ok", "busy"} THEN Done(e, op) ELSE e) /\ Set(s)
    /\ main' \in MainState /\ main'.back = main.back /\ main'.clash = FALSE
    /\ run_state' \in RunStates
    /\ main'.at = main.at \/ (main'.at = "notify" /\ FirstOp(main'.todo) = "none")
    /\ op = "connect" => \/ FirstOp(main'.todo) = "none"
                         \/ /\ FirstOp(main'.todo) \in {"cameraReady", "poll"}
                            /\ ~s.cam.bulb_open
    /\ op \in {"poll", "fetch", "cameraReady"} =>
         FirstOp(main'.todo) \in {"none", "poll", "fetch"}
    /\ op \notin {"connect", "poll", "fetch", "cameraReady"} => FirstOp(main'.todo) = "none"

\* Every other answer is that of a transaction, and ends or continues its script.
LEMMA AnswerSent ==
    ASSUME CameraInv, Answer, FirstOp(main.todo) # "open"
    PROVE  /\ FirstOp(main.todo) \in Ops
           /\ \E e, s, ret : Answered(e, s, FirstOp(main.todo), ret)
<1> DEFINE op == FirstOp(main.todo)
<1>0. /\ Link \in LinkState /\ main \in MainState /\ main.clash \in BOOLEAN
      /\ main.todo # <<>> /\ Head(main.todo) = op /\ op \in Ops /\ run_state \in RunStates
  BY ScriptTail DEF CameraInv, MainState, Answer
<1>1. op # "open"
  OBVIOUS
<1> HIDE DEF op
<1>2. PICK answer \in Answers(Link, op, main.clash) :
        LET r == IF op = "open" /\ answer # "ok"
                 THEN [s |-> Deconfigure(Link), ret |-> "error"]
                 ELSE Exchange(Link, op, answer)
            s == IF r.ret \in {"ok", "busy"} THEN Done(r.s, op) ELSE r.s
        IN  Set(s) /\ Conclude(s, op, r.ret)
  BY <1>0 DEF Answer
<1> DEFINE r == Exchange(Link, op, answer)
           s == IF r.ret \in {"ok", "busy"} THEN Done(r.s, op) ELSE r.s
           q == Continue(s, op, r.ret)
<1>3. Set(s) /\ Conclude(s, op, r.ret)
  BY <1>1, <1>2
<1>4. Sent(Link, r.s, op, r.ret, main.clash)
  BY <1>0, <1>1, ExchangeSent
<1> HIDE DEF r
<1>5. s = IF r.ret \in {"ok", "busy"} THEN Done(r.s, op) ELSE r.s
  OBVIOUS
<1> HIDE DEF s
<1>6. q = Continue(s, op, r.ret)
  OBVIOUS
<1>7. op = FirstOp(main.todo)
  BY DEF op
<1> HIDE DEF q
<1>8. /\ q \in Scripts
      /\ op = "connect" => \/ FirstOp(q) = "none"
                           \/ FirstOp(q) \in {"cameraReady", "poll"} /\ ~s.cam.bulb_open
      /\ op \in {"poll", "fetch", "cameraReady"} => FirstOp(q) \in {"none", "poll", "fetch"}
      /\ op \notin {"connect", "poll", "fetch", "cameraReady"} => FirstOp(q) = "none"
  BY <1>0, <1>1, <1>6, <1>7, ContinueFacts
<1>9. /\ main' \in MainState /\ main'.back = main.back /\ main'.clash = FALSE
      /\ run_state' \in RunStates
      /\ main'.at = main.at \/ (main'.at = "notify" /\ FirstOp(main'.todo) = "none")
      /\ FirstOp(main'.todo) \in {"none", FirstOp(q)}
  BY <1>0, <1>3, <1>6, <1>7, ConcludeFacts
<1>10. Answered(r.s, s, op, r.ret)
  BY <1>3, <1>4, <1>5, <1>8, <1>9 DEF Answered
<1> QED
  BY <1>0, <1>10 DEF op

\* The device information makes the driver ready and names the camera.
LEMMA AnswerInfo ==
    ASSUME CameraInv, Answer, FirstOp(main.todo) = "info"
    PROVE  CameraInv'
<1>0. Link \in LinkState /\ main \in MainState
  BY DEF CameraInv
<1>1. PICK e, s, ret : Answered(e, s, "info", ret)
  BY AnswerSent
<1> DEFINE o == FirstOp(main'.todo)
<1>2. /\ Sent(Link, e, "info", ret, main.clash) /\ Set(s)
      /\ main' \in MainState /\ main'.at \in {main.at, "notify"} /\ main'.back = main.back
      /\ main'.clash = FALSE /\ run_state' \in RunStates /\ o = "none"
  BY <1>1 DEF Answered
<1>3. LinkInv(e) /\ e \in LinkState
  BY <1>0, <1>2, SentKeeps DEF CameraInv, Sent
<1>4. UNCHANGED <<chk, mode, bulb>>
  BY DEF Answer
<1>5. CASE ret = "ok"
  <2>1. s = [e EXCEPT !.d.ready = TRUE,
                      !.serial = IF e.usb.plug \in Cameras THEN e.usb.plug ELSE @]
    BY <1>1, <1>5 DEF Answered, Done
  <2>2. /\ s \in LinkState /\ s.usb = e.usb /\ s.cam = e.cam /\ s.conf = e.conf
        /\ s.hist = e.hist /\ s.d.ready = TRUE /\ s.d.error = e.d.error
        /\ s.d.configured = e.d.configured /\ s.d.remaining = e.d.remaining
        /\ s.serial = IF e.usb.plug \in Cameras THEN e.usb.plug ELSE e.serial
    BY <1>3, <2>1 DEF LinkState, Driver, Usb
  <2> HIDE DEF o
  <2>3. LinkInv(s)
    BY <1>2, <1>3, <1>5, <2>2 DEF CameraInv, LinkInv, BusInv, Up, Sent
  <2>4. BusInv(s, o, main'.clash)
    BY <1>2, <2>2 DEF BusInv
  <2>5. LoopInv(s, main'.at, o, chk', bulb')
    BY <1>2, <1>4, <2>2 DEF CameraInv, LoopInv, LinkInv, BusInv, Up, Sent
  <2> QED
    BY <1>2, <1>4, <2>2, <2>3, <2>4, <2>5, Closing DEF CameraInv, o
<1>6. CASE ret # "ok"
  <2>1. s = e
    BY <1>1, <1>2, <1>6 DEF Answered, Sent
  <2>2. e.usb.session => e.d.ready \/ e.d.error
    <3>1. e.usb.session => Link.usb.host = "configured" /\ ~(Link.d.remaining > 0)
      BY <1>0, <1>2 DEF Sent, CameraInv, LinkInv, BusInv, LinkState, Driver
    <3> QED
      BY <1>2, <1>6, <3>1 DEF Sent
  <2> HIDE DEF o
  <2>4. BusInv(s, o, main'.clash)
    BY <1>2, <2>1, <2>2 DEF BusInv
  <2>5. LoopInv(s, main'.at, o, chk', bulb')
    BY <1>2, <1>4, <2>1 DEF CameraInv, LoopInv, LinkInv, BusInv, Up, Sent
  <2> QED
    BY <1>2, <1>3, <1>4, <2>1, <2>4, <2>5, Closing DEF CameraInv, o
<1> QED
  BY <1>5, <1>6

\* The connection makes the camera object ready.
LEMMA AnswerConnect ==
    ASSUME CameraInv, Answer, FirstOp(main.todo) = "connect"
    PROVE  CameraInv'
<1>0. Link \in LinkState /\ main \in MainState
  BY DEF CameraInv
<1>1. PICK e, s, ret : Answered(e, s, "connect", ret)
  BY AnswerSent
<1> DEFINE o == FirstOp(main'.todo)
<1>2. /\ Sent(Link, e, "connect", ret, main.clash) /\ Set(s)
      /\ main' \in MainState /\ main'.back = main.back /\ main'.clash = FALSE
      /\ run_state' \in RunStates
      /\ main'.at = main.at \/ (main'.at = "notify" /\ o = "none")
      /\ o = "none" \/ (o \in {"cameraReady", "poll"} /\ ~s.cam.bulb_open)
  BY <1>1 DEF Answered
<1>3. LinkInv(e) /\ e \in LinkState
  BY <1>0, <1>2, SentKeeps DEF CameraInv, Sent
<1>4. UNCHANGED <<chk, mode, bulb>>
  BY DEF Answer
<1>5. /\ s \in LinkState /\ s.usb = e.usb /\ s.d = e.d /\ s.conf = e.conf
      /\ s.serial = e.serial /\ s.hist = e.hist
      /\ s.cam.bulb_open = e.cam.bulb_open /\ s.cam.disabled = e.cam.disabled
      /\ s.cam.bulb = e.cam.bulb
      /\ s.cam.ready = TRUE \/ s.cam.ready = e.cam.ready
  <2>1. s = e \/ s = [e EXCEPT !.cam.ready = TRUE]
    BY <1>1 DEF Answered, Done
  <2>2. CASE s = e
    BY <1>3, <2>2
  <2>3. CASE s = [e EXCEPT !.cam.ready = TRUE]
    BY <1>3, <2>3 DEF LinkState, CameraObject
  <2> QED
    BY <2>1, <2>2, <2>3
<1> HIDE DEF o
<1>6. LinkInv(s)
  BY <1>2, <1>3, <1>5 DEF CameraInv, LinkInv, BusInv, Up, Sent
<1>7. BusInv(s, o, main'.clash)
  BY <1>2, <1>5 DEF CameraInv, LinkInv, BusInv, Up, Sent
<1>8. LoopInv(s, main'.at, o, chk', bulb')
  BY <1>2, <1>4, <1>5 DEF CameraInv, LoopInv, LinkInv, BusInv, Up, Sent
<1> QED
  BY <1>2, <1>4, <1>5, <1>6, <1>7, <1>8, Closing DEF CameraInv, o

\* Polls and commands.
LEMMA AnswerRest ==
    ASSUME CameraInv, Answer, FirstOp(main.todo) \notin {"open", "info", "connect"}
    PROVE  CameraInv'
<1> DEFINE op == FirstOp(main.todo)
           o == FirstOp(main'.todo)
<1>0. Link \in LinkState /\ main \in MainState /\ op \notin {"open", "info", "connect"}
  BY DEF CameraInv
<1>1. op \in Ops /\ \E e, s, ret : Answered(e, s, op, ret)
  BY AnswerSent
<1>a. PICK e, s, ret : Answered(e, s, op, ret)
  BY <1>1
<1>b. LinkInv(Link) /\ BusInv(Link, op, main.clash) /\ LoopInv(Link, main.at, op, chk, bulb)
  BY DEF CameraInv
<1> HIDE DEF op, o
<1>2. /\ Sent(Link, e, op, ret, main.clash) /\ Set(s)
      /\ main' \in MainState /\ main'.back = main.back /\ main'.clash = FALSE
      /\ run_state' \in RunStates
      /\ main'.at = main.at \/ (main'.at = "notify" /\ o = "none")
      /\ op \in {"poll", "fetch", "cameraReady"} => o \in {"none", "poll", "fetch"}
      /\ op \notin {"poll", "fetch", "cameraReady"} => o = "none"
  BY <1>0, <1>a DEF Answered, o
<1>3. LinkInv(e) /\ e \in LinkState
  <2>1. op = "start" /\ ~main.clash /\ Link.usb.session
            => Link.cam.bulb_open /\ Link.d.ready /\ Link.cam.ready
    BY <1>b DEF LinkInv, BusInv
  <2> QED
    BY <1>0, <1>2, <1>b, <2>1, SentKeeps DEF Sent
<1>4. UNCHANGED <<chk, mode, bulb>>
  BY DEF Answer
<1>5. /\ s \in LinkState /\ s.usb = e.usb /\ s.d = e.d /\ s.conf = e.conf
      /\ s.serial = e.serial /\ s.hist = e.hist
      /\ s.cam.ready = e.cam.ready /\ s.cam.disabled = e.cam.disabled
      /\ s.cam.bulb = e.cam.bulb
      /\ \/ s.cam.bulb_open = e.cam.bulb_open
         \/ op = "end" /\ ret \in {"ok", "busy"} /\ s.cam.bulb_open = FALSE
  <2>1. s = e \/ (op = "end" /\ ret \in {"ok", "busy"} /\ s = [e EXCEPT !.cam.bulb_open = FALSE])
    BY <1>0, <1>a DEF Answered, Done
  <2>2. CASE s = e
    BY <1>3, <2>2
  <2>3. CASE /\ op = "end" /\ ret \in {"ok", "busy"}
             /\ s = [e EXCEPT !.cam.bulb_open = FALSE]
    BY <1>3, <2>3 DEF LinkState, CameraObject
  <2> QED
    BY <2>1, <2>2, <2>3
<1>6. LinkInv(s)
  BY <1>2, <1>3, <1>5 DEF LinkInv, Up, Sent
<1>7. BusInv(s, o, main'.clash)
  BY <1>0, <1>2, <1>5, <1>b DEF BusInv, Sent
<1>8. LoopInv(s, main'.at, o, chk', bulb')
  <2>1. op # "none"
    BY <1>1 DEF Ops
  <2> QED
    BY <1>0, <1>2, <1>4, <1>5, <1>b, <2>1 DEF LoopInv, LinkInv, Up, Sent
<1> QED
  BY <1>2, <1>4, <1>5, <1>6, <1>7, <1>8, Closing DEF CameraInv, o

\* The main loop takes an answer.
LEMMA AnswerKeeps ==
    ASSUME CameraInv, Answer
    PROVE  CameraInv'
  BY AnswerOpen, AnswerInfo, AnswerConnect, AnswerRest

-----------------------------------------------------------------------------
(* The main loop.                                                          *)

\* PTP_Disable leaves a host that is off and a driver without camera.
LEMMA DisableFields ==
    ASSUME NEW s \in LinkState, NEW e, e = PTP_Disable(s)
    PROVE  /\ e \in LinkState /\ e.cam = s.cam /\ e.conf = s.conf /\ e.serial = s.serial
           /\ e.usb.plug = s.usb.plug /\ e.usb.host = "off"
           /\ e.usb.session = FALSE /\ e.usb.shutter = FALSE
           /\ e.d.ready = FALSE /\ e.d.configured = FALSE /\ e.d.remaining = 0
           /\ e.d.error = s.d.error
           /\ e.hist.hit = s.hist.hit /\ e.hist.unseen = s.hist.unseen
<1>1. e = [CutOff(s) EXCEPT !.usb.host = "off", !.d.configured = FALSE, !.d.ready = FALSE,
                            !.d.remaining = 0, !.hist.missed = FALSE]
  BY DEF PTP_Disable
<1> DEFINE c == CutOff(s)
<1>2. /\ c \in LinkState /\ c.d = s.d /\ c.cam = s.cam /\ c.conf = s.conf
      /\ c.serial = s.serial /\ c.usb.plug = s.usb.plug
      /\ c.usb.session = FALSE /\ c.usb.shutter = FALSE
      /\ c.hist.hit = s.hist.hit /\ c.hist.unseen = s.hist.unseen
  BY CutOffFields
<1> HIDE DEF c
<1>3. e = [c EXCEPT !.usb.host = "off", !.d.configured = FALSE, !.d.ready = FALSE,
                    !.d.remaining = 0, !.hist.missed = FALSE]
  BY <1>1 DEF c
<1>4. 0 \in 0 .. MaxChunks
  BY CameraAssumption
<1> DEFINE u == [c.usb EXCEPT !.host = "off"]
           w == [c.d EXCEPT !.configured = FALSE, !.ready = FALSE, !.remaining = 0]
           h == [c.hist EXCEPT !.missed = FALSE]
<1>5. e = [c EXCEPT !.usb = u, !.d = w, !.hist = h]
  BY <1>2, <1>3 DEF LinkState
<1>6. /\ u \in Usb /\ u.plug = c.usb.plug /\ u.host = "off" /\ u.session = c.usb.session
      /\ u.shutter = c.usb.shutter
  BY <1>2 DEF LinkState, Usb
<1>7. /\ w \in Driver /\ w.ready = FALSE /\ w.configured = FALSE /\ w.remaining = 0
      /\ w.error = c.d.error
  BY <1>2, <1>4 DEF LinkState, Driver
<1>8. h \in History /\ h.hit = c.hist.hit /\ h.unseen = c.hist.unseen
  BY <1>2 DEF LinkState, History
<1> HIDE DEF u, w, h
<1>9. /\ e \in LinkState /\ e.usb = u /\ e.d = w /\ e.hist = h
      /\ e.cam = c.cam /\ e.conf = c.conf /\ e.serial = c.serial
  BY <1>2, <1>5, <1>6, <1>7, <1>8 DEF LinkState
<1> QED
  BY <1>2, <1>6, <1>7, <1>8, <1>9

\* PTP_Enable leaves an idle host and a driver without camera or error.
LEMMA EnableFields ==
    ASSUME NEW s \in LinkState, NEW e, e = PTP_Enable(s)
    PROVE  /\ e \in LinkState /\ e.cam = s.cam /\ e.conf = s.conf /\ e.serial = s.serial
           /\ e.usb.plug = s.usb.plug /\ e.usb.host = "idle"
           /\ e.usb.session = FALSE /\ e.usb.shutter = FALSE
           /\ e.d.ready = FALSE /\ e.d.configured = FALSE /\ e.d.remaining = 0
           /\ e.d.error = FALSE
           /\ e.hist.hit = s.hist.hit /\ e.hist.unseen = s.hist.unseen
<1> DEFINE c == CutOff(s)
           off == [ready |-> FALSE, error |-> FALSE, configured |-> FALSE, remaining |-> 0]
<1>2. /\ c \in LinkState /\ c.d = s.d /\ c.cam = s.cam /\ c.conf = s.conf
      /\ c.serial = s.serial /\ c.usb.plug = s.usb.plug
      /\ c.usb.session = FALSE /\ c.usb.shutter = FALSE
      /\ c.hist.hit = s.hist.hit /\ c.hist.unseen = s.hist.unseen
  BY CutOffFields
<1>3. e = [c EXCEPT !.usb.host = "idle", !.hist.missed = FALSE, !.d = off]
  BY DEF PTP_Enable
<1> HIDE DEF c
<1>4. 0 \in 0 .. MaxChunks
  BY CameraAssumption
<1>5. /\ off \in Driver /\ off.ready = FALSE /\ off.error = FALSE /\ off.configured = FALSE
      /\ off.remaining = 0
  BY <1>4 DEF Driver
<1> HIDE DEF off
<1> DEFINE u == [c.usb EXCEPT !.host = "idle"]
           h == [c.hist EXCEPT !.missed = FALSE]
<1>6. e = [c EXCEPT !.usb = u, !.d = off, !.hist = h]
  BY <1>2, <1>3 DEF LinkState
<1>7. /\ u \in Usb /\ u.plug = c.usb.plug /\ u.host = "idle" /\ u.session = c.usb.session
      /\ u.shutter = c.usb.shutter
  BY <1>2 DEF LinkState, Usb
<1>8. h \in History /\ h.hit = c.hist.hit /\ h.unseen = c.hist.unseen
  BY <1>2 DEF LinkState, History
<1> HIDE DEF u, h
<1>9. /\ e \in LinkState /\ e.usb = u /\ e.d = off /\ e.hist = h
      /\ e.cam = c.cam /\ e.conf = c.conf /\ e.serial = c.serial
  BY <1>2, <1>5, <1>6, <1>7, <1>8 DEF LinkState
<1> QED
  BY <1>2, <1>5, <1>7, <1>8, <1>9

\* A camera object that was closed.
Closed(s, e) ==
    /\ e \in LinkState /\ e.usb = s.usb /\ e.d = s.d /\ e.conf = s.conf
    /\ e.serial = s.serial /\ e.cam.ready = FALSE /\ e.cam.bulb_open = FALSE
    /\ e.cam.bulb = FALSE /\ e.cam.disabled = s.cam.disabled
    /\ e.hist.hit = s.hist.hit /\ e.hist.unseen = "no"
    /\ e.hist.spoilt = s.hist.spoilt

\* close forgets the camera and its exposure.
LEMMA CloseFields ==
    ASSUME NEW s \in LinkState
    PROVE  Closed(s, close(s))
  BY DEF Closed, close, LinkState, CameraObject, History

\* The whole of disable: the host is off, the camera object closed.
Disabled(s, e) ==
    /\ e \in LinkState /\ e.conf = s.conf /\ e.serial = s.serial
    /\ e.usb.plug = s.usb.plug /\ e.usb.host = "off"
    /\ e.usb.session = FALSE /\ e.usb.shutter = FALSE
    /\ e.d.ready = FALSE /\ e.d.configured = FALSE /\ e.d.remaining = 0
    /\ e.cam.ready = FALSE /\ e.cam.bulb_open = FALSE /\ e.cam.bulb = FALSE
    /\ e.cam.disabled = TRUE
    /\ e.hist.hit = s.hist.hit /\ e.hist.unseen = "no"

\* disable is PTP_Disable and close.
LEMMA disableFields ==
    ASSUME NEW s \in LinkState
    PROVE  Disabled(s, disable(s))
<1> DEFINE p == PTP_Disable(s)
           c == close(p)
           e == [c EXCEPT !.cam.disabled = TRUE]
<1>1. disable(s) = e
  BY DEF disable
<1>2. /\ p \in LinkState /\ p.cam = s.cam /\ p.conf = s.conf /\ p.serial = s.serial
      /\ p.usb.plug = s.usb.plug /\ p.usb.host = "off"
      /\ p.usb.session = FALSE /\ p.usb.shutter = FALSE
      /\ p.d.ready = FALSE /\ p.d.configured = FALSE /\ p.d.remaining = 0
      /\ p.hist.hit = s.hist.hit
  BY DisableFields
<1> HIDE DEF p
<1>3. /\ c \in LinkState /\ c.usb = p.usb /\ c.d = p.d /\ c.conf = p.conf
      /\ c.serial = p.serial /\ c.cam.ready = FALSE /\ c.cam.bulb_open = FALSE
      /\ c.cam.bulb = FALSE
      /\ c.hist.hit = p.hist.hit /\ c.hist.unseen = "no"
  BY <1>2, CloseFields DEF Closed
<1> HIDE DEF c
<1>4. /\ e \in LinkState /\ e.usb = c.usb /\ e.d = c.d /\ e.conf = c.conf
      /\ e.serial = c.serial /\ e.hist = c.hist
      /\ e.cam.ready = FALSE /\ e.cam.bulb_open = FALSE
      /\ e.cam.bulb = FALSE /\ e.cam.disabled = TRUE
  BY <1>3 DEF LinkState, CameraObject
<1> HIDE DEF e
<1> QED
  BY <1>1, <1>2, <1>3, <1>4 DEF Disabled

\* init loads the settings of the camera the driver named.
LEMMA InitFields ==
    ASSUME NEW s \in LinkState, s.serial \in Cameras, NEW e, e = init(s)
    PROVE  /\ e \in LinkState /\ e.usb = s.usb /\ e.d = s.d /\ e.serial = s.serial
           /\ e.conf = s.serial /\ e.cam.bulb_open = FALSE /\ e.cam.disabled = s.cam.disabled
           /\ e.hist.hit = s.hist.hit /\ e.hist.unseen = "no" /\ e.hist.spoilt = s.hist.spoilt
           /\ s.cam.ready => e.cam.ready
<1>1. Make[s.serial] \in Makes
  BY CameraAssumption
<1> DEFINE eos == Make[s.serial] = "EOS"
           nikon == Make[s.serial] = "NIKON"
           up == s.cam.ready \/ nikon
<1>2. e = [s EXCEPT !.hist.unseen = "no", !.conf = s.serial, !.cam.bulb_open = FALSE,
                    !.cam.protocol = Make[s.serial], !.cam.bulb = eos,
                    !.cam.ready = up]
  BY DEF init, LinkState, CameraObject
<1>3. eos \in BOOLEAN /\ up \in BOOLEAN /\ (s.cam.ready => up)
  OBVIOUS
<1> HIDE DEF eos, up
<1> DEFINE c == [s.cam EXCEPT !.bulb_open = FALSE, !.protocol = Make[s.serial],
                              !.bulb = eos, !.ready = up]
           h == [s.hist EXCEPT !.unseen = "no"]
<1>4. e = [s EXCEPT !.cam = c, !.conf = s.serial, !.hist = h]
  BY <1>2 DEF LinkState
<1>5. /\ c \in CameraObject /\ c.bulb_open = FALSE /\ c.disabled = s.cam.disabled
      /\ c.ready = up
  BY <1>1, <1>3 DEF LinkState, CameraObject
<1>6. /\ h \in History /\ h.hit = s.hist.hit /\ h.unseen = "no"
      /\ h.spoilt = s.hist.spoilt
  BY DEF LinkState, History
<1> HIDE DEF c, h
<1>7. /\ e \in LinkState /\ e.usb = s.usb /\ e.d = s.d /\ e.serial = s.serial
      /\ e.conf = s.serial /\ e.cam = c /\ e.hist = h
  BY <1>4, <1>5, <1>6 DEF LinkState
<1> QED
  BY <1>3, <1>5, <1>6, <1>7

\* PTP_Task takes notice of the host.
LEMMA TaskFields ==
    ASSUME NEW s \in LinkState, NEW e, e = PTP_Task(s)
    PROVE  /\ e \in LinkState /\ e.usb = s.usb /\ e.cam = s.cam /\ e.conf = s.conf
           /\ e.serial = s.serial /\ e.d.error = s.d.error /\ e.d.remaining = s.d.remaining
           /\ e.hist.hit = s.hist.hit /\ e.hist.unseen = s.hist.unseen
           /\ e.hist.spoilt = s.hist.spoilt
           /\ s.usb.host = "configured" => e.d.configured = TRUE /\ e.d.ready = s.d.ready
           /\ s.usb.host # "configured" => e.d.configured = FALSE /\ e.d.ready = FALSE
<1>1. CASE s.usb.host = "configured"
  BY <1>1 DEF PTP_Task, LinkState, Driver
<1>2. CASE s.usb.host # "configured"
  BY <1>2 DEF PTP_Task, LinkState, Driver, History
<1> QED
  BY <1>1, <1>2

\* The invariant in a phase of the main loop with nothing on the bus.
LEMMA IdleFacts ==
    ASSUME CameraInv, NEW at, Idle(at)
    PROVE  /\ Link \in LinkState /\ main \in MainState /\ main.at = at /\ main.todo = <<>>
           /\ FirstOp(main.todo) = "none"
           /\ LinkInv(Link) /\ BusInv(Link, "none", main.clash)
           /\ LoopInv(Link, at, "none", chk, bulb)
  BY DEF CameraInv, Idle, FirstOp

\* The end of a handler of the main loop.
LEMMA BeginKeeps ==
    ASSUME main \in MainState, NEW s \in LinkState, Set(s), NEW x, NEW script \in Scripts,
           NEW at \in Phases, Begin(x, script, at),
           chk' \in BOOLEAN, mode' \in {0, 1}, run_state' \in RunStates,
           bulb' \in {"none", "new", "running", "failed"},
           LinkInv(s), s.usb.session => s.d.ready \/ s.d.error,
           LoopInv(s, at, "none", chk', bulb'),
           FirstOp(script) # "none" /\ (~x.d.error \/ FirstOp(script) = "open") =>
              BusInv(s, FirstOp(script), FALSE) /\ LoopInv(s, at, FirstOp(script), chk', bulb')
    PROVE  CameraInv'
<1> DEFINE o == FirstOp(main'.todo)
<1>1. /\ main' \in MainState /\ main'.at = at /\ main'.clash = FALSE
      /\ o \in {"none", FirstOp(script)}
      /\ o # "none" => ~x.d.error \/ FirstOp(script) = "open"
  BY BeginFacts
<1> HIDE DEF o
<1>2. BusInv(s, "none", FALSE)
  BY DEF BusInv
<1>3. BusInv(s, o, FALSE) /\ LoopInv(s, at, o, chk', bulb')
  BY <1>1, <1>2
<1> QED
  BY <1>1, <1>3, Closing DEF o

\* init connects the camera, or polls it.
LEMMA InitScriptFacts ==
    ASSUME NEW s
    PROVE  /\ InitScript(s) \in Scripts
           /\ FirstOp(InitScript(s)) \in {"none", "cameraReady", "poll", "connect"}
           /\ FirstOp(InitScript(s)) \in {"cameraReady", "poll"} => ~s.cam.bulb_open
<1>1. <<"connect">> \in Scripts /\ FirstOp(<<"connect">>) = "connect"
  BY ScriptFacts DEF Ops
<1>2. InitScript(s) = PollScript(s) \/ InitScript(s) = <<"connect">>
  BY DEF InitScript
<1> QED
  BY <1>1, <1>2, PollScriptFacts

\* PTP_Task opens a device that was configured since it looked.
LEMMA TaskScriptFacts ==
    ASSUME NEW s
    PROVE  /\ TaskScript(s) \in Scripts
           /\ FirstOp(TaskScript(s)) \in {"none", "open"}
           /\ FirstOp(TaskScript(s)) = "open" => s.usb.host = "configured" /\ ~s.d.configured
  BY ScriptFacts DEF TaskScript, Ops

\* Notify::task: init when the driver came up, close when it went down.
LEMMA NotifyKeeps ==
    ASSUME CameraInv, NotifyTask
    PROVE  CameraInv'
<1> DEFINE changed == chk # d.ready
           seen == [Link EXCEPT !.hist.unseen =
                       IF @ = "may" THEN (IF d.ready THEN "no" ELSE "is") ELSE @]
           s == IF changed /\ d.ready /\ ~cam.ready THEN init(seen)
                ELSE IF changed /\ ~d.ready /\ ~cam.disabled
                THEN close(settings_load_camera_default(seen)) ELSE seen
           script == IF changed /\ d.ready /\ ~cam.ready THEN InitScript(s) ELSE <<>>
<1>0. /\ Link \in LinkState /\ main \in MainState
      /\ LinkInv(Link) /\ BusInv(Link, "none", main.clash)
      /\ LoopInv(Link, "notify", "none", chk, bulb)
  BY IdleFacts DEF NotifyTask
<1>1. /\ chk' = d.ready /\ Set(s) /\ Begin(s, script, "task")
      /\ UNCHANGED <<mode, bulb, run_state>>
  BY DEF NotifyTask
<1>2. Link.d = d /\ Link.cam = cam
  BY DEF Link
<1>3. d.ready \in BOOLEAN /\ chk \in BOOLEAN
  BY <1>0, <1>2 DEF LinkState, Driver, CameraInv
<1>4. /\ seen \in LinkState /\ seen.usb = Link.usb /\ seen.d = Link.d /\ seen.cam = Link.cam
      /\ seen.conf = Link.conf /\ seen.serial = Link.serial
      /\ seen.hist.hit = Link.hist.hit /\ seen.hist.spoilt = Link.hist.spoilt
      /\ seen.hist.unseen = IF Link.hist.unseen = "may"
                            THEN (IF d.ready THEN "no" ELSE "is") ELSE Link.hist.unseen
  BY <1>0 DEF LinkState, History
<1> HIDE DEF seen
<1>5. "task" \in Phases /\ <<>> \in Scripts /\ FirstOp(<<>>) = "none"
  BY ScriptFacts DEF Phases
<1>6. CASE changed /\ d.ready /\ ~cam.ready
  <2>1. s = init(seen) /\ script = InitScript(s)
    BY <1>6
  <2> HIDE DEF s
  <2>2. seen.serial \in Cameras
    BY <1>0, <1>2, <1>4, <1>6 DEF LinkInv
  <2>3. /\ s \in LinkState /\ s.usb = Link.usb /\ s.d = d /\ s.serial = Link.serial
        /\ s.conf = Link.serial /\ s.cam.bulb_open = FALSE /\ s.cam.disabled = cam.disabled
        /\ s.hist.hit = Link.hist.hit /\ s.hist.unseen = "no"
        /\ s.hist.spoilt = Link.hist.spoilt
    <3>1. /\ s \in LinkState /\ s.usb = seen.usb /\ s.d = seen.d /\ s.serial = seen.serial
          /\ s.conf = seen.serial /\ s.cam.bulb_open = FALSE
          /\ s.cam.disabled = seen.cam.disabled
          /\ s.hist.hit = seen.hist.hit /\ s.hist.unseen = "no"
          /\ s.hist.spoilt = seen.hist.spoilt
      BY <1>4, <2>1, <2>2, InitFields, ZenonT(60)
    <3> QED
      BY <1>2, <1>4, <3>1
  <2>4. /\ script \in Scripts
        /\ FirstOp(script) \in {"none", "cameraReady", "poll", "connect"}
    BY <2>1, InitScriptFacts
  <2> HIDE DEF script
  <2>5. LinkInv(s)
    BY <1>0, <1>2, <1>6, <2>2, <2>3, <1>4 DEF LinkInv, Up
  <2>6. s.usb.session => s.d.ready \/ s.d.error
    BY <1>6, <2>3
  <2>7. /\ LoopInv(s, "task", "none", chk', bulb')
        /\ LoopInv(s, "task", FirstOp(script), chk', bulb')
    BY <1>0, <1>1, <1>2, <1>6, <2>3, <2>4 DEF LoopInv, LinkInv, Up
  <2>8. BusInv(s, FirstOp(script), FALSE)
    BY <1>0, <1>2, <1>4, <1>6, <2>2, <2>3, <2>4 DEF BusInv, LinkInv, Up
  <2> QED
    BY <1>0, <1>1, <1>3, <1>5, <2>3, <2>4, <2>5, <2>6, <2>7, <2>8, BeginKeeps DEF CameraInv
<1>7. CASE changed /\ ~d.ready /\ ~cam.disabled
  <2> DEFINE y == settings_load_camera_default(seen)
  <2>1. s = close(y) /\ script = <<>>
    BY <1>7
  <2>2. /\ y \in LinkState /\ y.usb = Link.usb /\ y.d = d /\ y.cam = cam
        /\ y.conf = "default" /\ y.serial = Link.serial /\ y.hist = seen.hist
    BY <1>2, <1>4 DEF settings_load_camera_default, LinkState
  <2> HIDE DEF y, s
  <2>3. /\ s \in LinkState /\ s.usb = Link.usb /\ s.d = d /\ s.conf = "default"
        /\ s.serial = Link.serial /\ s.cam.ready = FALSE /\ s.cam.bulb_open = FALSE
        /\ s.cam.bulb = FALSE /\ s.cam.disabled = cam.disabled
        /\ s.hist.hit = Link.hist.hit /\ s.hist.unseen = "no"
        /\ s.hist.spoilt = Link.hist.spoilt
    <3>1. Closed(y, s)
      BY <2>1, <2>2, CloseFields
    <3> QED
      BY <1>4, <2>2, <3>1 DEF Closed
  <2>5. LinkInv(s)
    BY <1>0, <1>2, <1>7, <2>3 DEF LinkInv, Up
  <2>6. s.usb.session => s.d.ready \/ s.d.error
    BY <1>0, <1>2, <2>3 DEF BusInv
  <2>7. LoopInv(s, "task", "none", chk', bulb')
    BY <1>0, <1>1, <1>2, <1>7, <2>3 DEF LoopInv
  <2> QED
    BY <1>0, <1>1, <1>3, <1>5, <2>1, <2>3, <2>5, <2>6, <2>7, BeginKeeps, ZenonT(60) DEF CameraInv
<1>8. CASE /\ ~(changed /\ d.ready /\ ~cam.ready)
           /\ ~(changed /\ ~d.ready /\ ~cam.disabled)
  <2>1. s = seen /\ script = <<>>
    BY <1>8
  <2> HIDE DEF s
  <2>5. LinkInv(s)
    BY <1>0, <1>2, <1>4, <1>8, <2>1 DEF LinkInv, Up
  <2>6. s.usb.session => s.d.ready \/ s.d.error
    BY <1>0, <1>4, <2>1 DEF BusInv
  <2>7. LoopInv(s, "task", "none", chk', bulb')
    <3>1. ~d.ready /\ cam.ready => ~chk
      BY <1>0, <1>2, <1>3, <1>8 DEF LinkInv
    <3>2. Link.hist.unseen \in {"no", "may", "is"}
      BY <1>0 DEF LinkState, History
    <3> QED
      BY <1>0, <1>1, <1>2, <1>4, <2>1, <3>1, <3>2 DEF LoopInv, LinkInv, Up
  <2> QED
    BY <1>0, <1>1, <1>3, <1>4, <1>5, <2>1, <2>5, <2>6, <2>7, BeginKeeps, ZenonT(60) DEF CameraInv
<1> QED
  BY <1>6, <1>7, <1>8

\* Set(Link) is a step that leaves the link alone.
LEMMA SetLink ==
    ASSUME UNCHANGED <<usb, d, cam, conf, serial, hist>>
    PROVE  Set(Link)
  BY DEF Set, Link

\* PTP_Task in the main loop.
LEMMA UsbTaskKeeps ==
    ASSUME CameraInv, UsbTask
    PROVE  CameraInv'
<1>0. /\ Link \in LinkState /\ main \in MainState
      /\ LinkInv(Link) /\ BusInv(Link, "none", main.clash)
      /\ LoopInv(Link, "task", "none", chk, bulb)
  BY IdleFacts DEF UsbTask
<1>1. UNCHANGED <<chk, mode, bulb, run_state>>
  BY DEF UsbTask
<1>2. "poll" \in Phases /\ <<>> \in Scripts /\ FirstOp(<<>>) = "none"
  BY ScriptFacts DEF Phases
<1>3. CASE mode = 1 /\ ~cam.disabled
  <2> DEFINE s == PTP_Task(Link)
             script == TaskScript(Link)
  <2>1. Set(s) /\ Begin(Link, script, "poll")
    BY <1>3 DEF UsbTask
  <2>2. /\ s \in LinkState /\ s.usb = Link.usb /\ s.cam = Link.cam /\ s.conf = Link.conf
        /\ s.serial = Link.serial /\ s.d.error = Link.d.error
        /\ s.d.remaining = Link.d.remaining
        /\ s.hist.hit = Link.hist.hit /\ s.hist.unseen = Link.hist.unseen
        /\ s.hist.spoilt = Link.hist.spoilt
        /\ Link.usb.host = "configured" => s.d.configured = TRUE /\ s.d.ready = Link.d.ready
        /\ Link.usb.host # "configured" => s.d.configured = FALSE /\ s.d.ready = FALSE
    BY <1>0, TaskFields
  <2> HIDE DEF s
  <2>3. /\ script \in Scripts /\ FirstOp(script) \in {"none", "open"}
        /\ FirstOp(script) = "open" => Link.usb.host = "configured" /\ ~Link.d.configured
    BY TaskScriptFacts
  <2> HIDE DEF script
  <2>4. LinkInv(s)
    BY <1>0, <2>2 DEF LinkInv, Up
  <2>5. s.usb.session => s.d.ready \/ s.d.error
    BY <1>0, <2>2 DEF LinkInv, BusInv
  <2>6. /\ LoopInv(s, "poll", "none", chk', bulb')
        /\ LoopInv(s, "poll", FirstOp(script), chk', bulb')
    BY <1>0, <1>1, <2>2, <2>3 DEF LoopInv
  <2>7. FirstOp(script) # "none" => BusInv(s, FirstOp(script), FALSE)
    <3>1. ~Link.cam.disabled
      BY <1>3 DEF Link
    <3>2. Link.d.remaining \in Nat
      BY <1>0, CameraAssumption DEF LinkState, Driver
    <3> QED
      BY <1>0, <2>2, <2>3, <3>1, <3>2 DEF BusInv, LinkInv, LoopInv, Up
  <2> QED
    BY <1>0, <1>1, <1>2, <2>1, <2>2, <2>3, <2>4, <2>5, <2>6, <2>7, BeginKeeps DEF CameraInv
<1>4. CASE ~(mode = 1 /\ ~cam.disabled)
  <2>1. Set(Link) /\ Begin(Link, <<>>, "poll")
    BY <1>4 DEF UsbTask
  <2>2. LoopInv(Link, "poll", "none", chk', bulb')
    BY <1>0, <1>1 DEF LoopInv
  <2>3. Link.usb.session => Link.d.ready \/ Link.d.error
    BY <1>0 DEF BusInv
  <2> QED
    BY <1>0, <1>1, <1>2, <2>1, <2>2, <2>3, BeginKeeps DEF CameraInv
<1> QED
  BY <1>3, <1>4

\* checkEvent.
LEMMA checkEventKeeps ==
    ASSUME CameraInv, checkEvent
    PROVE  CameraInv'
<1>0. /\ Link \in LinkState /\ main \in MainState
      /\ LinkInv(Link) /\ BusInv(Link, "none", main.clash)
      /\ LoopInv(Link, "poll", "none", chk, bulb)
  BY IdleFacts DEF checkEvent
<1>1. UNCHANGED <<chk, mode, bulb, run_state>> /\ Set(Link)
  BY SetLink DEF checkEvent
<1>2. "remote" \in Phases
  BY DEF Phases
<1>3. PICK skip \in BOOLEAN :
        Begin(Link, IF skip THEN <<>> ELSE PollScript(Link), "remote")
  BY DEF checkEvent
<1> DEFINE script == IF skip THEN <<>> ELSE PollScript(Link)
<1>4. /\ script \in Scripts /\ FirstOp(script) \in {"none", "cameraReady", "poll"}
      /\ FirstOp(script) # "none" => ~Link.cam.bulb_open
  BY ScriptFacts, PollScriptFacts
<1>5. Begin(Link, script, "remote")
  BY <1>3
<1> HIDE DEF script
<1>6. Link.usb.session => Link.d.ready \/ Link.d.error
  BY <1>0 DEF BusInv
<1>7. /\ LoopInv(Link, "remote", "none", chk', bulb')
      /\ LoopInv(Link, "remote", FirstOp(script), chk', bulb')
  BY <1>0, <1>1, <1>4 DEF LoopInv
<1>8. FirstOp(script) # "none" => BusInv(Link, FirstOp(script), FALSE)
  BY <1>4, <1>6 DEF BusInv
<1> QED
  BY <1>0, <1>1, <1>2, <1>4, <1>5, <1>6, <1>7, <1>8, BeginKeeps DEF CameraInv

\* The phase a handler returns to.
LEMMA AfterFacts ==
    After \in Backs /\ After \in Resting
  BY DEF After, Backs, Resting, Phases

\* enable: the camera has to come up again, and the loop waits for it if it was off.
LEMMA EnableKeeps ==
    ASSUME CameraInv, main.todo = <<>>, main.at # "delay",
           NEW s \in LinkState, NEW back \in Backs, Enable(s, back),
           s.serial = Link.serial, ~s.hist.hit,
           s.cam.disabled => ~s.cam.ready /\ s.hist.unseen = "no",
           s.cam.ready => s.serial \in Cameras /\ (chk \/ s.hist.unseen # "no"),
           chk' = chk, bulb' = bulb, run_state' \in RunStates, mode' \in {0, 1}
    PROVE  CameraInv'
<1> DEFINE p == PTP_Enable(s)
           e == [p EXCEPT !.cam.disabled = FALSE, !.hist.kept = FALSE]
           at == IF s.cam.disabled THEN "wait" ELSE back
<1>1. Set(e) /\ main' = [main EXCEPT !.at = at, !.back = back]
  BY DEF Enable
<1>2. /\ p \in LinkState /\ p.cam = s.cam /\ p.conf = s.conf /\ p.serial = s.serial
      /\ p.usb.plug = s.usb.plug /\ p.usb.host = "idle"
      /\ p.usb.session = FALSE /\ p.usb.shutter = FALSE
      /\ p.d.ready = FALSE /\ p.d.configured = FALSE /\ p.d.remaining = 0
      /\ p.d.error = FALSE
      /\ p.hist.hit = s.hist.hit /\ p.hist.unseen = s.hist.unseen
  BY EnableFields
<1> HIDE DEF p
<1>3. /\ e \in LinkState /\ e.usb = p.usb /\ e.d = p.d /\ e.conf = p.conf
      /\ e.serial = p.serial /\ e.hist.hit = p.hist.hit /\ e.hist.unseen = p.hist.unseen
      /\ e.cam.ready = p.cam.ready /\ e.cam.bulb_open = p.cam.bulb_open
      /\ e.cam.bulb = p.cam.bulb /\ e.cam.disabled = FALSE
  BY <1>2 DEF LinkState, CameraObject, History
<1> HIDE DEF e
<1>4. /\ Link \in LinkState /\ main \in MainState /\ FirstOp(main.todo) = "none"
      /\ BusInv(Link, "none", main.clash) /\ LoopInv(Link, main.at, "none", chk, bulb)
  BY DEF CameraInv, FirstOp
<1>5. at \in Phases /\ at \in Backs \cup {"wait"} /\ (at = "wait" => s.cam.disabled)
  BY DEF Phases, Backs
<1> HIDE DEF at
<1>6. /\ main' \in MainState /\ main'.at = at /\ main'.todo = <<>> /\ main'.clash = main.clash
  BY <1>1, <1>4, <1>5 DEF MainState
<1>7. FirstOp(main'.todo) = "none"
  BY <1>6 DEF FirstOp
<1>8. LinkInv(e)
  BY <1>2, <1>3 DEF LinkInv, Up
<1>9. BusInv(e, "none", main'.clash)
  BY <1>2, <1>3, <1>4, <1>6 DEF BusInv
<1>10. LoopInv(e, at, "none", chk', bulb')
  BY <1>2, <1>3, <1>4, <1>5 DEF LoopInv, Backs
<1> QED
  BY <1>1, <1>3, <1>6, <1>7, <1>8, <1>9, <1>10, Closing DEF CameraInv

\* The cable switches the port.
LEMMA SwitchKeeps ==
    ASSUME CameraInv, SwitchUsb
    PROVE  CameraInv'
<1>0. /\ Link \in LinkState /\ main \in MainState /\ main.at = "usbmode" /\ main.todo = <<>>
      /\ LinkInv(Link) /\ BusInv(Link, "none", main.clash)
      /\ LoopInv(Link, "usbmode", "none", chk, bulb)
  BY IdleFacts DEF SwitchUsb
<1>1. UNCHANGED <<chk, bulb, run_state>>
  BY DEF SwitchUsb
<1>2. "menu" \in Phases /\ "menu" \in Backs /\ <<>> \in Scripts /\ FirstOp(<<>>) = "none"
  BY ScriptFacts DEF Phases, Backs
<1>3. Link.usb.session => Link.d.ready \/ Link.d.error
  BY <1>0 DEF BusInv
<1>4. CASE mode' = 1 /\ Enable(Link, "menu")
  BY <1>0, <1>1, <1>2, <1>4, EnableKeeps DEF CameraInv, LinkInv, LoopInv
<1>5. CASE mode' = 0 /\ Set(PTP_Disable(Link)) /\ Begin(Link, <<>>, "menu") /\ ~cam.disabled
  <2> DEFINE s == PTP_Disable(Link)
  <2>1. /\ s \in LinkState /\ s.cam = Link.cam /\ s.conf = Link.conf
        /\ s.serial = Link.serial
        /\ s.usb.plug = Link.usb.plug /\ s.usb.host = "off"
        /\ s.usb.session = FALSE /\ s.usb.shutter = FALSE
        /\ s.d.ready = FALSE /\ s.d.configured = FALSE /\ s.d.remaining = 0
        /\ s.d.error = Link.d.error
        /\ s.hist.hit = Link.hist.hit /\ s.hist.unseen = Link.hist.unseen
    BY <1>0, DisableFields
  <2>2. Set(s)
    BY <1>5
  <2> HIDE DEF s
  <2>3. LinkInv(s)
    BY <1>0, <2>1 DEF LinkInv, Up
  <2>4. LoopInv(s, "menu", "none", chk', bulb')
    BY <1>0, <1>1, <2>1 DEF LoopInv
  <2> QED
    BY <1>0, <1>1, <1>2, <1>5, <2>1, <2>2, <2>3, <2>4, BeginKeeps DEF CameraInv
<1>6. CASE mode' = mode /\ Set(Link) /\ Begin(Link, <<>>, "menu")
  <2>1. LoopInv(Link, "menu", "none", chk', bulb')
    BY <1>0, <1>1 DEF LoopInv
  <2> QED
    BY <1>0, <1>1, <1>2, <1>3, <1>6, <2>1, BeginKeeps DEF CameraInv
<1> QED
  BY <1>4, <1>5, <1>6 DEF SwitchUsb

\* The loop of enable.
LEMMA WaitKeeps ==
    ASSUME CameraInv, Wait
    PROVE  CameraInv'
<1>0. /\ Link \in LinkState /\ main \in MainState
      /\ LinkInv(Link) /\ BusInv(Link, "none", main.clash)
      /\ LoopInv(Link, "wait", "none", chk, bulb)
  BY IdleFacts DEF Wait
<1>1. UNCHANGED <<chk, mode, bulb, run_state>>
  BY DEF Wait
<1>2. /\ "wait" \in Phases /\ "last" \in Phases /\ <<>> \in Scripts
      /\ FirstOp(<<>>) = "none" /\ main.back \in Backs /\ main.back \in Phases
  BY <1>0, ScriptFacts DEF Phases, Backs, MainState
<1>3. Link.usb.session => Link.d.ready \/ Link.d.error
  BY <1>0 DEF BusInv
<1>4. CASE ~d.ready /\ Set(PTP_Task(Link)) /\ Begin(Link, TaskScript(Link), "wait")
  <2> DEFINE s == PTP_Task(Link)
             script == TaskScript(Link)
  <2>1. Set(s) /\ Begin(Link, script, "wait") /\ ~Link.d.ready
    BY <1>4 DEF Link
  <2>2. /\ s \in LinkState /\ s.usb = Link.usb /\ s.cam = Link.cam /\ s.conf = Link.conf
        /\ s.serial = Link.serial /\ s.d.error = Link.d.error
        /\ s.d.remaining = Link.d.remaining
        /\ s.hist.hit = Link.hist.hit /\ s.hist.unseen = Link.hist.unseen
        /\ s.hist.spoilt = Link.hist.spoilt
        /\ Link.usb.host = "configured" => s.d.configured = TRUE /\ s.d.ready = Link.d.ready
        /\ Link.usb.host # "configured" => s.d.configured = FALSE /\ s.d.ready = FALSE
    BY <1>0, TaskFields
  <2> HIDE DEF s
  <2>3. /\ script \in Scripts /\ FirstOp(script) \in {"none", "open"}
        /\ FirstOp(script) = "open" => Link.usb.host = "configured" /\ ~Link.d.configured
    BY TaskScriptFacts
  <2> HIDE DEF script
  <2>4. LinkInv(s)
    BY <1>0, <2>2 DEF LinkInv, Up
  <2>5. s.usb.session => s.d.ready \/ s.d.error
    BY <1>0, <2>2 DEF LinkInv, BusInv
  <2>6. /\ LoopInv(s, "wait", "none", chk', bulb')
        /\ LoopInv(s, "wait", FirstOp(script), chk', bulb')
    BY <1>0, <1>1, <2>2, <2>3 DEF LoopInv
  <2>7. FirstOp(script) # "none" => BusInv(s, FirstOp(script), FALSE)
    <3>1. Link.d.remaining \in Nat
      BY <1>0, CameraAssumption DEF LinkState, Driver
    <3> QED
      BY <1>0, <2>1, <2>2, <2>3, <3>1 DEF BusInv, LinkInv, LoopInv, Up
  <2> QED
    BY <1>0, <1>1, <1>2, <2>1, <2>2, <2>3, <2>4, <2>5, <2>6, <2>7, BeginKeeps DEF CameraInv
<1>5. ASSUME d.ready, NEW s, s = [init(Link) EXCEPT !.hist.unseen = IF chk THEN "no" ELSE "may"],
             Set(s), Begin(s, InitScript(s), "last")
      PROVE  CameraInv'
  <2> DEFINE i == init(Link)
             script == InitScript(s)
  <2>1. Link.d.ready /\ Link.serial \in Cameras
    BY <1>0, <1>5 DEF Link, LinkInv
  <2>2. /\ i \in LinkState /\ i.usb = Link.usb /\ i.d = Link.d /\ i.serial = Link.serial
        /\ i.conf = Link.serial /\ i.cam.bulb_open = FALSE /\ i.cam.disabled = Link.cam.disabled
        /\ i.hist.hit = Link.hist.hit /\ i.hist.spoilt = Link.hist.spoilt
    BY <1>0, <2>1, InitFields
  <2>3. s = [i EXCEPT !.hist.unseen = IF chk THEN "no" ELSE "may"]
    BY <1>5
  <2> HIDE DEF i
  <2>4. /\ s \in LinkState /\ s.usb = i.usb /\ s.d = i.d /\ s.serial = i.serial
        /\ s.conf = i.conf /\ s.cam = i.cam
        /\ s.hist.hit = i.hist.hit /\ s.hist.spoilt = i.hist.spoilt
        /\ s.hist.unseen = IF chk THEN "no" ELSE "may"
    BY <2>2, <2>3 DEF LinkState, History
  <2>5. /\ script \in Scripts
        /\ FirstOp(script) \in {"none", "cameraReady", "poll", "connect"}
    BY InitScriptFacts
  <2>6. Begin(s, script, "last")
    BY <1>5
  <2> HIDE DEF script
  <2>7. LinkInv(s)
    BY <1>0, <2>1, <2>2, <2>4 DEF LinkInv, LoopInv, Up
  <2>8. /\ LoopInv(s, "last", "none", chk', bulb')
        /\ LoopInv(s, "last", FirstOp(script), chk', bulb')
    BY <1>0, <1>1, <2>1, <2>2, <2>4, <2>5 DEF LoopInv, LinkInv, Up
  <2>9. BusInv(s, FirstOp(script), FALSE)
    BY <1>0, <2>1, <2>2, <2>4, <2>5 DEF BusInv, LinkInv, LoopInv, Up
  <2>10. s.usb.session => s.d.ready \/ s.d.error
    BY <2>1, <2>2, <2>4
  <2> QED
    BY <1>0, <1>1, <1>2, <1>5, <2>4, <2>5, <2>6, <2>7, <2>8, <2>9, <2>10, BeginKeeps, ZenonT(60)
    DEF CameraInv
<1>6. CASE Set(Link) /\ Begin(Link, <<>>, main.back)
  <2>1. LoopInv(Link, main.back, "none", chk', bulb')
    BY <1>0, <1>1, <1>2 DEF LoopInv, Backs
  <2> QED
    BY <1>0, <1>1, <1>2, <1>3, <1>6, <2>1, BeginKeeps DEF CameraInv
<1> QED
  BY <1>4, <1>5, <1>6 DEF Wait

\* The last PTP_Task of enable finds a device it has opened already.
LEMMA WaitEndsKeeps ==
    ASSUME CameraInv, WaitEnds
    PROVE  CameraInv'
<1>0. /\ Link \in LinkState /\ main \in MainState
      /\ LinkInv(Link) /\ BusInv(Link, "none", main.clash)
      /\ LoopInv(Link, "last", "none", chk, bulb)
  BY IdleFacts DEF WaitEnds
<1>1. UNCHANGED <<chk, mode, bulb, run_state>>
  BY DEF WaitEnds
<1>2. main.back \in Backs /\ main.back \in Phases
  BY <1>0 DEF Phases, Backs, MainState
<1> DEFINE s == PTP_Task(Link)
           script == TaskScript(Link)
<1>3. Set(s) /\ Begin(Link, script, main.back)
  BY DEF WaitEnds
<1>4. /\ s \in LinkState /\ s.usb = Link.usb /\ s.cam = Link.cam /\ s.conf = Link.conf
      /\ s.serial = Link.serial /\ s.d.error = Link.d.error
      /\ s.d.remaining = Link.d.remaining
      /\ s.hist.hit = Link.hist.hit /\ s.hist.unseen = Link.hist.unseen
      /\ s.hist.spoilt = Link.hist.spoilt
      /\ Link.usb.host = "configured" => s.d.configured = TRUE /\ s.d.ready = Link.d.ready
      /\ Link.usb.host # "configured" => s.d.configured = FALSE /\ s.d.ready = FALSE
  BY <1>0, TaskFields
<1> HIDE DEF s
<1>5. script \in Scripts /\ FirstOp(script) = "none"
  BY <1>0, TaskScriptFacts DEF LoopInv, Up
<1> HIDE DEF script
<1>6. LinkInv(s)
  BY <1>0, <1>4 DEF LinkInv, Up
<1>7. s.usb.session => s.d.ready \/ s.d.error
  BY <1>0, <1>4 DEF LinkInv, BusInv
<1>8. LoopInv(s, main.back, "none", chk', bulb')
  BY <1>0, <1>1, <1>2, <1>4 DEF LoopInv, Backs
<1> QED
  BY <1>0, <1>1, <1>2, <1>3, <1>4, <1>5, <1>6, <1>7, <1>8, BeginKeeps DEF CameraInv

-----------------------------------------------------------------------------
(* The timer, the screens and the remote control.                          *)

\* Where these handlers run.
Handler ==
    /\ main.todo = <<>>
    /\ main.at \in {"menu", "timer", "remote", "mode", "aperture", "iso", "shutter", "shot",
                   "reset", "recovered"}

\* The invariant where a handler starts.
LEMMA HandlerFacts ==
    ASSUME CameraInv, Handler
    PROVE  /\ Link \in LinkState /\ main \in MainState /\ FirstOp(main.todo) = "none"
           /\ LinkInv(Link) /\ BusInv(Link, "none", main.clash)
           /\ LoopInv(Link, main.at, "none", chk, bulb)
           /\ bulb # "new" /\ main.at # "delay"
           /\ Link.usb.session => Link.d.ready \/ Link.d.error
           /\ <<>> \in Scripts /\ FirstOp(<<>>) = "none"
  BY ScriptFacts DEF CameraInv, FirstOp, Handler, LoopInv, BusInv

\* The invariant of the phase a handler returns to.
LEMMA ReturnLoop ==
    ASSUME bulb' = bulb, bulb # "new", NEW s, NEW at \in Resting,
           NEW op \in {"none", "start", "end", "set", "capture"},
           s.cam.ready => chk' \/ s.hist.unseen # "no"
    PROVE  LoopInv(s, at, op, chk', bulb') /\ at \in Phases
  BY DEF LoopInv, Resting

\* A handler that sends nothing.
LEMMA Returns ==
    ASSUME CameraInv, Handler, NEW s \in LinkState, Set(s), NEW x, NEW at \in Resting,
           Begin(x, <<>>, at),
           LinkInv(s), s.usb.session => s.d.ready \/ s.d.error,
           s.cam.ready => chk \/ s.hist.unseen # "no",
           chk' = chk, bulb' = bulb, mode' = mode, run_state' \in RunStates
    PROVE  CameraInv'
<1>1. LoopInv(s, at, "none", chk', bulb') /\ at \in Phases
  BY HandlerFacts, ReturnLoop
<1> QED
  BY <1>1, HandlerFacts, BeginKeeps DEF CameraInv

\* A ready camera object was notified of, or came up unseen.
LEMMA LinkReady ==
    ASSUME CameraInv, Handler
    PROVE  Link.cam.ready => chk \/ Link.hist.unseen # "no"
  BY HandlerFacts DEF LoopInv

\* A handler that does nothing.
LEMMA ReturnsLink ==
    ASSUME CameraInv, Handler, Set(Link), NEW x, NEW at \in Resting, Begin(x, <<>>, at),
           chk' = chk, bulb' = bulb, mode' = mode, run_state' \in RunStates
    PROVE  CameraInv'
  BY HandlerFacts, LinkReady, Returns

\* A handler that sends one command.
LEMMA Sends ==
    ASSUME CameraInv, Handler, NEW s \in LinkState, Set(s), NEW x, NEW at \in Resting,
           NEW op \in {"start", "end", "set", "capture"}, Begin(x, <<op>>, at),
           LinkInv(s), s.usb.session => s.d.ready \/ s.d.error,
           s.cam.ready => chk \/ s.hist.unseen # "no",
           op = "start" => s.cam.ready /\ s.cam.bulb_open /\ (x.d.error <=> s.d.error),
           chk' = chk, bulb' = bulb, mode' = mode, run_state' \in RunStates
    PROVE  CameraInv'
<1>1. /\ LoopInv(s, at, "none", chk', bulb') /\ LoopInv(s, at, op, chk', bulb')
      /\ at \in Phases
  BY HandlerFacts, ReturnLoop
<1>2. ~x.d.error => BusInv(s, op, FALSE)
  BY DEF BusInv
<1>3. <<op>> \in Scripts /\ FirstOp(<<op>>) = op /\ op # "open"
  BY ScriptFacts DEF Ops
<1> QED
  BY <1>1, <1>2, <1>3, HandlerFacts, BeginKeeps DEF CameraInv

\* Nothing is left to relate once the camera is off.
LEMMA DisabledKeeps ==
    ASSUME NEW s, NEW e, LinkInv(s), Disabled(s, e)
    PROVE  LinkInv(e)
  BY DEF Disabled, LinkInv, Up

\* The camera switched off by a handler, to stay off.
LEMMA SwitchesOff ==
    ASSUME CameraInv, Handler, Set([disable(Link) EXCEPT !.hist.kept = TRUE]),
           Begin(Link, <<>>, After), UNCHANGED <<chk, mode, bulb, run_state>>
    PROVE  CameraInv'
<1> DEFINE e == disable(Link)
           s == [e EXCEPT !.hist.kept = TRUE]
<1>1. Disabled(Link, e)
  BY HandlerFacts, disableFields
<1>2. LinkInv(e) /\ e \in LinkState
  BY <1>1, HandlerFacts, DisabledKeeps DEF Disabled
<1> HIDE DEF e
<1>3. /\ s \in LinkState /\ s.usb = e.usb /\ s.d = e.d /\ s.cam = e.cam /\ s.conf = e.conf
      /\ s.serial = e.serial /\ s.hist.hit = e.hist.hit /\ s.hist.unseen = e.hist.unseen
      /\ s.hist.spoilt = e.hist.spoilt
  BY <1>2 DEF LinkState, History
<1>4. Set(s)
  BY DEF e
<1> HIDE DEF s
<1>5. LinkInv(s)
  BY <1>2, <1>3 DEF LinkInv, Up
<1> QED
  BY <1>1, <1>3, <1>4, <1>5, Returns, AfterFacts DEF Disabled, CameraInv

\* The camera switched off and on again.
LEMMA Restarts ==
    ASSUME CameraInv, Handler, NEW back \in Backs, Enable(disable(Link), back),
           UNCHANGED <<chk, mode, bulb>>, run_state' \in RunStates
    PROVE  CameraInv'
<1> DEFINE e == disable(Link)
<1>1. Disabled(Link, e)
  BY HandlerFacts, disableFields
<1> HIDE DEF e
<1>2. Enable(e, back)
  BY DEF e
<1>3. LinkInv(Link) /\ main.todo = <<>> /\ main.at # "delay"
  BY HandlerFacts DEF Handler
<1> QED
  BY <1>1, <1>2, <1>3, EnableKeeps DEF Disabled, CameraInv, LinkInv

\* The camera switched on by a handler.
LEMMA SwitchesOn ==
    ASSUME CameraInv, Handler, Enable(Link, After),
           UNCHANGED <<chk, mode, bulb>>, run_state' \in RunStates
    PROVE  CameraInv'
<1>1. main.todo = <<>> /\ main.at # "delay" /\ Link \in LinkState
  BY HandlerFacts DEF Handler
<1>2. /\ ~Link.hist.hit /\ (Link.cam.disabled => ~Link.cam.ready /\ Link.hist.unseen = "no")
      /\ (Link.cam.ready => Link.serial \in Cameras)
  BY HandlerFacts DEF LinkInv
<1> QED
  BY <1>1, <1>2, LinkReady, AfterFacts, EnableKeeps DEF CameraInv

\* The record of the link is the variables.
LEMMA LinkFields ==
    /\ Link.usb = usb /\ Link.d = d /\ Link.cam = cam /\ Link.conf = conf
    /\ Link.serial = serial /\ Link.hist = hist
  BY DEF Link

\* The object that knows the shutter is open.
LEMMA OpenFields ==
    ASSUME NEW s \in LinkState, NEW e, e = [s EXCEPT !.cam.bulb_open = TRUE]
    PROVE  /\ e \in LinkState /\ e.usb = s.usb /\ e.d = s.d /\ e.conf = s.conf
           /\ e.serial = s.serial /\ e.hist = s.hist /\ e.cam.bulb_open = TRUE
           /\ e.cam.ready = s.cam.ready /\ e.cam.disabled = s.cam.disabled
           /\ e.cam.bulb = s.cam.bulb
           /\ LinkInv(s) => LinkInv(e)
<1>1. /\ e \in LinkState /\ e.usb = s.usb /\ e.d = s.d /\ e.conf = s.conf
      /\ e.serial = s.serial /\ e.hist = s.hist /\ e.cam.bulb_open = TRUE
      /\ e.cam.ready = s.cam.ready /\ e.cam.disabled = s.cam.disabled
      /\ e.cam.bulb = s.cam.bulb
  BY DEF LinkState, CameraObject
<1> QED
  BY <1>1 DEF LinkInv, Up

\* A bulb exposure begins: bulb_open is set before the tick sends.
LEMMA ExposeKeeps ==
    ASSUME CameraInv, Expose
    PROVE  CameraInv'
<1>0. /\ Link \in LinkState /\ main \in MainState /\ main.todo = <<>>
      /\ LinkInv(Link) /\ BusInv(Link, "none", main.clash)
      /\ LoopInv(Link, "shutter", "none", chk, bulb)
  BY IdleFacts DEF Expose
<1> DEFINE y == [Link EXCEPT !.cam.bulb_open = TRUE]
           s == IF cam.ready /\ Sony THEN disable(y) ELSE y
<1>1. /\ Set(s) /\ bulb' = "new" /\ run_state' = "bulb" /\ UNCHANGED <<chk, mode>>
      /\ main' = [main EXCEPT !.at = "delay"]
  BY DEF Expose
<1>2. /\ y \in LinkState /\ y.usb = Link.usb /\ y.d = Link.d
      /\ y.serial = Link.serial /\ y.hist = Link.hist /\ y.cam.bulb_open = TRUE
      /\ y.cam.ready = Link.cam.ready /\ LinkInv(y)
  BY <1>0, OpenFields, ZenonT(60)
<1> HIDE DEF y
<1>3. /\ main' \in MainState /\ main'.at = "delay" /\ main'.todo = <<>>
      /\ main'.clash = main.clash
  BY <1>0, <1>1 DEF MainState, Phases
<1>4. FirstOp(main'.todo) = "none"
  BY <1>3 DEF FirstOp
<1>5. CASE s = y
  <2> HIDE DEF s
  <2>1. BusInv(s, "none", main'.clash)
    BY <1>0, <1>2, <1>3, <1>5 DEF BusInv
  <2>2. LoopInv(s, "delay", "none", chk', bulb')
    BY <1>0, <1>1, <1>2, <1>5 DEF LoopInv
  <2> QED
    BY <1>1, <1>2, <1>3, <1>4, <1>5, <2>1, <2>2, Closing DEF CameraInv, RunStates
<1>6. CASE s = disable(y)
  <2>1. Disabled(y, s)
    BY <1>2, <1>6, disableFields
  <2> HIDE DEF s
  <2>2. LinkInv(s)
    BY <1>2, <2>1, DisabledKeeps
  <2>3. BusInv(s, "none", main'.clash)
    BY <1>0, <1>2, <1>3, <2>1 DEF BusInv, Disabled
  <2>4. LoopInv(s, "delay", "none", chk', bulb')
    BY <1>1, <2>1 DEF LoopInv, Disabled
  <2> QED
    BY <1>1, <1>3, <1>4, <2>1, <2>2, <2>3, <2>4, Closing DEF CameraInv, RunStates, Disabled
<1> QED
  BY <1>5, <1>6

\* The delay after clock.bulb is over.
LEMMA ExposedKeeps ==
    ASSUME CameraInv, Exposed
    PROVE  CameraInv'
<1>0. /\ Link \in LinkState /\ main \in MainState /\ main.todo = <<>>
      /\ LinkInv(Link) /\ BusInv(Link, "none", main.clash)
      /\ LoopInv(Link, "delay", "none", chk, bulb)
  BY IdleFacts DEF Exposed
<1>1. /\ UNCHANGED <<chk, mode>> /\ main' = [main EXCEPT !.at = "notify"]
      /\ bulb' \in {"none", "new", "running", "failed"} /\ bulb' # "new"
      /\ run_state' \in RunStates
  BY DEF Exposed, CameraInv, RunStates
<1>2. Set(Link)
  BY SetLink DEF Exposed
<1>3. /\ main' \in MainState /\ main'.at = "notify" /\ main'.todo = <<>>
      /\ main'.clash = main.clash
  BY <1>0, <1>1 DEF MainState, Phases
<1>4. FirstOp(main'.todo) = "none"
  BY <1>3 DEF FirstOp
<1>5. LoopInv(Link, "notify", "none", chk', bulb')
  BY <1>0, <1>1 DEF LoopInv
<1> QED
  BY <1>0, <1>1, <1>2, <1>3, <1>4, <1>5, Closing DEF CameraInv

\* The exposure was ended by the tick.
LEMMA ExposureEndsKeeps ==
    ASSUME CameraInv, ExposureEnds
    PROVE  CameraInv'
<1>1. Handler /\ run_state' \in RunStates /\ UNCHANGED <<chk, mode, bulb>>
  BY DEF ExposureEnds, Handler, Idle, RunStates
<1>2. \/ Enable(Link, After)
      \/ Set(Link) /\ Begin(Link, <<>>, After)
  BY DEF ExposureEnds, BulbEndFinish
<1> QED
  BY <1>1, <1>2, SwitchesOn, ReturnsLink, AfterFacts

\* The run is stopped.
LEMMA StopKeeps ==
    ASSUME CameraInv, Stop
    PROVE  CameraInv'
<1>1. Handler /\ run_state' \in RunStates /\ UNCHANGED <<chk, mode, bulb>>
  BY DEF Stop, Handler, Idle, RunStates
<1> DEFINE kept == hist.kept \/ (run_state = "bulb" /\ cam.disabled)
           s == [Link EXCEPT !.hist.kept = kept]
<1>2. /\ Set(s) /\ "notify" \in Resting
      /\ Begin(Link, <<>>, "notify") \/ Begin(Link, <<"end">>, "notify")
  BY DEF Stop, Link, bulbEndScript, Resting, Phases
<1>3. kept \in BOOLEAN
  OBVIOUS
<1> HIDE DEF kept
<1>4. /\ s \in LinkState /\ s.usb = Link.usb /\ s.d = Link.d /\ s.cam = Link.cam
      /\ s.conf = Link.conf /\ s.serial = Link.serial /\ s.hist.hit = Link.hist.hit
      /\ s.hist.unseen = Link.hist.unseen /\ s.hist.spoilt = Link.hist.spoilt
  BY <1>1, <1>3, HandlerFacts DEF LinkState, History
<1> HIDE DEF s
<1>5. LinkInv(s)
  BY <1>1, <1>4, HandlerFacts DEF LinkInv, Up
<1>6. s.usb.session => s.d.ready \/ s.d.error
  BY <1>1, <1>4, HandlerFacts
<1>7. s.cam.ready => chk \/ s.hist.unseen # "no"
  BY <1>1, <1>4, LinkReady
<1> QED
  BY <1>1, <1>2, <1>4, <1>5, <1>6, <1>7, Returns, Sends

\* resetConnection.
LEMMA ResetKeeps ==
    ASSUME CameraInv, Reset
    PROVE  CameraInv'
<1>1. /\ Handler /\ Enable(disable(Link), After) /\ UNCHANGED <<chk, mode, bulb>>
      /\ run_state' \in RunStates
  BY DEF Reset, Handler, Idle, CameraInv
<1> QED
  BY <1>1, Restarts, AfterFacts

\* The camera is switched off or on by hand.
LEMMA ToggleKeeps ==
    ASSUME CameraInv, Toggle
    PROVE  CameraInv'
<1>1. Handler /\ UNCHANGED <<chk, mode, bulb, run_state>> /\ run_state' \in RunStates
  BY DEF Toggle, Handler, Idle, CameraInv
<1>2. \/ Enable(Link, After)
      \/ /\ Set([disable(Link) EXCEPT !.hist.kept = TRUE])
         /\ Begin(Link, <<>>, After)
  BY DEF Toggle
<1> QED
  BY <1>1, <1>2, SwitchesOn, SwitchesOff

\* timer.bulbStart.
LEMMA BulbStartKeeps ==
    ASSUME CameraInv, BulbStart
    PROVE  CameraInv'
<1>1. Handler /\ UNCHANGED <<chk, mode, bulb, run_state>> /\ run_state' \in RunStates
  BY DEF BulbStart, Handler, Idle, CameraInv
<1>2. CASE cam.ready /\ Sony
  <2>1. Set([disable(Link) EXCEPT !.hist.kept = TRUE]) /\ Begin(Link, <<>>, After)
    BY <1>2 DEF BulbStart
  <2> QED
    BY <1>1, <2>1, SwitchesOff
<1>3. CASE ~(cam.ready /\ Sony) /\ cam.bulb /\ cam.ready
  <2> DEFINE s == [Link EXCEPT !.cam.bulb_open = TRUE]
  <2>1. Set(s) /\ Begin(s, <<"start">>, After)
    BY <1>3 DEF BulbStart
  <2>2. /\ s \in LinkState /\ s.usb = Link.usb /\ s.d = Link.d
        /\ s.hist = Link.hist /\ s.cam.bulb_open = TRUE
        /\ s.cam.ready = Link.cam.ready /\ LinkInv(s)
    <3>1. Link \in LinkState /\ LinkInv(Link)
      BY <1>1, HandlerFacts
    <3> QED
      BY <3>1, OpenFields, ZenonT(60)
  <2> HIDE DEF s
  <2>3. s.cam.ready
    BY <1>3, <2>2, LinkFields
  <2>4. s.usb.session => s.d.ready \/ s.d.error
    BY <1>1, <2>2, HandlerFacts
  <2>5. chk \/ s.hist.unseen # "no"
    BY <1>1, <2>2, <2>3, LinkReady
  <2> QED
    BY <1>1, <2>1, <2>2, <2>3, <2>4, <2>5, Sends, AfterFacts
<1>4. CASE ~(cam.ready /\ Sony) /\ ~(cam.bulb /\ cam.ready)
  <2>1. Set(Link) /\ Begin(Link, <<>>, After)
    BY <1>4 DEF BulbStart
  <2> QED
    BY <1>1, <2>1, ReturnsLink, AfterFacts
<1> QED
  BY <1>2, <1>3, <1>4

\* A handler that sends one command and does nothing else.
LEMMA SendsLink ==
    ASSUME CameraInv, Handler, Set(Link), NEW at \in Resting,
           NEW op \in {"end", "set", "capture"},
           Begin(Link, <<op>>, at), UNCHANGED <<chk, mode, bulb>>, run_state' \in RunStates
    PROVE  CameraInv'
  BY HandlerFacts, LinkReady, Sends DEF CameraInv

\* timer.bulbEnd.
LEMMA BulbEndKeeps ==
    ASSUME CameraInv, BulbEnd
    PROVE  CameraInv'
<1>1. Handler /\ UNCHANGED <<chk, mode, bulb, run_state>> /\ run_state' \in RunStates
  BY DEF BulbEnd, Handler, Idle, CameraInv
<1>2. CASE bulbEndScript(Link) # <<>>
  <2>1. bulbEndScript(Link) = <<"end">>
    BY <1>2 DEF bulbEndScript
  <2>2. Set(Link) /\ Begin(Link, <<"end">>, After)
    BY <1>2, <2>1 DEF BulbEnd
  <2> QED
    BY <1>1, <2>2, SendsLink, AfterFacts
<1>3. CASE bulbEndScript(Link) = <<>>
  <2>1. \/ Enable(Link, After)
        \/ Set(Link) /\ Begin(Link, <<>>, After)
    BY <1>3 DEF BulbEnd, BulbEndFinish
  <2> QED
    BY <1>1, <2>1, SwitchesOn, ReturnsLink, AfterFacts
<1> QED
  BY <1>2, <1>3

\* capture.
LEMMA CaptureKeeps ==
    ASSUME CameraInv, Capture
    PROVE  CameraInv'
<1>1. Handler /\ UNCHANGED <<chk, mode, bulb>> /\ run_state' \in RunStates
  BY DEF Capture, Handler, Idle, CameraInv
<1>2. \/ Enable(disable(Link), After)
      \/ Set(Link) /\ Begin(Link, <<"capture">>, After)
  BY DEF Capture
<1> QED
  BY <1>1, <1>2, Restarts, SendsLink, AfterFacts

\* setISO, setAperture and setShutter.
LEMMA SetParameterKeeps ==
    ASSUME CameraInv, SetParameter
    PROVE  CameraInv'
<1>1. /\ Handler /\ UNCHANGED <<chk, mode, bulb, run_state>> /\ Set(Link)
      /\ Begin(Link, <<"set">>, After) /\ run_state' \in RunStates
  BY SetLink DEF SetParameter, Handler, Idle, CameraInv
<1> QED
  BY <1>1, SendsLink, AfterFacts

\* A pass without input.
LEMMA NothingToDoKeeps ==
    ASSUME CameraInv, NothingToDo
    PROVE  CameraInv'
<1>1. /\ Handler /\ UNCHANGED <<chk, mode, bulb, run_state>> /\ Set(Link)
      /\ Begin(Link, <<>>, After) /\ run_state' \in RunStates
  BY SetLink DEF NothingToDo, Handler, Idle, CameraInv
<1> QED
  BY <1>1, ReturnsLink, AfterFacts

\* A setting of the next photo.
LEMMA SetterKeeps ==
    ASSUME CameraInv, NEW from \in {"timer", "mode", "aperture", "iso"}, NEW to \in Resting,
           NEW supported, Setter(from, to, supported)
    PROVE  CameraInv'
<1>1. /\ Handler /\ UNCHANGED <<chk, mode, bulb>> /\ run_state' \in RunStates /\ Set(Link)
      /\ Begin(Link, <<>>, to) \/ Begin(Link, <<"set">>, to)
  BY SetLink DEF Setter, Handler, Idle, CameraInv
<1> QED
  BY <1>1, ReturnsLink, SendsLink

\* Mode, aperture, ISO and shutter speed.
LEMMA SettersKeep ==
    ASSUME CameraInv, SetMode \/ SetAperture \/ SetISO \/ SetShutter
    PROVE  CameraInv'
<1>1. {"mode", "aperture", "iso", "shutter"} \subseteq Resting
  BY DEF Resting, Phases
<1> QED
  BY <1>1, SetterKeeps DEF SetMode, SetAperture, SetISO, SetShutter

\* The passes of the timer that only move on.
LEMMA MovesKeep ==
    ASSUME CameraInv, SetterFails \/ Shot \/ NextFails \/ Recovered
    PROVE  CameraInv'
<1>1. /\ Handler /\ UNCHANGED <<chk, mode, bulb>> /\ run_state' \in RunStates /\ Set(Link)
      /\ Begin(Link, <<>>, "notify")
  BY SetLink DEF SetterFails, Shot, NextFails, Recovered, Handler, Idle, RunStates
<1>2. "notify" \in Resting
  BY DEF Resting, Phases
<1> QED
  BY <1>1, <1>2, ReturnsLink

\* A photo without bulb.
LEMMA ShootKeeps ==
    ASSUME CameraInv, Shoot
    PROVE  CameraInv'
<1>1. Handler /\ UNCHANGED <<chk, mode, bulb>> /\ run_state' \in RunStates
  BY DEF Shoot, Handler, Idle, CameraInv, RunStates
<1>2. \/ Enable(disable(Link), "notify")
      \/ Set(Link) /\ (Begin(Link, <<>>, "shot") \/ Begin(Link, <<"capture">>, "shot"))
  BY DEF Shoot
<1>3. "notify" \in Backs /\ "shot" \in Resting
  BY DEF Backs, Resting, Phases
<1> QED
  BY <1>1, <1>2, <1>3, Restarts, ReturnsLink, SendsLink

\* RUN_ERROR closes the shutter, then resets the connection.
LEMMA RunErrorKeeps ==
    ASSUME CameraInv, RunError
    PROVE  CameraInv'
<1>1. /\ Handler /\ UNCHANGED <<chk, mode, bulb>> /\ run_state' \in RunStates /\ Set(Link)
      /\ Begin(Link, <<>>, "reset") \/ Begin(Link, <<"end">>, "reset")
  BY SetLink DEF RunError, Handler, Idle, CameraInv, bulbEndScript
<1>2. "reset" \in Resting
  BY DEF Resting, Phases
<1> QED
  BY <1>1, <1>2, ReturnsLink, SendsLink

\* resetConnection by RUN_ERROR.
LEMMA RunResetKeeps ==
    ASSUME CameraInv, RunReset
    PROVE  CameraInv'
<1>1. /\ Handler /\ UNCHANGED <<chk, mode, bulb>> /\ run_state' \in RunStates
      /\ Enable(disable(Link), "recovered") /\ "recovered" \in Backs
  BY DEF RunReset, Handler, Idle, CameraInv, Backs
<1> QED
  BY <1>1, Restarts

-----------------------------------------------------------------------------
(* The millisecond interrupt and the USB host.                             *)

\* The history of a clash.
Noted(s, e, spoilt, hit) ==
    /\ e \in LinkState /\ e.usb = s.usb /\ e.d = s.d
    /\ e.cam = s.cam /\ e.conf = s.conf /\ e.serial = s.serial
    /\ e.hist.unseen = s.hist.unseen
    /\ e.hist.spoilt = spoilt /\ e.hist.hit = hit

\* Noting a clash changes the history alone.
LEMMA NotedFields ==
    ASSUME NEW s \in LinkState, NEW spoilt \in BOOLEAN, NEW hit \in BOOLEAN
    PROVE  Noted(s, [s EXCEPT !.hist.spoilt = spoilt, !.hist.hit = hit], spoilt, hit)
  BY DEF Noted, LinkState, History

\* A transaction of the interrupt: e is what it leaves, r.s the same with the clash noted.
Interrupted(e, r, op) ==
    /\ Sent(Link, e, op, r.ret, main.todo # <<>>)
    /\ r.s \in LinkState /\ r.s.usb = e.usb /\ r.s.d = e.d
    /\ r.s.cam = e.cam /\ r.s.conf = e.conf /\ r.s.serial = e.serial
    /\ r.s.hist.unseen = e.hist.unseen
    /\ e.hist.spoilt => r.s.hist.spoilt
    /\ r.s.hist.hit => \/ e.hist.hit
                      \/ /\ main.todo # <<>> /\ hist.unseen = "no"
                         /\ Head(main.todo) \in Background

\* The interrupt sends nothing, or makes one transaction.
LEMMA InterruptFacts ==
    ASSUME CameraInv, NEW op \in {"start", "end"}, NEW r \in InInterrupt(op)
    PROVE  \/ r.s = Link /\ r.ret = "error"
           \/ ~d.error /\ cam.ready /\ cam.bulb /\ \E e : Interrupted(e, r, op)
<1> DEFINE sends == ~d.error /\ cam.ready /\ cam.bulb
           clash == sends /\ main.todo # <<>>
<1>0. Link \in LinkState /\ main.clash \in BOOLEAN /\ Link.d = d
  BY LinkFields DEF CameraInv, MainState
<1>1. CASE ~sends
  <2>1. r = [s |-> Link, ret |-> "error"]
    BY <1>1 DEF InInterrupt
  <2> QED
    BY <2>1
<1>2. CASE sends
  <2>1. PICK answer \in Answers(Link, op, clash) :
          r = [Transact(Link, op, answer)
                 EXCEPT !.s.hist.spoilt = @ \/ (clash /\ usb.shutter) \/ (clash /\ op = "start"),
                        !.s.hist.hit = @ \/ (clash /\ hist.unseen = "no"
                                                 /\ Head(main.todo) \in Background)]
    BY <1>2 DEF InInterrupt
  <2> DEFINE x == Exchange(Link, op, answer)
  <2>2. Transact(Link, op, answer) = x
    BY <1>0, <1>2 DEF Transact
  <2>3. clash = (main.todo # <<>>) /\ clash \in BOOLEAN
    BY <1>2
  <2> HIDE DEF clash
  <2>4. Sent(Link, x.s, op, x.ret, clash)
    BY <1>0, <2>3, ExchangeSent DEF Ops
  <2>5. x = [s |-> x.s, ret |-> x.ret]
    <3>1. \A y : Fetch(Link, y) = [s |-> Fetch(Link, y).s, ret |-> Fetch(Link, y).ret]
      BY DEF Fetch
    <3> QED
      BY <3>1 DEF Exchange
  <2> DEFINE e == x.s
             spoilt == e.hist.spoilt \/ (clash /\ usb.shutter) \/ (clash /\ op = "start")
             hit == e.hist.hit \/ (clash /\ hist.unseen = "no" /\ Head(main.todo) \in Background)
  <2>6. e \in LinkState
    BY <2>4 DEF Sent
  <2>7. r = [x EXCEPT !.s.hist.spoilt = spoilt, !.s.hist.hit = hit]
    BY <2>1, <2>2, <2>5, <2>6 DEF LinkState, History
  <2>8. /\ spoilt \in BOOLEAN /\ hit \in BOOLEAN /\ (e.hist.spoilt => spoilt)
        /\ hit => \/ e.hist.hit
                  \/ /\ main.todo # <<>> /\ hist.unseen = "no"
                     /\ Head(main.todo) \in Background
    BY <2>3
  <2> HIDE DEF x, spoilt, hit
  <2>9. r.s = [e EXCEPT !.hist.spoilt = spoilt, !.hist.hit = hit] /\ r.ret = x.ret
    BY <2>5, <2>7
  <2> HIDE DEF e
  <2>10. /\ r.s \in LinkState /\ r.s.usb = e.usb /\ r.s.d = e.d
         /\ r.s.cam = e.cam /\ r.s.conf = e.conf /\ r.s.serial = e.serial
         /\ r.s.hist.unseen = e.hist.unseen
         /\ r.s.hist.spoilt = spoilt /\ r.s.hist.hit = hit
    <3>1. spoilt \in BOOLEAN /\ hit \in BOOLEAN
      BY <2>8
    <3>2. r.s = [e EXCEPT !.hist.spoilt = spoilt, !.hist.hit = hit]
      BY <2>9
    <3>3. Noted(e, r.s, spoilt, hit)
      BY <2>6, <3>1, <3>2, NotedFields, Zenon
    <3> QED
      BY <3>3 DEF Noted
  <2>11. Sent(Link, e, op, r.ret, main.todo # <<>>)
    BY <2>3, <2>4, <2>9 DEF e
  <2>12. Interrupted(e, r, op)
    BY <2>8, <2>10, <2>11 DEF Interrupted
  <2> QED
    BY <1>2, <2>12
<1> QED
  BY <1>1, <1>2

\* The interrupted transaction keeps its place.
LEMMA ClashedFacts ==
    ASSUME main \in MainState, Clashed
    PROVE  /\ main' \in MainState /\ main'.at = main.at /\ main'.back = main.back
           /\ main'.todo = main.todo
           /\ main'.clash <=> \/ main.clash
                              \/ main.todo # <<>> /\ cam.ready /\ cam.bulb /\ ~d.error
<1> DEFINE clash == main.clash \/ (main.todo # <<>> /\ cam.ready /\ cam.bulb /\ ~d.error)
<1>1. main' = [main EXCEPT !.clash = clash]
  BY DEF Clashed, MainState
<1>2. clash \in BOOLEAN
  OBVIOUS
<1> HIDE DEF clash
<1>3. /\ main' \in MainState /\ main'.at = main.at /\ main'.back = main.back
      /\ main'.todo = main.todo /\ main'.clash = clash
  BY <1>1, <1>2 DEF MainState
<1> QED
  BY <1>3 DEF clash

\* The tick that opens the shutter meets no transaction of the main loop.
LEMMA TickStartKeeps ==
    ASSUME CameraInv, TickStart
    PROVE  CameraInv'
<1>0. /\ Link \in LinkState /\ main \in MainState /\ LinkInv(Link)
      /\ BusInv(Link, FirstOp(main.todo), main.clash)
      /\ LoopInv(Link, main.at, FirstOp(main.todo), chk, bulb)
  BY DEF CameraInv
<1>1. bulb = "new" /\ UNCHANGED <<chk, mode, run_state>>
  BY DEF TickStart
<1>2. main.at = "delay" /\ FirstOp(main.todo) = "none" /\ main.todo = <<>>
      /\ (Link.cam.bulb => Link.cam.bulb_open)
  <2>1. main.at = "delay" /\ FirstOp(main.todo) = "none" /\ (Link.cam.bulb => Link.cam.bulb_open)
    BY <1>0, <1>1 DEF LoopInv
  <2> QED
    BY <1>0, <2>1, ScriptTail DEF MainState
<1>3. CASE ~cam.bulb
  <2>1. bulb' = "running" /\ Set(Link) /\ main' = main
    BY <1>3 DEF TickStart
  <2>2. LoopInv(Link, main.at, "none", chk', bulb')
    BY <1>0, <1>1, <1>2, <2>1 DEF LoopInv
  <2> QED
    BY <1>0, <1>1, <1>2, <2>1, <2>2, Closing DEF CameraInv
<1>4. CASE cam.bulb
  <2>1. PICK r \in InInterrupt("start") :
          /\ Set(r.s) /\ Clashed
          /\ bulb' = IF r.ret = "ok" THEN "running" ELSE "failed"
    BY <1>4 DEF TickStart
  <2>2. /\ main' \in MainState /\ main'.at = main.at /\ main'.todo = main.todo
        /\ main'.clash <=> main.clash
    BY <1>0, <1>2, <2>1, ClashedFacts
  <2>3. bulb' \in {"none", "new", "running", "failed"} /\ bulb' # "new"
    BY <2>1
  <2>4. ASSUME NEW s \in LinkState, Set(s), LinkInv(s), s.cam = Link.cam,
               s.serial = Link.serial, s.hist.unseen = Link.hist.unseen,
               s.usb.session => s.d.ready \/ s.d.error
        PROVE  CameraInv'
    <3>1. BusInv(s, "none", main'.clash)
      BY <1>0, <1>2, <2>2, <2>4 DEF BusInv
    <3>2. LoopInv(s, main'.at, "none", chk', bulb')
      BY <1>0, <1>1, <1>2, <2>2, <2>3, <2>4 DEF LoopInv
    <3> QED
      BY <1>1, <1>2, <2>2, <2>3, <2>4, <3>1, <3>2, Closing DEF CameraInv
  <2>5. CASE r.s = Link
    BY <1>0, <1>2, <2>1, <2>4, <2>5 DEF BusInv
  <2>6. CASE r.s # Link
    <3>0. PICK e : Interrupted(e, r, "start")
      BY <2>6, InterruptFacts
    <3>1. /\ Sent(Link, e, "start", r.ret, main.todo # <<>>)
          /\ r.s \in LinkState /\ r.s.usb = e.usb /\ r.s.d = e.d
          /\ r.s.cam = e.cam /\ r.s.conf = e.conf /\ r.s.serial = e.serial
          /\ r.s.hist.unseen = e.hist.unseen
          /\ e.hist.spoilt => r.s.hist.spoilt
          /\ r.s.hist.hit => e.hist.hit
      BY <1>2, <3>0 DEF Interrupted
    <3>2. ~Link.d.error /\ Link.cam.ready /\ Link.cam.bulb
      BY <2>6, InterruptFacts, LinkFields
    <3>3. Link.usb.session => Link.d.ready
      BY <1>0, <1>2, <3>2 DEF BusInv
    <3>4. LinkInv(e)
      BY <1>0, <1>2, <3>1, <3>2, <3>3, SentKeeps
    <3>5. LinkInv(r.s)
      BY <3>1, <3>4 DEF LinkInv, Up
    <3>6. r.s.usb.session => r.s.d.ready \/ r.s.d.error
      BY <3>1, <3>3 DEF Sent
    <3>7. /\ r.s.cam = Link.cam /\ r.s.serial = Link.serial
          /\ r.s.hist.unseen = Link.hist.unseen
      BY <3>1 DEF Sent
    <3> QED
      BY <2>1, <2>4, <3>1, <3>5, <3>6, <3>7
  <2> QED
    BY <2>5, <2>6
<1> QED
  BY <1>3, <1>4

\* The tick that closes the shutter meets no transaction of the background.
LEMMA TickEndKeeps ==
    ASSUME CameraInv, TickEnd
    PROVE  CameraInv'
<1> DEFINE o == FirstOp(main.todo)
<1>0. /\ Link \in LinkState /\ main \in MainState /\ LinkInv(Link)
      /\ BusInv(Link, o, main.clash) /\ LoopInv(Link, main.at, o, chk, bulb)
  BY DEF CameraInv
<1>1. bulb' = "none" /\ UNCHANGED <<chk, mode, run_state>>
  BY DEF TickEnd
<1>2. /\ main.todo = <<>> <=> o = "none"
      /\ main.todo # <<>> => Head(main.todo) = o
  BY <1>0, ScriptTail DEF MainState
<1> HIDE DEF o
<1>3. CASE Set(Link) /\ main' = main
  <2>1. LoopInv(Link, main.at, o, chk', bulb')
    BY <1>0, <1>1 DEF LoopInv
  <2> QED
    BY <1>0, <1>1, <1>3, <2>1, Closing DEF CameraInv, o
<1>4. CASE bulbEndScript(Link) # <<>>
  <2>1. PICK r \in InInterrupt("end") :
          /\ Set(IF r.ret \in {"ok", "busy"} THEN Done(r.s, "end") ELSE r.s)
          /\ Clashed
    BY <1>4 DEF TickEnd
  <2>2. Link.cam.ready /\ Link.cam.bulb_open /\ Link.cam.bulb
    BY <1>4 DEF bulbEndScript
  <2>3. /\ main' \in MainState /\ main'.at = main.at /\ main'.todo = main.todo
        /\ main'.clash <=> main.clash \/ (main.todo # <<>> /\ ~Link.d.error)
    BY <1>0, <2>1, <2>2, ClashedFacts, LinkFields
  <2>4. CASE r.s = Link /\ r.ret = "error"
    <3>1. Set(Link)
      BY <2>1, <2>4
    <3>2. BusInv(Link, o, main'.clash)
      BY <1>0, <2>2, <2>3 DEF BusInv, LinkInv
    <3>3. LoopInv(Link, main'.at, o, chk', bulb')
      BY <1>0, <1>1, <2>3 DEF LoopInv
    <3> QED
      BY <1>0, <1>1, <2>3, <3>1, <3>2, <3>3, Closing DEF CameraInv, o
  <2>5. CASE ~(r.s = Link /\ r.ret = "error")
    <3> DEFINE s == IF r.ret \in {"ok", "busy"} THEN Done(r.s, "end") ELSE r.s
    <3>0. PICK e : Interrupted(e, r, "end")
      BY <2>5, InterruptFacts
    <3>1. /\ Sent(Link, e, "end", r.ret, main.todo # <<>>)
          /\ r.s \in LinkState /\ r.s.usb = e.usb /\ r.s.d = e.d
          /\ r.s.cam = e.cam /\ r.s.conf = e.conf /\ r.s.serial = e.serial
          /\ r.s.hist.unseen = e.hist.unseen
          /\ e.hist.spoilt => r.s.hist.spoilt
      BY <3>0 DEF Interrupted
    <3>2. ~Link.d.error /\ ~d.error
      BY <2>5, InterruptFacts, LinkFields
    <3>3. ~r.s.hist.hit
      <4>1. ~e.hist.hit
        BY <1>0, <3>1 DEF LinkInv, Sent
      <4>2. o \in Background => Link.hist.unseen = "is"
        BY <1>0, <2>2 DEF BusInv, Background
      <4>3. Link.hist = hist
        BY LinkFields
      <4> QED
        BY <1>2, <3>0, <4>1, <4>2, <4>3 DEF Interrupted
    <3>4. LinkInv(e)
      BY <1>0, <3>1, SentKeeps
    <3>5. LinkInv(r.s)
      BY <3>1, <3>3, <3>4 DEF LinkInv, Up
    <3>6. /\ s \in LinkState /\ s.usb = r.s.usb /\ s.d = r.s.d /\ s.conf = r.s.conf
          /\ s.serial = r.s.serial /\ s.hist = r.s.hist
          /\ s.cam.ready = r.s.cam.ready /\ s.cam.disabled = r.s.cam.disabled
          /\ s.cam.bulb = r.s.cam.bulb
          /\ \/ s.cam.bulb_open = r.s.cam.bulb_open
             \/ r.ret \in {"ok", "busy"} /\ s.cam.bulb_open = FALSE
      <4>1. CASE r.ret \in {"ok", "busy"}
        <5>1. s = [r.s EXCEPT !.cam.bulb_open = FALSE]
          BY <4>1 DEF Done
        <5> HIDE DEF s
        <5> QED
          BY <3>1, <4>1, <5>1 DEF LinkState, CameraObject
      <4>2. CASE r.ret \notin {"ok", "busy"}
        BY <3>1, <4>2
      <4> QED
        BY <4>1, <4>2
    <3>7. Set(s)
      BY <2>1
    <3> HIDE DEF s
    <3>8. LinkInv(s)
      BY <3>1, <3>5, <3>6 DEF LinkInv, Up, Sent
    <3>9. BusInv(s, o, main'.clash)
      <4>1. e.d.remaining \in Nat /\ Link.d.remaining \in Nat
        BY <1>0, <3>1, CameraAssumption DEF Sent, LinkState, Driver
      <4>2. o # "none" => main'.clash
        BY <1>2, <2>3, <3>2
      <4> QED
        BY <1>0, <2>2, <2>3, <3>1, <3>6, <4>1, <4>2 DEF BusInv, LinkInv, Sent, Up
    <3>10. LoopInv(s, main'.at, o, chk', bulb')
      BY <1>0, <1>1, <2>3, <3>1, <3>6 DEF LoopInv, Sent, Up
    <3> QED
      BY <1>1, <2>3, <3>6, <3>7, <3>8, <3>9, <3>10, Closing DEF CameraInv, o
  <2> QED
    BY <2>4, <2>5
<1> QED
  BY <1>3, <1>4 DEF TickEnd

\* The cable is plugged or pulled.
LEMMA PlugKeeps ==
    ASSUME CameraInv, Plug
    PROVE  CameraInv'
<1> DEFINE o == FirstOp(main.todo)
<1>0. /\ Link \in LinkState /\ main \in MainState /\ LinkInv(Link)
      /\ BusInv(Link, o, main.clash) /\ LoopInv(Link, main.at, o, chk, bulb)
  BY DEF CameraInv
<1>1. UNCHANGED <<chk, mode, bulb, run_state, main>>
  BY DEF Plug
<1>2. PICK p \in Cameras \cup {"nocable", "none"} :
        LET s == [CutOff(Link) EXCEPT !.usb.plug = p]
        IN  Set(IF usb.host \in {"enum", "addressed", "configured"}
                THEN [s EXCEPT !.usb.host = "idle", !.d.error = FALSE,
                               !.hist.missed = d.configured] ELSE s)
  BY DEF Plug
<1> DEFINE c == CutOff(Link)
           x == [c EXCEPT !.usb.plug = p]
           y == [x EXCEPT !.usb.host = "idle", !.d.error = FALSE,
                          !.hist.missed = d.configured]
           s == IF usb.host \in {"enum", "addressed", "configured"} THEN y ELSE x
<1>3. Set(s)
  BY <1>2
<1>4. /\ c \in LinkState /\ c.d = Link.d /\ c.cam = Link.cam /\ c.conf = Link.conf
      /\ c.serial = Link.serial /\ c.usb.plug = Link.usb.plug /\ c.usb.host = Link.usb.host
      /\ c.usb.session = FALSE /\ c.usb.shutter = FALSE
      /\ c.hist.hit = Link.hist.hit /\ c.hist.unseen = Link.hist.unseen
  BY <1>0, CutOffFields
<1> HIDE DEF c
<1>5. /\ x \in LinkState /\ x.d = c.d /\ x.cam = c.cam /\ x.conf = c.conf
      /\ x.serial = c.serial /\ x.usb.host = c.usb.host
      /\ x.usb.session = c.usb.session /\ x.usb.shutter = c.usb.shutter /\ x.hist = c.hist
  BY <1>4 DEF LinkState, Usb
<1> HIDE DEF x
<1>6. d.configured \in BOOLEAN /\ usb.host = Link.usb.host
  BY <1>0, LinkFields DEF LinkState, Driver
<1>7. /\ y \in LinkState /\ y.cam = x.cam /\ y.conf = x.conf
      /\ y.serial = x.serial /\ y.usb.host = "idle"
      /\ y.usb.session = x.usb.session /\ y.usb.shutter = x.usb.shutter
      /\ y.d.ready = x.d.ready /\ y.d.configured = x.d.configured
      /\ y.d.remaining = x.d.remaining /\ y.d.error = FALSE
      /\ y.hist.hit = x.hist.hit /\ y.hist.unseen = x.hist.unseen
  <2> DEFINE u == [x.usb EXCEPT !.host = "idle"]
             w == [x.d EXCEPT !.error = FALSE]
             h == [x.hist EXCEPT !.missed = d.configured]
  <2>1. y = [x EXCEPT !.usb = u, !.d = w, !.hist = h]
    BY <1>5 DEF LinkState
  <2>2. /\ u \in Usb /\ u.host = "idle" /\ u.session = x.usb.session
        /\ u.shutter = x.usb.shutter
    BY <1>5 DEF LinkState, Usb
  <2>3. /\ w \in Driver /\ w.ready = x.d.ready /\ w.configured = x.d.configured
        /\ w.remaining = x.d.remaining /\ w.error = FALSE
    BY <1>5 DEF LinkState, Driver
  <2>4. h \in History /\ h.hit = x.hist.hit /\ h.unseen = x.hist.unseen
    BY <1>5, <1>6 DEF LinkState, History
  <2> HIDE DEF u, w, h, y
  <2>5. /\ y \in LinkState /\ y.usb = u /\ y.d = w /\ y.hist = h /\ y.cam = x.cam
        /\ y.conf = x.conf /\ y.serial = x.serial
    BY <1>5, <2>1, <2>2, <2>3, <2>4 DEF LinkState
  <2> QED
    BY <2>2, <2>3, <2>4, <2>5
<1> HIDE DEF y
<1>8. /\ s \in LinkState /\ s.cam = Link.cam /\ s.conf = Link.conf
      /\ s.serial = Link.serial
      /\ s.usb.session = FALSE /\ s.usb.shutter = FALSE
      /\ s.d.ready = Link.d.ready /\ s.d.configured = Link.d.configured
      /\ s.d.remaining = Link.d.remaining
      /\ s.hist.hit = Link.hist.hit /\ s.hist.unseen = Link.hist.unseen
      /\ s.usb.host = IF Link.usb.host \in {"enum", "addressed", "configured"}
                      THEN "idle" ELSE Link.usb.host
  BY <1>4, <1>5, <1>6, <1>7
<1> HIDE DEF s, o
<1>9. LinkInv(s)
  BY <1>0, <1>8 DEF LinkInv, Up
<1>10. BusInv(s, o, main'.clash)
  BY <1>0, <1>1, <1>8 DEF BusInv, Up
<1>11. LoopInv(s, main'.at, o, chk', bulb')
  BY <1>0, <1>1, <1>8 DEF LoopInv, Up
<1> QED
  BY <1>0, <1>1, <1>3, <1>8, <1>9, <1>10, <1>11, Closing DEF CameraInv, o

\* A camera is attached.
LEMMA AttachKeeps ==
    ASSUME CameraInv, Attach
    PROVE  CameraInv'
<1> DEFINE o == FirstOp(main.todo)
           s == [Link EXCEPT !.usb.host = "enum", !.d.error = FALSE, !.d.remaining = 0]
<1>0. /\ Link \in LinkState /\ main \in MainState /\ LinkInv(Link)
      /\ BusInv(Link, o, main.clash) /\ LoopInv(Link, main.at, o, chk, bulb)
  BY DEF CameraInv
<1>1. UNCHANGED <<chk, mode, bulb, run_state, main>>
  BY DEF Attach
<1>2. Set(s)
  <2>1. /\ s.usb = [usb EXCEPT !.host = "enum"]
        /\ s.d = [d EXCEPT !.error = FALSE, !.remaining = 0]
        /\ s.cam = cam /\ s.conf = conf /\ s.serial = serial /\ s.hist = hist
    BY DEF Link
  <2> HIDE DEF s
  <2> QED
    BY <2>1 DEF Attach, Set
<1>3. 0 \in 0 .. MaxChunks
  BY CameraAssumption
<1>4. /\ s \in LinkState /\ s.cam = Link.cam /\ s.conf = Link.conf /\ s.serial = Link.serial
      /\ s.hist = Link.hist /\ s.usb.plug = Link.usb.plug /\ s.usb.host = "enum"
      /\ s.usb.session = Link.usb.session /\ s.usb.shutter = Link.usb.shutter
      /\ s.d.ready = Link.d.ready /\ s.d.configured = Link.d.configured
      /\ s.d.remaining = 0 /\ s.d.error = FALSE
  BY <1>0, <1>3 DEF LinkState, Usb, Driver
<1>5. Link.usb.host = "idle" /\ Link.usb.plug \in Cameras
  BY LinkFields DEF Attach
<1> HIDE DEF s, o
<1>6. LinkInv(s)
  BY <1>0, <1>4, <1>5 DEF LinkInv, Up
<1>7. BusInv(s, o, main'.clash)
  BY <1>0, <1>1, <1>4, <1>5 DEF BusInv, LinkInv, Up
<1>8. LoopInv(s, main'.at, o, chk', bulb')
  BY <1>0, <1>1, <1>4, <1>5 DEF LoopInv, Up
<1> QED
  BY <1>0, <1>1, <1>2, <1>4, <1>6, <1>7, <1>8, Closing DEF CameraInv, o

\* The enumeration ends.
LEMMA EnumerateKeeps ==
    ASSUME CameraInv, Enumerate
    PROVE  CameraInv'
<1>0. /\ Link \in LinkState /\ main \in MainState /\ LinkInv(Link)
      /\ FirstOp(main.todo) = "none"
      /\ BusInv(Link, "none", main.clash) /\ LoopInv(Link, main.at, "none", chk, bulb)
  BY DEF CameraInv, Enumerate, FirstOp
<1>1. UNCHANGED <<chk, mode, bulb, run_state, main>>
  BY DEF Enumerate
<1>2. PICK state \in {"configured", "addressed"} : usb' = [usb EXCEPT !.host = state]
  BY DEF Enumerate
<1> DEFINE s == [Link EXCEPT !.usb.host = state]
<1>3. Set(s)
  <2>1. /\ s.usb = [usb EXCEPT !.host = state] /\ s.d = d
        /\ s.cam = cam /\ s.conf = conf /\ s.serial = serial /\ s.hist = hist
    BY DEF Link
  <2> HIDE DEF s
  <2> QED
    BY <1>2, <2>1 DEF Enumerate, Set
<1>4. /\ s \in LinkState /\ s.cam = Link.cam /\ s.conf = Link.conf /\ s.serial = Link.serial
      /\ s.hist = Link.hist /\ s.d = Link.d /\ s.usb.plug = Link.usb.plug
      /\ s.usb.host = state
      /\ s.usb.session = Link.usb.session /\ s.usb.shutter = Link.usb.shutter
  BY <1>0 DEF LinkState, Usb
<1>5. Link.usb.host = "enum"
  BY LinkFields DEF Enumerate
<1> HIDE DEF s
<1>6. LinkInv(s)
  BY <1>0, <1>4, <1>5 DEF LinkInv, Up
<1>7. BusInv(s, "none", main'.clash)
  BY <1>0, <1>1, <1>4 DEF BusInv
<1>8. LoopInv(s, main'.at, "none", chk', bulb')
  BY <1>0, <1>1, <1>4, <1>5 DEF LoopInv, Up
<1> QED
  BY <1>0, <1>1, <1>3, <1>4, <1>6, <1>7, <1>8, Closing DEF CameraInv

\* The host fails.
LEMMA HostErrorKeeps ==
    ASSUME CameraInv, HostError
    PROVE  CameraInv'
<1> DEFINE o == FirstOp(main.todo)
           p == PTP_Disable(Link)
           s == [p EXCEPT !.d.error = TRUE]
<1>0. /\ Link \in LinkState /\ main \in MainState /\ LinkInv(Link)
      /\ BusInv(Link, o, main.clash) /\ LoopInv(Link, main.at, o, chk, bulb)
  BY DEF CameraInv
<1>1. UNCHANGED <<chk, mode, bulb, run_state, main>> /\ Set(s)
  BY DEF HostError
<1>2. /\ p \in LinkState /\ p.cam = Link.cam /\ p.conf = Link.conf /\ p.serial = Link.serial
      /\ p.usb.plug = Link.usb.plug /\ p.usb.host = "off"
      /\ p.usb.session = FALSE /\ p.usb.shutter = FALSE
      /\ p.d.ready = FALSE /\ p.d.configured = FALSE /\ p.d.remaining = 0
      /\ p.hist.hit = Link.hist.hit /\ p.hist.unseen = Link.hist.unseen
  BY <1>0, DisableFields
<1> HIDE DEF p
<1>3. /\ s \in LinkState /\ s.usb = p.usb /\ s.cam = p.cam /\ s.conf = p.conf
      /\ s.serial = p.serial /\ s.hist = p.hist
      /\ s.d.ready = FALSE /\ s.d.configured = FALSE /\ s.d.remaining = 0
      /\ s.d.error = TRUE
  BY <1>2 DEF LinkState, Driver
<1> HIDE DEF s, o
<1>4. LinkInv(s)
  BY <1>0, <1>2, <1>3 DEF LinkInv, Up
<1>5. BusInv(s, o, main'.clash)
  BY <1>0, <1>1, <1>2, <1>3 DEF BusInv, Up
<1>6. LoopInv(s, main'.at, o, chk', bulb')
  BY <1>0, <1>1, <1>2, <1>3 DEF LoopInv, Up
<1> QED
  BY <1>0, <1>1, <1>3, <1>4, <1>5, <1>6, Closing DEF CameraInv, o

-----------------------------------------------------------------------------
(* The theorems.                                                           *)

\* The invariant holds at power-on.
LEMMA InitKeeps ==
    ASSUME Init
    PROVE  CameraInv
<1>0. 0 \in 0 .. MaxChunks
  BY CameraAssumption
<1>1. /\ usb \in Usb /\ d \in Driver /\ cam \in CameraObject /\ hist \in History
  BY <1>0 DEF Init, Usb, Driver, CameraObject, History, Makes
<1>2. Link \in LinkState
  BY <1>1 DEF Init, Link, LinkState
<1>3. main \in MainState
  BY ScriptFacts DEF Init, MainState, Phases, Backs
<1>4. FirstOp(main.todo) = "none"
  BY DEF Init, FirstOp
<1>5. LinkInv(Link)
  BY DEF Init, Link, LinkInv, Up
<1>6. BusInv(Link, "none", main.clash)
  BY DEF Init, Link, BusInv
<1>7. LoopInv(Link, main.at, "none", chk, bulb)
  BY DEF Init, Link, LoopInv
<1> QED
  BY <1>2, <1>3, <1>4, <1>5, <1>6, <1>7 DEF CameraInv, Init, RunStates

\* Every step keeps the invariant.
LEMMA NextKeeps ==
    ASSUME CameraInv, [Next]_vars
    PROVE  CameraInv'
<1>1. CASE Main
  BY <1>1, AnswerKeeps, NotifyKeeps, UsbTaskKeeps, checkEventKeeps, SwitchKeeps, WaitKeeps,
     WaitEndsKeeps, ExposeKeeps, ExposedKeeps, ExposureEndsKeeps, StopKeeps, ResetKeeps,
     ToggleKeeps, BulbStartKeeps, BulbEndKeeps, CaptureKeeps, SetParameterKeeps,
     NothingToDoKeeps, SettersKeep, MovesKeep, ShootKeeps, RunErrorKeeps, RunResetKeeps
     DEF Main
<1>2. CASE Tick
  BY <1>2, TickStartKeeps, TickEndKeeps DEF Tick
<1>3. CASE Host
  BY <1>3, PlugKeeps, AttachKeeps, EnumerateKeeps, HostErrorKeeps DEF Host
<1>4. CASE UNCHANGED vars
  <2>1. UNCHANGED <<chk, mode, bulb, run_state, main>> /\ Set(Link)
    BY <1>4, SetLink DEF vars
  <2> QED
    BY <2>1, Closing DEF CameraInv
<1> QED
  BY <1>1, <1>2, <1>3, <1>4 DEF Next

\* The invariant of the camera link: the driver, the camera object and the settings
\* against the bus, what is on the bus, and the phases of the main loop.
THEOREM CameraInvariant == Spec => []CameraInv
<1>1. Init => CameraInv
  BY InitKeeps
<1>2. CameraInv /\ [Next]_vars => CameraInv'
  BY NextKeeps
<1> QED
  BY <1>1, <1>2, PTL DEF Spec

\* The variables keep their types; the remaining buffers never go below zero.
THEOREM CameraTypeCorrect == Spec => []TypeOK
<1>1. CameraInv => TypeOK
  <2> SUFFICES ASSUME CameraInv PROVE TypeOK
    OBVIOUS
  <2>1. usb \in Usb /\ d \in Driver /\ cam \in CameraObject /\ hist \in History
        /\ conf \in Cameras \cup {"default"} /\ serial \in Cameras \cup {"none"}
    BY LinkFields DEF CameraInv, LinkState
  <2>2. main.at \in Phases /\ main.back \in Phases /\ main.clash \in BOOLEAN
    BY DEF CameraInv, MainState, Backs, Phases
  <2>3. main.todo \in Seq(Ops) /\ Len(main.todo) <= 3
    BY ScriptTail DEF CameraInv, MainState
  <2> QED
    BY <2>1, <2>2, <2>3 DEF CameraInv, TypeOK, Usb, Driver, CameraObject, History, RunStates
<1> QED
  BY <1>1, CameraInvariant, PTL

\* A tick never starts a transaction while the main loop polls, opens or connects the
\* camera (PTP.cpp:1104).
THEOREM PollsNeverCollide == Spec => []PollNeverCollides
<1>1. CameraInv => PollNeverCollides
  BY LinkFields DEF CameraInv, LinkInv, PollNeverCollides
<1> QED
  BY <1>1, CameraInvariant, PTL

\* A camera object that is ready while the driver is not is about to be closed.
THEOREM FallsAreNoticed == Spec => []FallNoticed
<1>1. CameraInv => FallNoticed
  BY LinkFields DEF CameraInv, LoopInv, FallNoticed
<1> QED
  BY <1>1, CameraInvariant, PTL

\* A camera that is open and ready has its own settings loaded.
THEOREM SettingsFollowTheCamera == Spec => []SettingsMatch
<1>1. CameraInv => SettingsMatch
  BY LinkFields DEF CameraInv, LinkInv, SettingsMatch
<1> QED
  BY <1>1, CameraInvariant, PTL

\* An open shutter is known to the camera object, unless a transaction went wrong.
THEOREM ShuttersAreKnown == Spec => []ShutterKnown
<1>1. CameraInv => ShutterKnown
  BY LinkFields DEF CameraInv, LinkInv, ShutterKnown
<1> QED
  BY <1>1, CameraInvariant, PTL
=============================================================================
