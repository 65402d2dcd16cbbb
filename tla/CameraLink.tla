----------------------------- MODULE CameraLink -----------------------------
(***************************************************************************)
(* The camera on USB: the PTP driver (PTP_Driver.c), the camera object     *)
(* (PTP.cpp), the notification that ties them together and the parts of    *)
(* the main loop, the shutter code and the screens that use them.          *)
(*                                                                         *)
(* The main loop runs one phase after the other, main.at; a phase may      *)
(* leave transactions to do, main.todo, whose first one is on the bus      *)
(* until its answer is taken.  The millisecond interrupt starts and ends   *)
(* bulb exposures with transactions of its own, wherever the main loop is, *)
(* and the USB host notices cameras that come and go.                      *)
(*                                                                         *)
(* One transaction stands for the few that start an exposure (mode, lock,  *)
(* release), end one, or connect a camera: each of them ends its handler   *)
(* when it fails.  Exposures go over USB; ShutterPort has the cable.       *)
(***************************************************************************)
EXTENDS Integers, Sequences

CONSTANTS
    Cameras,            \* cameras that may be plugged in
    Make,               \* their makers
    MaxChunks           \* bound: buffers of data beyond the first in one answer

Makes == {"EOS", "NIKON", "SONY"}

ASSUME CameraAssumption == Make \in [Cameras -> Makes] /\ MaxChunks \in Nat \ {0}
ASSUME NoSuchCamera == {"nocable", "none", "default"} \cap Cameras = {}

VARIABLES
    usb,                \* external: the cable, the USB host and the camera
    d,                  \* the variables of the PTP driver
    cam,                \* the camera object
    conf,               \* whose settings conf.camera holds
    serial,             \* PTP_CameraSerial and PTP_CameraMake
    chk,                \* PTP_Ready as the notification last saw it
    mode,               \* USBmode
    bulb,               \* the bulb timing of the clock
    run_state,          \* of shutter::task: RUN_BULB, RUN_ERROR, before or after its
                        \* first reset, or anything else
    main,               \* where the main loop is
    hist                \* history

vars == <<usb, d, cam, conf, serial, chk, mode, bulb, run_state, main, hist>>

Ops == {"open", "info", "connect", "cameraReady", "poll", "fetch",
        "set", "capture", "start", "end"}
Phases == {"menu", "timer", "mode", "aperture", "iso", "shutter", "shot", "delay",
           "reset", "recovered", "notify", "task", "poll", "remote", "usbmode",
           "wait", "last"}

TypeOK ==
    /\ usb \in [plug : Cameras \cup {"nocable", "none"},
                host : {"off", "idle", "enum", "addressed", "configured"},
                session : BOOLEAN, shutter : BOOLEAN]
    /\ d \in [ready : BOOLEAN, error : BOOLEAN, configured : BOOLEAN,
              remaining : 0 .. MaxChunks]
    /\ cam \in [ready : BOOLEAN, bulb_open : BOOLEAN, disabled : BOOLEAN,
                protocol : Makes, bulb : BOOLEAN]
    /\ conf \in Cameras \cup {"default"}
    /\ serial \in Cameras \cup {"none"}
    /\ chk \in BOOLEAN
    /\ mode \in {0, 1}
    /\ bulb \in {"none", "new", "running", "failed"}
    /\ run_state \in {"gap", "bulb", "error", "retry"}
    /\ main.at \in Phases /\ main.back \in Phases /\ main.clash \in BOOLEAN
    /\ main.todo \in Seq(Ops) /\ Len(main.todo) <= 3
    /\ hist \in [hit : BOOLEAN, unseen : {"no", "may", "is"}, missed : BOOLEAN, kept : BOOLEAN,
                 spoilt : BOOLEAN]

\* hit: a bulb tick met a transaction of the background; unseen: a camera came up
\* while the notification still remembers none, and was lost before it looked; missed: a camera went and
\* PTP_Task has not looked since; kept: the camera was switched off by hand, or its
\* exposure was abandoned; spoilt: a transaction failed, was swallowed or met another
\* since the camera opened its shutter.
Init ==
    /\ usb = [plug |-> "nocable", host |-> "off", session |-> FALSE, shutter |-> FALSE]
    /\ d = [ready |-> FALSE, error |-> FALSE, configured |-> FALSE, remaining |-> 0]
    /\ cam = [ready |-> FALSE, bulb_open |-> FALSE, disabled |-> FALSE,
              protocol |-> "EOS", bulb |-> FALSE]
    /\ conf = "default" /\ serial = "none" /\ chk = FALSE /\ mode = 0
    /\ bulb = "none" /\ run_state = "gap"
    /\ main = [at |-> "menu", back |-> "menu", todo |-> <<>>, clash |-> FALSE]
    /\ hist = [hit |-> FALSE, unseen |-> "no", missed |-> FALSE, kept |-> FALSE,
               spoilt |-> FALSE]

-----------------------------------------------------------------------------
(* Transactions.  The state they work on is a record.                      *)

Link == [usb |-> usb, d |-> d, cam |-> cam, conf |-> conf, serial |-> serial,
         hist |-> hist]

Set(s) == /\ usb' = s.usb /\ d' = s.d /\ cam' = s.cam /\ conf' = s.conf
          /\ serial' = s.serial /\ hist' = s.hist

\* The camera is cut off: its session ends, and with it an exposure.
CutOff(s) == [s EXCEPT !.usb.session = FALSE, !.usb.shutter = FALSE, !.hist.spoilt = FALSE]

Spoil(s) == [s EXCEPT !.hist.spoilt = s.usb.shutter]

\* What the camera does with a command that reaches it.
Obey(s, op) ==
    CASE op = "open"  -> [s EXCEPT !.usb.session = TRUE]
      [] op = "start" -> [s EXCEPT !.usb.shutter = TRUE, !.hist.spoilt = main.clash]
      [] op = "end"   -> [s EXCEPT !.usb.shutter = FALSE, !.hist.spoilt = FALSE]
      [] OTHER        -> s

\* How a transaction may turn out: "lost" is an answer that never arrives,
\* "garbled" the answer to someone else's command.
Answers(s, op, clash) ==
    (IF s.usb.host # "configured" THEN {"error"}
     ELSE IF s.d.remaining > 0 THEN {"ok", "error", "refused"}
     ELSE IF ~s.usb.session /\ op \notin {"open", "info"} THEN {"refused"}
     ELSE {"ok", "busy", "refused", "error", "lost"}
            \cup (IF op = "poll" THEN {"more"} ELSE {}))
    \cup (IF clash THEN {"garbled", "error"} ELSE {})

\* USB_Host_SetDeviceConfiguration(0)
Deconfigure(s) ==
    [CutOff(s) EXCEPT !.usb.host = IF @ = "configured" THEN "addressed" ELSE @]

\* Variant of Fetch: the count goes down by the size of the buffer.
FetchWholeBuffers(s, answer) ==
    [s |-> [Spoil(s) EXCEPT !.d.remaining = @ - 2],
     ret |-> IF answer = "ok" THEN "ok" ELSE "error"]

\* PTP_FetchData: a failure to read is reported but not remembered.
Fetch(s, answer) ==
    LET t == [Spoil(s) EXCEPT !.d.remaining = @ - 1]
    IN  CASE answer = "error" -> [s |-> t, ret |-> "error"]
          [] answer = "refused" /\ t.d.remaining = 0 ->
                [s |-> Deconfigure(t), ret |-> "error"]
          [] OTHER -> [s |-> t, ret |-> IF t.d.remaining = 0 THEN "ok" ELSE "more"]

Latch(s) == [Spoil(s) EXCEPT !.d.error = TRUE, !.d.ready = FALSE]

\* The body of PTP_Transaction.  A camera that is busy is no error, unless data
\* were expected.
Exchange(s, op, answer) ==
    IF s.d.remaining > 0 THEN Fetch(s, answer)
    ELSE CASE answer = "ok" -> [s |-> Obey(s, op), ret |-> "ok"]
           [] answer = "garbled" -> [s |-> Spoil(s), ret |-> "ok"]
           [] answer = "more" -> [s |-> [s EXCEPT !.d.remaining = MaxChunks],
                                  ret |-> "more"]
           [] answer = "busy" /\ op \notin {"info", "poll"} ->
                 [s |-> Spoil(s), ret |-> "busy"]
           [] answer = "refused" /\ op = "cameraReady" -> [s |-> s, ret |-> "busy"]
           [] answer = "lost" -> [s |-> Latch(Obey(s, op)), ret |-> "error"]
           [] OTHER -> [s |-> Latch(s), ret |-> "error"]

\* A transaction of the interrupt, which nothing interrupts.
Transact(s, op, answer) ==
    IF s.d.error THEN [s |-> s, ret |-> "error"] ELSE Exchange(s, op, answer)

\* What a handler of the main loop leaves to do; nothing once an error is latched.
Begin(s, script, at) ==
    main' = [main EXCEPT !.at = at, !.clash = FALSE,
                         !.todo = IF script # <<>> /\ s.d.error /\ Head(script) # "open"
                                  THEN <<>> ELSE script]

-----------------------------------------------------------------------------
(* The camera object.                                                      *)

\* Variant of PollScript: checkEvent does not look at bulb_open.
PollScriptAlways(s) ==
    IF ~s.cam.ready THEN <<>>
    ELSE IF s.cam.protocol = "NIKON" THEN <<"cameraReady", "poll">> ELSE <<"poll">>

PollScript(s) ==
    IF ~s.cam.ready \/ s.cam.bulb_open THEN <<>>
    ELSE IF s.cam.protocol = "NIKON" THEN <<"cameraReady", "poll">> ELSE <<"poll">>

\* Variant of close: one of the two ready flags is kept.
closeKeepsReady(s) == [s EXCEPT !.cam.bulb_open = FALSE, !.cam.bulb = FALSE,
                                !.hist.unseen = "no"]

close(s) == [s EXCEPT !.cam.ready = FALSE, !.cam.bulb_open = FALSE, !.cam.bulb = FALSE,
                      !.hist.unseen = "no"]

\* Variant of init: the settings are left as they are.
initKeepsSettings(s) ==
    [s EXCEPT !.hist.unseen = "no", !.cam.bulb_open = FALSE,
              !.cam.protocol = Make[s.serial], !.cam.bulb = Make[s.serial] = "EOS",
              !.cam.ready = @ \/ Make[s.serial] = "NIKON"]

\* settings_setup_camera_index and the part of init before its transactions: EOS and
\* Sony cameras are connected to first, the others are ready at once.
init(s) == [s EXCEPT !.hist.unseen = "no", !.conf = s.serial, !.cam.bulb_open = FALSE,
                     !.cam.protocol = Make[s.serial],
                     !.cam.bulb = Make[s.serial] = "EOS",
                     !.cam.ready = @ \/ Make[s.serial] = "NIKON"]
InitScript(s) ==
    IF s.cam.protocol = "NIKON" THEN PollScript(s) ELSE <<"connect">>

settings_load_camera_default(s) == [s EXCEPT !.conf = "default"]

\* PTP_Shutdown, and PTP_Disable but for the controller it also switches off.
PTP_Disable(s) ==
    [CutOff(s) EXCEPT !.usb.host = "off", !.d.configured = FALSE, !.d.ready = FALSE,
                      !.d.remaining = 0, !.hist.missed = FALSE]
PTP_Enable(s) ==
    [CutOff(s) EXCEPT !.usb.host = "idle", !.hist.missed = FALSE,
                      !.d = [ready |-> FALSE, error |-> FALSE, configured |-> FALSE,
                             remaining |-> 0]]

disable(s) == [close(PTP_Disable(s)) EXCEPT !.cam.disabled = TRUE]

\* enable waits for the camera only when it was disabled.
Enable(s, back) ==
    /\ Set([PTP_Enable(s) EXCEPT !.cam.disabled = FALSE, !.hist.kept = FALSE])
    /\ main' = [main EXCEPT !.at = IF s.cam.disabled THEN "wait" ELSE back,
                            !.back = back]

bulbEndScript(s) ==
    IF s.cam.ready /\ s.cam.bulb_open /\ s.cam.bulb THEN <<"end">> ELSE <<>>

\* What the code does once a transaction of its own has succeeded.  bulbEnd takes a
\* busy camera for a closed shutter.
Done(s, op) ==
    CASE op = "info" -> [s EXCEPT !.d.ready = TRUE,
                                !.serial = IF s.usb.plug \in Cameras THEN s.usb.plug ELSE @]
      [] op = "connect" -> [s EXCEPT !.cam.ready = TRUE]
      [] op = "end" -> [s EXCEPT !.cam.bulb_open = FALSE]
      [] OTHER -> s

-----------------------------------------------------------------------------
(* The main loop.                                                          *)

Idle(at) == main.todo = <<>> /\ main.at = at

\* The answer to the transaction on the bus.  EOS and Sony read on while there is
\* more, Nikon leaves the rest; a failed OpenSession gives the camera up, and the
\* device information is asked for all the same.
Continue(s, op, ret) ==
    CASE op = "open" -> <<"info">>
      [] op # "open" /\ ret = "error" -> <<>>
      [] op = "connect" /\ ret # "error" -> PollScript(s)
      [] op \in {"poll", "fetch"} /\ ret = "more" ->
            IF s.cam.protocol = "NIKON" THEN <<>> ELSE <<"fetch">>
      [] op = "cameraReady" /\ ret = "busy" -> <<>>
      [] OTHER -> Tail(main.todo)

\* An aperture or an ISO value that fails ends the pass in RUN_ERROR; a ramp in manual
\* mode tries a photo again that failed, the others do not look.
RampSetter == main.at \in {"aperture", "iso"} /\ cam.ready

Conclude(s, op, ret) ==
    IF RampSetter /\ ret = "error"
    THEN Begin(s, <<>>, "notify") /\ run_state' = "error"
    ELSE /\ \/ Begin(s, Continue(s, op, ret), main.at)
            \/ main.at = "shot" /\ ret # "ok" /\ ~s.d.error /\ Begin(s, <<>>, "notify")
         /\ UNCHANGED run_state

Answer ==
    /\ main.todo # <<>>
    /\ LET op == Head(main.todo)
       IN  \E answer \in Answers(Link, op, main.clash) :
             LET r == IF op = "open" /\ answer # "ok"
                      THEN [s |-> Deconfigure(Link), ret |-> "error"]
                      ELSE Exchange(Link, op, answer)
                 s == IF r.ret \in {"ok", "busy"} THEN Done(r.s, op) ELSE r.s
             IN  Set(s) /\ Conclude(s, op, r.ret)
    /\ UNCHANGED <<chk, mode, bulb>>

\* Notify::task and message_notify for the camera.
NotifyTask ==
    /\ Idle("notify")
    /\ chk' = d.ready
    /\ LET changed == chk # d.ready
           seen == [Link EXCEPT !.hist.unseen =
                       IF @ = "may" THEN (IF d.ready THEN "no" ELSE "is") ELSE @]
           s == IF changed /\ d.ready /\ ~cam.ready THEN init(seen)
                ELSE IF changed /\ ~d.ready /\ ~cam.disabled
                THEN close(settings_load_camera_default(seen)) ELSE seen
       IN  /\ Set(s)
           /\ Begin(s, IF changed /\ d.ready /\ ~cam.ready THEN InitScript(s) ELSE <<>>,
                    "task")
    /\ UNCHANGED <<mode, bulb, run_state>>

\* Variant of PTP_Task: a camera that is gone is not forgotten.
PTP_TaskRemembers(s) ==
    IF s.usb.host = "configured" THEN [s EXCEPT !.d.configured = TRUE]
    ELSE [s EXCEPT !.d.ready = FALSE, !.hist.missed = FALSE]

\* PTP_Task up to its transactions; hist.missed is cleared when it looks.
PTP_Task(s) ==
    IF s.usb.host = "configured" THEN [s EXCEPT !.d.configured = TRUE]
    ELSE [s EXCEPT !.d.configured = FALSE, !.d.ready = FALSE, !.hist.missed = FALSE]
TaskScript(s) ==
    IF s.usb.host = "configured" /\ ~s.d.configured THEN <<"open">> ELSE <<>>

UsbTask ==
    /\ Idle("task")
    /\ IF mode = 1 /\ ~cam.disabled
       THEN Set(PTP_Task(Link)) /\ Begin(Link, TaskScript(Link), "poll")
       ELSE Set(Link) /\ Begin(Link, <<>>, "poll")
    /\ UNCHANGED <<chk, mode, bulb, run_state>>

\* checkEvent, in four passes of five.
checkEvent ==
    /\ Idle("poll")
    /\ \E skip \in BOOLEAN : Begin(Link, IF skip THEN <<>> ELSE PollScript(Link), "remote")
    /\ UNCHANGED <<usb, d, cam, conf, serial, chk, mode, bulb, run_state, hist>>

\* The cable decides whether the port is a host.
SwitchUsb ==
    /\ Idle("usbmode")
    /\ LET wanted == usb.plug # "nocable"
       IN  \/ /\ wanted /\ mode = 0 /\ ~cam.disabled
              /\ mode' = 1 /\ Enable(Link, "menu")
           \/ /\ ~wanted /\ mode = 1 /\ ~cam.disabled
              /\ mode' = 0 /\ Set(PTP_Disable(Link)) /\ Begin(Link, <<>>, "menu")
           \/ /\ wanted = (mode = 1) \/ cam.disabled
              /\ mode' = mode /\ Set(Link) /\ Begin(Link, <<>>, "menu")
    /\ UNCHANGED <<chk, bulb, run_state>>

\* The loop of enable: PTP_Task until the camera is ready, init, PTP_Task again.
Wait ==
    /\ Idle("wait")
    /\ \/ /\ ~d.ready
          /\ Set(PTP_Task(Link)) /\ Begin(Link, TaskScript(Link), "wait")
       \/ /\ d.ready
          /\ LET s == [init(Link) EXCEPT !.hist.unseen = IF chk THEN "no" ELSE "may"]
             IN  Set(s) /\ Begin(s, InitScript(s), "last")
       \/ /\ ~d.ready          \* the time is up
          /\ Set(Link) /\ Begin(Link, <<>>, main.back)
    /\ UNCHANGED <<chk, mode, bulb, run_state>>

WaitEnds ==
    /\ Idle("last")
    /\ Set(PTP_Task(Link)) /\ Begin(Link, TaskScript(Link), main.back)
    /\ UNCHANGED <<chk, mode, bulb, run_state>>

-----------------------------------------------------------------------------
(* The timer, the screens and the remote control.                          *)

Sony == conf # "default" /\ Make[conf] = "SONY"
After == CASE main.at = "menu" -> "timer" [] main.at = "timer" -> "notify" [] OTHER -> "usbmode"

\* RUN_PHOTO and RUN_BULB set the camera for the next photo: its mode, aperture and
\* ISO in a ramp, then the shutter speed or again the mode.
Setter(from, to, supported) ==
    /\ Idle(from)
    /\ \E script \in {<<>>, <<"set">>} :
         (script # <<>> => supported) /\ Begin(Link, script, to)
    /\ UNCHANGED <<usb, d, cam, conf, serial, chk, mode, bulb, run_state, hist>>

SetMode == run_state = "gap" /\ bulb = "none" /\ Setter("timer", "mode", cam.ready)
SetAperture == Setter("mode", "aperture", cam.ready)
SetISO == Setter("aperture", "iso", cam.ready)
SetShutter == Setter("iso", "shutter", TRUE)

\* With an error latched, setAperture and setISO fail without a transaction.
SetterFails ==
    /\ Idle("mode") \/ Idle("aperture")
    /\ cam.ready /\ d.error
    /\ run_state' = "error"
    /\ Begin(Link, <<>>, "notify")
    /\ UNCHANGED <<usb, d, cam, conf, serial, chk, mode, bulb, hist>>

\* A bulb exposure of shutter::task, and its 10 ms for the tick.
Expose ==
    /\ Idle("shutter")
    /\ run_state' = "bulb" /\ bulb' = "new"
    /\ LET s == [Link EXCEPT !.cam.bulb_open = TRUE]
       IN  Set(IF cam.ready /\ Sony THEN disable(s) ELSE s)
    /\ main' = [main EXCEPT !.at = "delay"]
    /\ UNCHANGED <<chk, mode>>

Exposed ==
    /\ Idle("delay") /\ bulb # "new"
    /\ IF bulb = "failed"
       THEN bulb' = "none" /\ run_state' = IF d.error THEN "error" ELSE "gap"
       ELSE UNCHANGED <<bulb, run_state>>
    /\ main' = [main EXCEPT !.at = "notify"]
    /\ UNCHANGED <<usb, d, cam, conf, serial, chk, mode, hist>>

\* A photo without bulb: shutter_capture, over the bus when no cable is connected.
Shoot ==
    /\ Idle("shutter")
    /\ IF cam.ready /\ Sony
       THEN Enable(disable(Link), "notify") /\ run_state' = "bulb"
       ELSE /\ \E script \in {<<>>, <<"capture">>} :
                 (script # <<>> => cam.ready) /\ Begin(Link, script, "shot")
            /\ Set(Link) /\ UNCHANGED run_state
    /\ UNCHANGED <<chk, mode, bulb>>

Shot ==
    /\ Idle("shot")
    /\ \/ run_state' = "bulb"
       \/ run_state' = "error" /\ d.error /\ cam.ready
    /\ Begin(Link, <<>>, "notify")
    /\ UNCHANGED <<usb, d, cam, conf, serial, chk, mode, bulb, hist>>

\* Variant of BulbEndFinish: the camera stays off.
BulbEndFinishOff(s) == Set(s) /\ Begin(s, <<>>, After)

\* shutter_bulbEndFinish
BulbEndFinish(s) ==
    IF s.cam.disabled /\ Sony THEN Enable(s, After)
    ELSE Set(s) /\ Begin(s, <<>>, After)

ExposureEnds ==
    /\ Idle("timer") /\ run_state = "bulb" /\ bulb = "none"
    /\ run_state' = "gap" /\ BulbEndFinish(Link)
    /\ UNCHANGED <<chk, mode, bulb>>

\* RUN_NEXT finds the camera failed or, if the run uses it, gone.
NextFails ==
    /\ Idle("timer") /\ run_state = "gap" /\ bulb = "none"
    /\ d.error \/ ~(cam.ready \/ cam.disabled)
    /\ run_state' = "error"
    /\ Begin(Link, <<>>, "notify")
    /\ UNCHANGED <<usb, d, cam, conf, serial, chk, mode, bulb, hist>>

\* RUN_ERROR, on its first pass and every 41st after it: bulbEnd, resetConnection.
RunError ==
    /\ Idle("timer") /\ run_state \in {"error", "retry"}
    /\ Begin(Link, bulbEndScript(Link), "reset")
    /\ UNCHANGED <<usb, d, cam, conf, serial, chk, mode, bulb, run_state, hist>>

RunReset ==
    /\ Idle("reset")
    /\ Enable(disable(Link), "recovered")
    /\ UNCHANGED <<chk, mode, bulb, run_state>>

\* The end of every pass of RUN_ERROR.
Recovered ==
    /\ Idle("recovered") \/ (Idle("timer") /\ run_state = "retry")
    /\ run_state' = IF cam.ready THEN "gap" ELSE "retry"
    /\ Begin(Link, <<>>, "notify")
    /\ UNCHANGED <<usb, d, cam, conf, serial, chk, mode, bulb, hist>>

\* RUN_END, when the run is over or was stopped; the clock still ends the exposure.
Stop ==
    /\ Idle("timer")
    /\ run_state' = "gap"
    /\ Set([Link EXCEPT !.hist.kept = @ \/ (run_state = "bulb" /\ cam.disabled)])
    /\ Begin(Link, bulbEndScript(Link), "notify")
    /\ UNCHANGED <<chk, mode, bulb>>

\* resetConnection from the screen, while no run is on.
Reset ==
    /\ Idle("menu") /\ run_state = "gap" /\ d.error
    /\ Enable(disable(Link), After)
    /\ UNCHANGED <<chk, mode, bulb, run_state>>

\* The RIGHT key of usbPlug.
Toggle ==
    /\ Idle("menu")
    /\ IF cam.disabled THEN Enable(Link, After)
       ELSE /\ Set([disable(Link) EXCEPT !.hist.kept = TRUE])
            /\ Begin(Link, <<>>, After)
    /\ UNCHANGED <<chk, mode, bulb, run_state>>

\* timer.bulbStart, from the screen or the remote control.
BulbStart ==
    /\ (Idle("menu") \/ Idle("remote"))
    /\ IF cam.ready /\ Sony
       THEN Set([disable(Link) EXCEPT !.hist.kept = TRUE]) /\ Begin(Link, <<>>, After)
       ELSE LET s == IF cam.bulb /\ cam.ready
                     THEN [Link EXCEPT !.cam.bulb_open = TRUE] ELSE Link
            IN  Set(s) /\ Begin(s, IF cam.bulb /\ cam.ready THEN <<"start">> ELSE <<>>, After)
    /\ UNCHANGED <<chk, mode, bulb, run_state>>

\* Variant of BulbEnd: bulb_open is cleared before the transaction.
BulbEndEarly ==
    /\ (Idle("menu") \/ Idle("remote"))
    /\ LET s == [Link EXCEPT !.cam.bulb_open = FALSE]
       IN  IF bulbEndScript(Link) # <<>>
           THEN Set(s) /\ Begin(s, bulbEndScript(Link), After)
           ELSE BulbEndFinish(Link)
    /\ UNCHANGED <<chk, mode, bulb, run_state>>

\* timer.bulbEnd, from the screen or the remote control.
BulbEnd ==
    /\ (Idle("menu") \/ Idle("remote"))
    /\ IF bulbEndScript(Link) # <<>>
       THEN Set(Link) /\ Begin(Link, bulbEndScript(Link), After)
       ELSE BulbEndFinish(Link)
    /\ UNCHANGED <<chk, mode, bulb, run_state>>

\* capture, which for Sony is a disable and an enable.
Capture ==
    /\ (Idle("menu") \/ Idle("remote")) /\ cam.ready
    /\ IF Sony THEN Enable(disable(Link), After)
       ELSE Set(Link) /\ Begin(Link, <<"capture">>, After)
    /\ UNCHANGED <<chk, mode, bulb, run_state>>

\* setISO, setAperture and setShutter ask for nothing but a protocol.
SetParameter ==
    /\ (Idle("menu") \/ Idle("remote"))
    /\ (main.at = "menu" => d.ready)
    /\ Begin(Link, <<"set">>, After)
    /\ UNCHANGED <<usb, d, cam, conf, serial, chk, mode, bulb, run_state, hist>>

NothingToDo ==
    /\ \/ Idle("menu") \/ Idle("remote")
       \/ Idle("timer") /\ (run_state = "gap" \/ (run_state = "bulb" /\ bulb # "none"))
    /\ Begin(Link, <<>>, After)
    /\ UNCHANGED <<usb, d, cam, conf, serial, chk, mode, bulb, run_state, hist>>

-----------------------------------------------------------------------------
(* The millisecond interrupt.                                              *)

Background == {"open", "info", "connect", "cameraReady", "poll", "fetch"}

\* A transaction in the interrupt, and what it does to the one it interrupts.
InInterrupt(op) ==
    LET sends == ~d.error /\ cam.ready /\ cam.bulb
        clash == sends /\ main.todo # <<>>
    IN  IF ~sends THEN {[s |-> Link, ret |-> "error"]}
        ELSE {[Transact(Link, op, answer)
                 EXCEPT !.s.hist.spoilt = @ \/ (clash /\ usb.shutter) \/ (clash /\ op = "start"),
                        !.s.hist.hit = @ \/ (clash /\ hist.unseen = "no"
                                                 /\ Head(main.todo) \in Background)] :
                 answer \in Answers(Link, op, clash)}

Clashed == main' = [main EXCEPT !.clash = @ \/ (main.todo # <<>> /\ cam.ready
                                                /\ cam.bulb /\ ~d.error)]

\* shutter_bulbStartQuick in the tick after clock.bulb.
TickStart ==
    /\ bulb = "new"
    /\ IF cam.bulb
       THEN \E r \in InInterrupt("start") :
              /\ Set(r.s) /\ Clashed
              /\ bulb' = IF r.ret = "ok" THEN "running" ELSE "failed"
       ELSE bulb' = "running" /\ Set(Link) /\ main' = main
    /\ UNCHANGED <<chk, mode, run_state>>

\* shutter_bulbEndQuick in the tick that ends the exposure; bulbOffset makes an
\* exposure longer than the 10 ms of Expose.
TickEnd ==
    /\ bulb = "running" /\ main.at # "delay"
    /\ bulb' = "none"
    /\ IF bulbEndScript(Link) # <<>>
       THEN \E r \in InInterrupt("end") :
              /\ Set(IF r.ret \in {"ok", "busy"} THEN Done(r.s, "end") ELSE r.s)
              /\ Clashed
       ELSE Set(Link) /\ main' = main
    /\ UNCHANGED <<chk, mode, run_state>>

-----------------------------------------------------------------------------
(* External: the cable, the camera and the USB host.                       *)

\* EVENT_USB_Host_DeviceUnattached
Plug ==
    /\ \E p \in Cameras \cup {"nocable", "none"} :
         /\ p # usb.plug
         /\ (p \in Cameras => usb.plug \notin Cameras)
         /\ LET s == [CutOff(Link) EXCEPT !.usb.plug = p]
            IN  Set(IF usb.host \in {"enum", "addressed", "configured"}
                    THEN [s EXCEPT !.usb.host = "idle", !.d.error = FALSE,
                                   !.hist.missed = d.configured] ELSE s)
    /\ UNCHANGED <<chk, mode, bulb, run_state, main>>

\* EVENT_USB_Host_DeviceAttached
Attach ==
    /\ usb.host = "idle" /\ usb.plug \in Cameras
    /\ usb' = [usb EXCEPT !.host = "enum"]
    /\ d' = [d EXCEPT !.error = FALSE, !.remaining = 0]
    /\ UNCHANGED <<cam, conf, serial, chk, mode, bulb, run_state, main, hist>>

\* EVENT_USB_Host_DeviceEnumerationComplete, whose steps may fail; the USB task does
\* not run during a transaction.
Enumerate ==
    /\ usb.host = "enum" /\ main.todo = <<>>
    /\ \E state \in {"configured", "addressed"} : usb' = [usb EXCEPT !.host = state]
    /\ UNCHANGED <<d, cam, conf, serial, chk, mode, bulb, run_state, main, hist>>

\* EVENT_USB_Host_HostError
HostError ==
    /\ usb.host # "off"
    /\ Set([PTP_Disable(Link) EXCEPT !.d.error = TRUE])
    /\ UNCHANGED <<chk, mode, bulb, run_state, main>>

-----------------------------------------------------------------------------

Main == \/ Answer \/ NotifyTask \/ UsbTask \/ checkEvent \/ SwitchUsb \/ Wait \/ WaitEnds
        \/ SetMode \/ SetAperture \/ SetISO \/ SetShutter \/ SetterFails
        \/ Expose \/ Exposed \/ Shoot \/ Shot \/ ExposureEnds
        \/ NextFails \/ RunError \/ RunReset \/ Recovered \/ Stop \/ Reset \/ Toggle
        \/ BulbStart \/ BulbEnd \/ Capture \/ SetParameter \/ NothingToDo
Tick == TickStart \/ TickEnd
Host == Plug \/ Attach \/ Enumerate \/ HostError

Next == Main \/ Tick \/ Host

Fairness == WF_vars(Main) /\ WF_vars(Tick)
Spec == Init /\ [][Next]_vars /\ Fairness

-----------------------------------------------------------------------------
(* Properties.                                                             *)

\* ``Because the bulb is closed asynchronously (by the clock), this prevents
\* collisions'' (PTP.cpp:1104): a tick never starts a transaction while the main
\* loop polls, opens or connects the camera.  Commands of the screens and of the
\* remote control have no such guard, and neither has a camera that failed unseen.
PollNeverCollides == ~hist.hit

\* A camera object that is ready while the driver is not is about to be closed: the
\* notification remembers a driver that was ready.  The exception is a camera that
\* came up within resetConnection, and was lost again before the next Notify::task.
FallNoticed ==
    (cam.ready /\ ~d.ready /\ ~cam.disabled) => (chk \/ hist.unseen # "no")

\* Settings follow the camera: what is open and ready has its own settings loaded,
\* never those of the camera that was plugged in before.
SettingsMatch ==
    (cam.ready /\ usb.session /\ hist.unseen = "no") => conf = usb.plug

\* An open shutter is known: whoever is to end the exposure finds bulb_open set,
\* unless a transaction failed, was answered busy, was swallowed by data left over
\* or met another one since the shutter opened.
ShutterKnown ==
    usb.shutter => (cam.bulb_open \/ hist.spoilt)

\* A camera that is configured comes up, or an error says why it does not; only a
\* camera replaced between two calls of PTP_Task may stay without a session.
CameraComesUp ==
    (usb.host = "configured" /\ mode = 1 /\ ~cam.disabled)
        ~> (d.ready \/ d.error \/ usb.host # "configured" \/ mode = 0 \/ cam.disabled
            \/ hist.missed)

\* A camera switched off for an exposure is switched on again, unless the run was
\* stopped during the exposure.
SwitchedOnAgain == (cam.disabled /\ ~hist.kept) ~> (~cam.disabled \/ hist.kept)

=============================================================================
