---------------------------- MODULE ShutterPort ----------------------------
(***************************************************************************)
(* The camera port: the shutter functions of shutter.cpp, the bulb timing  *)
(* of Clock::count and the deferred calls, driven the way shutter::task    *)
(* drives them (gap, bulb or capture, gap, stop).                          *)
(*                                                                         *)
(* `dev' is everything the shutter functions assign; each function is an   *)
(* operator from dev to dev.  The millisecond interrupt runs to its end    *)
(* before the main loop goes on (visiting # 0 while it loops over the      *)
(* slots); any number of ticks passes between two steps of the main loop.  *)
(* A call from the main loop is one step here; CallQueue opens it up.      *)
(***************************************************************************)
EXTENDS DeferredCalls

CONSTANTS
    Configs,            \* settings the model starts from
    Durations,          \* arguments of Clock::bulb
    DurationModulus,    \* 2^32 in the firmware
    SyncWait,           \* 2000 ms added while waiting for pc-sync
    PressTime,          \* SHUTTER_PRESS_TIME
    CaptureTime,        \* 200 ms, how long shutter_capture presses
    PulseTime           \* conf.dollyPulse, conf.dollyPulse2

Interfaces == {"cable", "usb", "ir"}

Config == [bulbMode : {"hold", "toggle"}, halfPress : BOOLEAN,
           interface : SUBSET Interfaces, usbPrimary : BOOLEAN,
           cable : BOOLEAN,         \* a cable is plugged in
           ready : BOOLEAN,         \* a camera that can be driven is on USB
           sync : BOOLEAN, pcSyncRequired : BOOLEAN,
           bulbOffset : Int, bulbEndOffset : Nat,
           dolly : BOOLEAN,         \* the aux port pulses a dolly
           cameraDolly : BOOLEAN,   \* the camera port does (and aux is sync)
           lightning : BOOLEAN]     \* INT6 is enabled

ASSUME ConfigAssumption == Configs \subseteq Config
ASSUME DurationAssumption ==
    /\ DurationModulus \in Nat \ {0} /\ SyncWait \in Nat
    /\ Durations \subseteq 0 .. (DurationModulus - 1)
ASSUME PortTimesAssumption == {PressTime, CaptureTime, PulseTime} \subseteq Times \ {0}

VARIABLES
    conf,               \* settings and camera, fixed during the behaviour
    dev,                \* lines, states and deferred calls
    bulb,               \* the bulb fields of Clock
    skips, visiting,    \* the tick in progress
    main,               \* where shutter::task is in its exposure cycle
    exposing,           \* external: a toggled camera's bulb shutter is open
    hist                \* history of the exposure: asked for, synced, its age

vars == <<conf, dev, bulb, skips, visiting, main, exposing, hist>>

Device == [calls : Calls, shutter : BOOLEAN, mirror : BOOLEAN,
           aux1 : BOOLEAN, aux2 : BOOLEAN,
           shutter_state : {0, 1}, ir_shutter_state : {0, 1},
           bulb_open : BOOLEAN, lastShutterError : BOOLEAN,
           skipTask : BOOLEAN, dropped : BOOLEAN]

BulbTimes == 0 .. (DurationModulus - 1)
Bulb == [newBulb : BOOLEAN, bulbRunning : BOOLEAN, usingSync : BOOLEAN,
         bulbDuration : BulbTimes, bulbDurationPCsync : BulbTimes]

History == [asked : Nat, synced : BOOLEAN, waited : BOOLEAN, age : Nat]

TypeOK ==
    /\ conf \in Configs
    /\ dev \in Device
    /\ bulb \in Bulb
    /\ skips \in Nat
    /\ visiting \in 0 .. (CLOCK_IN_QUEUE + 1)
    /\ main \in {"stopped", "gap", "starting", "retry", "bulb"}
    /\ exposing \in BOOLEAN
    /\ hist \in History

-----------------------------------------------------------------------------
(* The shutter functions.                                                  *)

\* The camera port is the dolly's: the shutter functions leave it alone.
PortTaken == conf.cameraDolly /\ conf.sync

\* The cable lines are driven (whether or not a cable is plugged in).
Cable == "cable" \in conf.interface /\ ~conf.usbPrimary

\* CHECK_CABLE
cable_connected == conf.cable /\ ~PortTaken

\* clock.in from a shutter function; dropped remembers a request without a slot.
ClockIn(d, stime, func) ==
    [d EXCEPT !.calls = In(d.calls, stime, func),
              !.dropped = @ \/ \A i \in Slots : d.calls[i].time > 0]

\* SHUTTER_CLOSE (which also releases the mirror line).
ShutterClose(d) == [d EXCEPT !.shutter = FALSE, !.mirror = FALSE]

shutter_off_quick(d) ==
    IF PortTaken THEN d
    ELSE [ShutterClose(d) EXCEPT !.ir_shutter_state = 0, !.shutter_state = 0]

shutter_off(d) ==
    IF PortTaken THEN d
    ELSE ClockIn(shutter_off_quick(d), CheckDelay, "check_cable")

shutter_half(d) ==
    IF PortTaken THEN d
    ELSE IF conf.halfPress
    THEN ClockIn(shutter_off(d), HalfDelay, "shutter_half_delayed")
    ELSE shutter_off(d)

shutter_half_delayed(d) ==
    IF PortTaken THEN d ELSE [ShutterClose(d) EXCEPT !.mirror = TRUE]

shutter_full(d) ==
    IF PortTaken THEN d ELSE [d EXCEPT !.mirror = TRUE, !.shutter = TRUE]

\* How a USB transfer turns out: switching the camera to bulb mode may fail,
\* or the command itself.
UsbOutcomes == IF conf.ready THEN {"ok", "modeFails", "fails"} ELSE {"ok"}

\* The USB or IR half of shutter_bulbStartQuick.
RemoteBulbStart(d, usb) ==
    IF (cable_connected /\ Cable) \/ d.ir_shutter_state = 1 THEN d
    ELSE IF conf.ready /\ "usb" \in conf.interface
    THEN [d EXCEPT !.bulb_open = @ \/ usb # "modeFails", !.lastShutterError = (usb # "ok")]
    ELSE IF "ir" \in conf.interface /\ ~conf.usbPrimary
    THEN [d EXCEPT !.ir_shutter_state = 1]
    ELSE d

\* The cable half.
CableBulbStart(d) ==
    IF conf.bulbMode = "hold" THEN shutter_full(d)
    ELSE IF d.shutter_state = 1 THEN d
    ELSE ClockIn([shutter_full(d) EXCEPT !.shutter_state = 1], PressTime,
                 IF conf.ready THEN "shutter_off" ELSE "shutter_half")

shutter_bulbStartQuick(d, usb) ==
    LET started == RemoteBulbStart([d EXCEPT !.lastShutterError = FALSE], usb)
    IN  IF started.lastShutterError /\ usb = "modeFails" THEN started
        ELSE IF Cable THEN CableBulbStart(started)
        ELSE started

\* camera.bulbEnd: nothing without a camera or an open bulb.
CameraBulbEnd(d, usb) ==
    IF conf.ready /\ usb = "ok" THEN [d EXCEPT !.bulb_open = FALSE] ELSE d

RemoteBulbEnd(d, usb) ==
    IF ~d.bulb_open /\ d.ir_shutter_state = 0 THEN d
    ELSE IF d.bulb_open /\ "usb" \in conf.interface
    THEN [CameraBulbEnd(d, usb) EXCEPT !.ir_shutter_state = 0]
    ELSE [d EXCEPT !.ir_shutter_state = 0]

shutter_bulbEndQuick(d, usb) ==
    LET ended == RemoteBulbEnd(d, usb)
    IN  IF ~Cable THEN ended
        ELSE IF conf.bulbMode = "hold" THEN shutter_off(ended)
        ELSE IF ended.shutter_state = 0 THEN ended
        ELSE ClockIn([shutter_full(ended) EXCEPT !.shutter_state = 0],
                     PressTime, "shutter_off")

\* Fault for mutation: the press is never released.
FaultyCapture(d, usb) == shutter_full(d)
shutter_capture(d, usb) ==
    IF conf.interface \cap {"cable", "usb"} = {} THEN [d EXCEPT !.lastShutterError = FALSE]
    ELSE [ClockIn(shutter_full(d), CaptureTime, "shutter_off") EXCEPT
             !.ir_shutter_state = 0, !.shutter_state = 0,
             !.lastShutterError = ~cable_connected /\ usb # "ok"]

aux1_off(d) == IF PortTaken THEN ShutterClose(d) ELSE [d EXCEPT !.aux1 = FALSE]
aux2_off(d) == IF PortTaken THEN [d EXCEPT !.mirror = FALSE] ELSE [d EXCEPT !.aux2 = FALSE]

aux_pulse(d) ==
    LET on == IF PortTaken THEN [d EXCEPT !.shutter = TRUE, !.mirror = TRUE]
              ELSE [d EXCEPT !.aux1 = TRUE, !.aux2 = TRUE]
    IN  ClockIn(ClockIn(on, PulseTime, "aux1_off"), PulseTime, "aux2_off")

\* (*inFunction[i])()
Callback(d, func) ==
    CASE func = "shutter_off" -> shutter_off(d)
      [] func = "shutter_half" -> shutter_half(d)
      [] func = "shutter_half_delayed" -> shutter_half_delayed(d)
      [] func = "aux1_off" -> aux1_off(d)
      [] func = "aux2_off" -> aux2_off(d)
      [] func = "check_cable" -> d

-----------------------------------------------------------------------------
(* Steps change the device.  A camera in momentary-toggle bulb mode opens  *)
(* and closes on every press; a capture leaves its bulb shutter alone.     *)

Drive(d) ==
    /\ dev' = d
    /\ exposing' = IF conf.bulbMode = "toggle" /\ ~dev.shutter /\ d.shutter
                   THEN ~exposing ELSE exposing

Press(d) == dev' = d /\ UNCHANGED exposing

Init ==
    /\ conf \in Configs
    /\ dev = [calls |-> NoCalls, shutter |-> FALSE, mirror |-> FALSE,
              aux1 |-> FALSE, aux2 |-> FALSE, shutter_state |-> 0, ir_shutter_state |-> 0,
              bulb_open |-> FALSE, lastShutterError |-> FALSE,
              skipTask |-> FALSE, dropped |-> FALSE]
    /\ bulb = [newBulb |-> FALSE, bulbRunning |-> FALSE, usingSync |-> FALSE,
               bulbDuration |-> 0, bulbDurationPCsync |-> 0]
    /\ skips = 0
    /\ visiting = 0
    /\ main = "stopped"
    /\ exposing = FALSE
    /\ hist = [asked |-> 0, synced |-> FALSE, waited |-> FALSE, age |-> 0]

-----------------------------------------------------------------------------
(* The main loop: shutter::task and Clock's bulb, cancelBulb and reset.    *)

MainStep(from, to) ==
    /\ visiting = 0
    /\ main = from
    /\ main' = to
    /\ UNCHANGED <<conf, skips, visiting>>

\* The run begins: clock.reset() and both lines released.
BeginRun ==
    /\ MainStep("stopped", "gap")
    /\ Drive(ShutterClose(dev))
    /\ bulb' = [bulb EXCEPT !.bulbRunning = FALSE, !.newBulb = FALSE, !.usingSync = FALSE]
    /\ UNCHANGED hist

\* Mirror up: shutter_half on every pass through the end of the gap.
GapHalf ==
    /\ MainStep("gap", "gap")
    /\ ~conf.ready
    /\ Drive(shutter_half(dev))
    /\ UNCHANGED <<bulb, hist>>

GapPulse ==
    /\ MainStep("gap", "gap")
    /\ conf.dolly \/ conf.cameraDolly
    /\ Drive(aux_pulse(dev))
    /\ UNCHANGED <<bulb, hist>>

Capture(usb) ==
    /\ MainStep("gap", "gap")
    /\ Press(shutter_capture(dev, usb))
    /\ UNCHANGED <<bulb, hist>>

\* Fault for mutation: the light sensor is read during the exposure.
FaultySkipLight(d) == d
SkipLight(d) == [d EXCEPT !.skipTask = TRUE]

\* Clock::bulb; a ramp releases the port first.  The exposure before it ended
\* at least 50 ms ago, so no skipped tick is left over.
StartBulb(duration, ramp) ==
    /\ \E from \in {"gap", "retry"} : MainStep(from, "starting")
    /\ skips = 0
    /\ Drive(SkipLight([(IF ramp THEN shutter_off(dev) ELSE dev) EXCEPT !.bulb_open = TRUE]))
    /\ bulb' = [bulb EXCEPT !.bulbRunning = FALSE, !.bulbDuration = duration, !.newBulb = TRUE]
    /\ hist' = [hist EXCEPT !.asked = duration, !.age = 0]

\* After the 10 ms wait: the exposure goes on, or Clock::cancelBulb.
BulbStarted ==
    /\ ~bulb.newBulb
    /\ ~dev.lastShutterError
    /\ MainStep("starting", "bulb")
    /\ UNCHANGED <<dev, exposing, bulb, hist>>

BulbFailed ==
    /\ ~bulb.newBulb
    /\ dev.lastShutterError
    /\ MainStep("starting", "retry")
    /\ Drive([dev EXCEPT !.skipTask = FALSE])
    /\ bulb' = [bulb EXCEPT !.bulbRunning = FALSE, !.newBulb = FALSE, !.bulbDuration = 0]
    /\ UNCHANGED hist

\* RUN_ERROR: release, half press, release.
Recover ==
    /\ MainStep("retry", "gap")
    /\ Drive(shutter_off(shutter_half(CameraBulbEnd(shutter_off(dev), "ok"))))
    /\ UNCHANGED <<bulb, hist>>

\* The exposure is over; with a short interval the mirror goes up again.
BulbDone(mirrorUp) ==
    /\ ~bulb.bulbRunning
    /\ MainStep("bulb", "gap")
    /\ Drive(IF mirrorUp /\ ~conf.ready THEN shutter_half(dev) ELSE dev)
    /\ UNCHANGED <<bulb, hist>>

\* Fault for mutation: the port is left as it is.
FaultyRunEnd(d, usb) == aux2_off(aux1_off(CameraBulbEnd(d, usb)))
RunEnd(d, usb) == aux2_off(aux1_off(CameraBulbEnd(shutter_off(d), usb)))

\* RUN_END: the run is over or was stopped, also on the pass after a refused
\* start; the clock is not told.
StopRun(usb) ==
    /\ \E from \in {"gap", "retry", "bulb"} : MainStep(from, "stopped")
    /\ Drive(RunEnd(dev, usb))
    /\ UNCHANGED <<bulb, hist>>

-----------------------------------------------------------------------------
(* The interrupts.                                                         *)

\* INT6, enabled while no run is on.
LightningInterrupt(usb) ==
    /\ conf.lightning
    /\ main = "stopped"
    /\ visiting = 0
    /\ Press(shutter_capture(dev, usb))
    /\ UNCHANGED <<conf, bulb, skips, visiting, main, hist>>

\* A tick that handles the bulb returns before the loop over the slots.
SkippedTick ==
    /\ visiting = 0
    /\ skips' = skips + 1
    /\ UNCHANGED <<conf, visiting, main>>

\* Fault for mutation: bulbDuration > bulbEndOffset is not asked.
FaultyLessEndOffset(duration) == duration - conf.bulbEndOffset
LessEndOffset(duration) ==
    IF duration > conf.bulbEndOffset THEN duration - conf.bulbEndOffset ELSE 0

\* input is AUX_INPUT1.
TickBulbStart(usb, input) ==
    LET waits == conf.sync /\ ~input
        longer == IF waits /\ conf.pcSyncRequired THEN SyncWait ELSE 0
    IN  /\ SkippedTick
        /\ bulb.newBulb
        /\ Drive(shutter_bulbStartQuick(dev, usb))
        /\ bulb' = [bulb EXCEPT
                !.newBulb = FALSE,
                !.bulbRunning = TRUE,
                !.bulbDuration = (@ + longer + conf.bulbOffset) % DurationModulus,
                !.bulbDurationPCsync =
                    IF waits THEN LessEndOffset(bulb.bulbDuration) ELSE 0]
        /\ hist' = [hist EXCEPT !.age = 0, !.synced = FALSE, !.waited = (longer > 0)]

\* bulbDuration-- on every tick of a running bulb.
Ticking == ~bulb.newBulb /\ bulb.bulbRunning
Remaining == (bulb.bulbDuration - 1) % DurationModulus

\* Fault for mutation: bulbRunning stays set.
FaultyEnded(b) == [b EXCEPT !.bulbDuration = 0]
Ended(b) == [b EXCEPT !.bulbDuration = 0, !.bulbRunning = FALSE,
                      !.usingSync = @ /\ b.bulbDurationPCsync = 0]

TickBulbEnd(usb) ==
    /\ SkippedTick
    /\ Ticking
    /\ Remaining = 0
    /\ Drive([shutter_bulbEndQuick(dev, usb) EXCEPT !.skipTask = FALSE])
    /\ bulb' = Ended(bulb)
    /\ hist' = [hist EXCEPT !.age = 0]

\* Fault for mutation: the synced exposure keeps the time that was left.
FaultyResync(b) == [b EXCEPT !.bulbDuration = Remaining, !.bulbDurationPCsync = 0,
                             !.usingSync = TRUE]
Resync(b) == [b EXCEPT !.bulbDuration = b.bulbDurationPCsync, !.bulbDurationPCsync = 0,
                       !.usingSync = TRUE]

\* The camera signals that its shutter is open: time from here.
TickBulbSync ==
    /\ SkippedTick
    /\ Ticking
    /\ Remaining # 0
    /\ bulb.bulbDurationPCsync > 0
    /\ bulb' = Resync(bulb)
    /\ hist' = [hist EXCEPT !.age = 0, !.synced = TRUE]
    /\ UNCHANGED <<dev, exposing>>

\* Any other tick counts the bulb down and goes through the slots.
TickStart ==
    /\ visiting = 0
    /\ ~bulb.newBulb
    /\ Ticking => Remaining # 0
    /\ visiting' = 1
    /\ bulb' = IF Ticking THEN [bulb EXCEPT !.bulbDuration = Remaining] ELSE bulb
    /\ hist' = IF Ticking THEN [hist EXCEPT !.age = @ + 1] ELSE hist
    /\ UNCHANGED <<conf, dev, skips, main, exposing>>

TickSlot ==
    /\ visiting \in Slots
    /\ visiting' = visiting + 1
    /\ LET slot == dev.calls[visiting]
           counted == [dev EXCEPT !.calls[visiting].time = Elapse(@, skips)]
       IN  Drive(IF slot.time = 0 THEN dev
                 ELSE IF Elapse(slot.time, skips) > 0 THEN counted
                 ELSE Callback(counted, slot.func))
    /\ UNCHANGED <<conf, bulb, skips, main, hist>>

TickEnd ==
    /\ visiting = CLOCK_IN_QUEUE + 1
    /\ visiting' = 0
    /\ skips' = 0
    /\ UNCHANGED <<conf, dev, bulb, main, exposing, hist>>

Tick ==
    \/ \E usb \in UsbOutcomes, input \in BOOLEAN : TickBulbStart(usb, input)
    \/ \E usb \in UsbOutcomes : TickBulbEnd(usb)
    \/ TickBulbSync
    \/ TickStart
    \/ TickSlot
    \/ TickEnd

Main ==
    \/ BeginRun
    \/ GapHalf
    \/ GapPulse
    \/ \E usb \in UsbOutcomes : Capture(usb)
    \/ \E duration \in Durations, ramp \in BOOLEAN : StartBulb(duration, ramp)
    \/ BulbStarted
    \/ BulbFailed
    \/ Recover
    \/ \E mirrorUp \in BOOLEAN : BulbDone(mirrorUp)
    \/ \E usb \in UsbOutcomes : StopRun(usb)

Next == Main \/ Tick \/ \E usb \in UsbOutcomes : LightningInterrupt(usb)

\* The timer interrupt keeps coming.
Spec == Init /\ [][Next]_vars /\ WF_vars(Tick)

-----------------------------------------------------------------------------
(* Properties.                                                             *)

\* clock.cpp: "don't read I2C during timing".  From Clock::bulb to the tick
\* that closes the shutter the light sensor is off.
LightOffDuringTiming == bulb.newBulb \/ bulb.bulbRunning => dev.skipTask

\* A counter of bulbDuration's width that starts at n runs for n milliseconds,
\* or for the rest of a turn when n is zero, negative or too large for it.
Turned(n) == 1 + ((n - 1) % DurationModulus)

\* An exposure lasts what was asked for plus the offset, to the millisecond,
\* and up to SyncWait longer when the sync it waits for never comes; one that
\* is synced lasts what was asked for less the end offset, from the sync on.
\* Clock::count subtracts a negative offset unasked: an exposure that is not
\* longer than it lasts nearly a whole turn of the counter.
ExposureLength ==
    IF hist.synced THEN hist.asked - conf.bulbEndOffset
    ELSE hist.asked + conf.bulbOffset + (IF hist.waited THEN SyncWait ELSE 0)
Left == IF bulb.bulbDuration = 0 THEN DurationModulus ELSE bulb.bulbDuration
BulbLength == bulb.bulbRunning => hist.age + Left = Turned(ExposureLength)

\* A press on the cable is never left without a release: while the shutter
\* line is open and no exposure holds it, a call that releases it is pending,
\* unless some request found no free slot.
Releases == {"shutter_off", "shutter_half", "shutter_half_delayed"}
ReleasePending ==
    dev.shutter /\ ~PortTaken /\ ~bulb.newBulb /\ ~bulb.bulbRunning /\ main # "retry"
      => \/ dev.dropped
         \/ \E i \in Slots : dev.calls[i].time > 0 /\ dev.calls[i].func \in Releases

\* Once a run has ended the shutter line stays closed, although the clock may
\* still be timing the exposure that the end cut off.
ClosedAfterStop == main = "stopped" /\ ~conf.lightning => ~dev.shutter

\* Menu_Map.h: "Holds shutter down".  In standard bulb mode the shutter line is
\* open for as long as the exposure runs and the run is not stopped.
HoldsShutterDown ==
    bulb.bulbRunning /\ main = "bulb" /\ Cable /\ ~PortTaken /\ conf.bulbMode = "hold"
      => dev.shutter

\* Menu_Map.h: "Press on press off".  In momentary toggle mode the camera's
\* shutter is closed again when the exposure is over and all calls have run.
PressOnPressOff ==
    /\ conf.bulbMode = "toggle" /\ Cable /\ ~PortTaken /\ ~dev.dropped
    /\ main = "gap" /\ ~bulb.bulbRunning /\ ~bulb.newBulb /\ bulb.bulbDuration = 0
    /\ \A i \in Slots : dev.calls[i].time = 0
    => ~exposing

\* Every exposure the clock starts comes to its end.
BulbEnds == bulb.newBulb \/ bulb.bulbRunning ~> ~bulb.newBulb /\ ~bulb.bulbRunning
=============================================================================
