# Timelapse+ firmware: a TLA+ model

Timelapse+ is a camera intervalometer on an 8-bit AVR (firmware under `src/src/`).
A main loop polls tasks; a timer interrupt every millisecond runs the clock, times
exposures and calls deferred functions; a second interrupt (INT6) fires on lightning.
A camera hangs on a cable, on USB (PTP) or on an infrared remote.  This directory
models it from the interrupt up to the intervalometer, with the camera on USB, the Bluetooth
link and the EEPROM around it, checks the models with TLC on small instances and proves
their safety with TLAPS for every instance: every invariant of the passing runs has a theorem.

## 1. Inventory

| component | state | operations | interacts with | hard part | correct when |
|---|---|---|---|---|---|
| deferred calls (`clock.cpp`) | `inTime[3]`, `inFunction[3]`, `skips` | `Clock::in`, loop of `Clock::count` | every shutter function, from main loop and interrupt | `in` is not atomic; unsigned counters; three slots | each call runs once, when due, never through a bad pointer |
| bulb timing (`clock.cpp`) | `newBulb`, `bulbRunning`, `bulbDuration`, `bulbDurationPCsync`, `usingSync` | `bulb`, `cancelBulb`, `reset`, `count` | camera port, light sensor | runs under the main loop, re-timed by pc-sync | exposures have the length asked for and end |
| wall clock (`clock.cpp`) | `ms`, `seconds`, `event_ms`, sleep flags | `Ms`, `Seconds`, `tare`, `sleep`, `awake` | everything | multi-byte reads race the tick | time never jumps |
| camera port (`shutter.cpp`) | shutter, mirror and aux lines, `shutter_state`, `ir_shutter_state`, `lastShutterError` | `shutter_off/half/full`, `bulbStart/End`, `capture`, `aux_pulse` | deferred calls, PTP, IR | callbacks act on a port that has moved on | lines open exactly during presses and exposures |
| intervalometer (`shutter::task`) | `running`, `enter`, `run_state`, `old_state`, `exps`, `photos`, `pausing`, `paused`, `preChecked`, `usingUSB`, `current` | `task`, `begin`, `pause`, `load`, `switchTo...` | clock, port, PTP, menu, light, motors | user, USB and interrupt between any two passes | right number of photos, all exposed, always ends |
| exposure ramp (`shutter.cpp`, `math.cpp`) | `evShift`, `rampStops`, keyframes | `calculateExposure`, `interpolateKeyframe`, `calcBulbMax` | light, intervalometer | rounding, table ends | values stay in the camera's range |
| PTP camera and driver (`PTP.cpp`, `PTP_Driver.c`) | `ready`, `busy`, `bulb_open`, modes; `PTP_Ready`, `PTP_Error` | `init`, `close`, `capture`, `bulbStart/End`, `checkEvent`, `PTP_Transaction` | USB host, port, notify | called from main loop and interrupt; cable pulled at any moment | no transaction within a transaction; `ready` follows the cable |
| notification (`notify.cpp`) | 15 watched items with checksums | `watch`, `unWatch`, `task` | remote, main loop | changes between polls | every lasting change is reported |
| Bluetooth, remote (`bluetooth.cpp`, `remote.cpp`) | mode, state, event, buffer; `connected`, `nmx` | commands, `read`, `task`; `event`, `send` | notify, intervalometer, menu | lost lines, time-outs, commands during a run | both ends agree on what is connected and running |
| buttons (`button.cpp`) | counters, flags, status per key | `poll` (interrupt), `get` | menu | flag set and cleared from two sides | one press, one key |
| light (`light.cpp`) | range, integration buffer, `skipTask` | `task`, `start`, `stop`, `readIntegratedEv` | I2C, clock | must keep off the bus while an exposure is timed | no reading during timing |
| menu, screens (`Menu.cpp`, `tlp_menu_functions.cpp`) | stack, state, alerts | `task`, `push`, `back`, `alert`, screens | everything | alerts and screens opened from tasks | returns to where it came from |
| settings (`settings.cpp`) | EEPROM records | `load`, `save`, `setup_camera_index` | everything | reset during a save | a stored record is whole |
| motion (`nmx.cpp`) | connection, position | `move`, `running`, `query` | Bluetooth, intervalometer | half-done serial dialogues | photo only when still |

The rest (display, fonts, infrared waveforms, USB descriptors, serial console, self test,
register access, LUFA) is output, tables or third-party code: see `components` in
`PROJECT.json`, which lists every part with its status, and `hazards`, which lists what
is hard to test, each at its line.

## 2. Modules

| module | models | state and actions |
|---|---|---|
| `DeferredCalls` | the slots of the clock: `Clock::in` and the countdown as operators | constants and operators only, shared by the next two |
| `CallQueue` | `Clock::in` of the main loop opened into scan, store of `inFunction`, store of `inTime`, against `Clock::count` and INT6 | `calls`, `skips`, `visiting` (loop counter of the tick), `main` (the main loop's call), `left` and `prior` (history: when each slot is really due, and the ticks before its arming it will be charged for) |
| `ShutterPort` | the shutter functions, the bulb half of `Clock::count`, `Clock::bulb/cancelBulb/reset`, in the order `shutter::task` calls them | `dev` (lines, states, slots), `bulb`, `skips`, `visiting`, `main`, `conf` (settings, fixed), `exposing` (a toggled camera), `hist` |
| `Intervalometer` | the abstract specification of a run: checked, started, photos one at a time, ended | `mode`, `wanted`, `held`, `count`, `least`, `most`, `same` |
| `Timer` | `shutter::task`, `begin`, `pause`, `load`, the stop, pause, resume and method keys, a program set by a paired unit | `prog`, `t` (the variables of `task`), `cam` (external), `bulbRunning`, `alert`, `fails` |
| `CameraLink` | `PTP_Driver.c`, the connection and exposures of `PTP.cpp`, `Notify::task` and `message_notify` for the camera, `USBmode`, and the handlers that use the bus | `usb` (external: cable, host, camera), `d` (driver), `cam` (camera object), `conf`, `serial`, `chk` (notified value), `mode`, `bulb`, `run_state` (of `shutter::task`), `main` (phase and transactions to do), `hist` |
| `Bluetooth` | `bluetooth.cpp`, the events of `remote.cpp`, the dialogues of `nmx.cpp`, the table of `notify.cpp` | `rx` (lines not read), `mod` (external: the radio module), `bt`, `rem`, `items`, `chk`, `main`, `hist` |
| `Storage` | `settings.cpp`, the stored programs, the screens that save, rename, delete and reset, with loss of power | `ee`, `conf`, `index`, `timer`, `seen`, `todo` (what the handler still writes), `hist` |
| `CallQueueProofs`, `ShutterPortProofs`, `ShutterLineProofs`, `IntervalometerProofs`, `TimerProofs`, `CameraLinkProofs`, `BluetoothProofs`, `StorageProofs` | theorems (section 4) | |
| `MCCallQueue`, `MCShutterPort`, `MCTimer`, `MCCameraLink`, `MCBluetooth`, `MCStorage` | small instances for TLC | |

**Atomicity.** The interrupt is not interrupted by the main loop; while `visiting # 0`
only the tick moves.  In `CallQueue` the main loop's `Clock::in` can be interrupted
between any two of its memory operations, by at most one tick, as a call takes
microseconds.  (The two bytes of `inTime` and of `inFunction` are stored as one: a tick
between the two bytes of the store is not distinguished.)  In `ShutterPort` a whole shutter
function called from the main loop is one step: what can happen inside `Clock::in` is
`CallQueue`'s subject.  Any number of ticks passes between two main-loop steps.  In `Timer`
one pass of `task` is one step, because menu, notification and remote handlers run between
passes; each block of `task` is an operator on the timer record, and the pass is their
composition in the order of the code, `ret` being an early return.  What `task` waits for
(`waited`, `still`, `late`, `pin`, `usb`, `alert`) is an input of the pass.

In `CameraLink` the main loop goes through its phases in the order of the code, and a phase
that talks to the camera leaves its transactions in `main.todo`; the first of them is on
the bus until its answer is taken, and in between the tick may start and end exposures
with transactions of its own and the host may lose the camera.  Two transactions that meet
(`main.clash`) may take each other's answers.  Of `shutter::task` it has what touches the camera:
the setters before a photo, a photo, a bulb exposure, the error state with `bulbEnd` and
`resetConnection`, and `RUN_END`; `run_state` says which of them is next, and is `gap` between.  In `Bluetooth` every command that the
firmware sends, every line it reads and every pass of `task` is a step, and lines arrive
between any two.  In `Storage` a handler is a script of writes of whole records; the power
may go between two of them or in the middle of one, which leaves a record that is partly
new and partly old.

**What is left out.**  In `Timer`: which exposure, aperture, ISO and ND value is set; the focus
and motor moves (only whether they are over); the Sony branch; aperture changes during a
pause; status texts; the frame-rate guard's cast; and `menu.task()` nested in "Loading".  In
`ShutterPort`: the Sony and developer branches, and the half press at the start of
`RUN_DELAY`, whose callbacks have run when its 100 ms wait is over.  In `CameraLink`: what an
answer says (property lists, live view, focus), `PTP_GetEvent` and the busy time-out of
`checkEvent`; one transaction stands for the few that connect a camera or start or end an
exposure, since each of those ends its handler when it fails.  In `Bluetooth`: the
bytes of a line (the version that `sleep` tests, below which it does not put the module to sleep,
may be either), names, addresses and signal strength, the time-outs of `read`, and the
values sent.  In `Storage`: the value of a setting beyond who chose it
(`mine`, `factory`, `zero`, `junk`).

**The refinement.**  `Timer` implements `Intervalometer` (`ImplementsIntervalometer`) under the
mapping at the end of `Timer.tla`: a run is off until `enter`, checked while `preChecked` is
positive and running after that; `wanted` is `running`, `held` is `paused`, `count` is
`photos`.  `most` is what the program in use asks for, `least` the same, or three for
a program with an external trigger, which also ends when, after the second photo, no trigger
comes in time.  A program replaced
during the run, by the user or by a paired unit, clears `same`: the counters of the old run
go on under the new program, and nothing is promised about the length of such a run, except
that it ends (`RunCompletes`).  TLC checks the refinement on the six programs, and
`TimerProofs` proves it for all.

**How modules fit together.**  They are composed by their interfaces, not in one state space.
`ShutterPort` reuses `DeferredCalls`, whose races are `CallQueue`'s subject.  `Timer` sees a
camera that may fail, come back and be busy at any pass; `CameraLink` shows which of
this can happen and lets an abstract timer start, end and abandon exposures at any time.
`Bluetooth` says when programs and commands of a paired unit arrive, which `Timer`'s
`RemoteProgram` and `CameraLink`'s commands accept at any time.  `Storage` says that the settings of
a camera are its own, `CameraLink` that the right camera's are loaded.

## 3. Runs

| run | module, cfg | shows |
|---|---|---|
| `callqueue` | `MCCallQueue` | two slots, counters modulo 8, up to two skipped ticks in a row (start and end of an exposure): `ArmedSlotHasFunction`, `NoFireIntoHalfWrittenSlot`, `SkipAccounting` and `FiresWhenDue` (a callback is early by the ticks owed when it was armed, or a turn of the counter late) |
| `shutterport` | `MCShutterPort` | seven settings (hold with pc-sync and offsets, USB, toggle with dolly, camera-port dolly, infra-red and cable with lightning, an offset that leaves nothing of the exposure): `LightOffDuringTiming`, `BulbLength`, `ReleasePending`, `ClosedAfterStop`, `BulbEnds` |
| `timer` | `MCTimer` | six programs (plain, HDR, single photo, endless, ramp, three photos by an external trigger), two USB failures, programs replaced during the run: `CountsItsPhotos` (a run that ends by itself has the photos asked for, or at least three if its external trigger stayed away; none has more), `HdrSetComplete`, `MethodRestored`; under fairness `StopEndsUnpausedRun`, `RunCompletes`, `ResumeEndsPause`; the refinement `ImplementsIntervalometer` |
| `camera_link` | `MCCameraLink` | a camera of each of three makers: no tick meets a poll (`PollNeverCollides`), a camera that is lost is closed (`FallNoticed`), a camera works with its own settings (`SettingsMatch`), an open shutter is known (`ShutterKnown`) |
| `camera_live` | `MCCameraLinkLive.cfg` | a Sony camera, the maker whose exposures switch the bus off: `CameraComesUp`, `SwitchedOnAgain` |
| `bluetooth` | `MCBluetooth` | four kinds of peer: driver and radio agree on the connection (`NoGhostLink`, `NoOrphanLink`), the flags of the remote control and the motors follow it (`FlagsFollow`, `MotorsFollow`), watches fit the table and end with the connection (`WatchesFit`, `WatchesFollow`) |
| `storage` | `MCStorage` | three cameras for two records, firmware updates, power lost at any write: `SerialOnce`, `OwnRecord`, `TestedItself`, `Recovered`, `OthersKept` |
| `shutterport_hold` | `MCShutterPortHold.cfg` | violation of `HoldsShutterDown` |
| `shutterport_toggle` | `MCShutterPortToggle.cfg` | violation of `PressOnPressOff` |
| `timer_stop` | `MCTimerStop.cfg` | violation of `StopEndsRun` |
| `timer_retry` | `MCTimerRetry.cfg` | violation of `PhotoWasExposed` |
| `storage_reset` | `MCStorageReset.cfg` | violation of `FactoryDefaults` |

Each module also has a `TypeOK`, which carries the widths of the counters and the ends of
the tables.

**The five disagreements.**
1. *Holds shutter down.*  `shutter_half`, called on every pass at the end of a gap, defers
   `shutter_half_delayed` by 30 ms; an exposure that starts within them is closed by it.
2. *Press on press off.*  The deferred release of the first press clears `shutter_state`, on
   which the closing press of a toggled exposure depends.
3. *Stops intervalometer if currently running.*  A paused pass returns before it looks at the
   stop.  The run never ends, and the next `begin` carries on with it, under whatever
   program has been loaded since, without initialising it.
4. *try it again.*  After a bus error `RUN_ERROR` goes on at `RUN_NEXT`, which counts a photo
   that was not exposed.  (An HDR set does make the exposure again: `HdrSetComplete` holds.)
5. *restores factory defaults.*  With a camera's record in use, the save at the end of
   `settings_default` reads the default camera back from the EEPROM before it writes it.

**Cases the properties set apart.**  Some properties hold except after a race or a fault the
code does not handle; the history variable `hist` records that this happened, so that the
property says exactly where the promise ends.
- `CameraLink`, `unseen`: a camera comes up within `resetConnection` while `Notify`
  remembers "not ready", and is lost before `Notify::task` looks.  It is never closed, and the
  next camera is used with its settings, because `message_notify` ignores a rise
  when the camera object is ready (`timelapseplus.cpp:518`).
- `missed`: a camera is exchanged between two calls of `PTP_Task` (`PTP_Driver.c:101`), which
  does not open a session for the new one.
- `spoilt`: since the shutter opened a transaction failed, was answered busy (`bulbEnd` then
  clears `bulb_open`, `PTP.cpp:1989`), was swallowed by data left over from an answer
  (`PTP_Driver.c:168`) or met one of the interrupt: the commands of the remote control
  and of the screens have no guard like that of `checkEvent`.
- `kept`: `timerStop` during the exposure of a Sony camera leaves it switched off.
- `Bluetooth`, `eaten`: `checkOK` discarded a line about the connection; `dropped`: scan,
  cancel or sleep from the screen while a peer was examined; `skipped`: `waitEvent`
  forgot an event for a later one (the code's aim is "make sure no events are skipped by
  waitEvent()", `bluetooth.cpp:976`, and one event at a time is indeed kept).
- `Storage`, `junk`: a record was cut in two by a loss of power, or a timing test that failed
  left offsets nobody measured; `mixed`: a camera without a serial number took the place of
  another while the bus was off; `reset`: a factory reset with a camera connected.

**Bounds.**  Two slots let one call find the first slot taken and the next find none; the
violation runs use the firmware's three.  `TimeModulus` 6 or 8 stands for 2^16 and is small
enough that a slot skipped in its last millisecond wraps within the run.  `DurationModulus`
16 stands for 2^32; the durations with offset and sync wait come close to it, and one setting's
negative offset is as long as an exposure or longer, which wraps.
`MaxSkips` 2 is the longest chain of ticks that return early in a sane setting (start
followed by sync, or sync followed by end); both can arm a slot that is then charged for them.  `MaxLate` stops the model once a slot is a
whole turn late.  `PausePasses` 2 stands for 8 and `ErrorRetries` 1 for 40 passes; both
loops go round more than once.  Two failures let a recovery fail.  `PhotoModulus` 4 lets an
endless run wrap its counter.  `MaxChunks` 1 leaves data behind an answer; one camera per
maker is enough to exchange cameras of different protocol, and the number of exchanges is not
bounded.  `MaxItems` 2 with one item of the firmware's own leaves one place for the one value
a peer watches, so that a second watch of it, or one that outlived its connection, finds
no room.  `MaxLines` 2 lets a line about the connection wait before an answer, and
two events fall into one wait.  `MaxCameras` 2 for three cameras makes the last slot change
hands; `MaxStored` 3 stands for 4: the list to load from shows two of the three default programs, where
it shows all three in the firmware; a program deleted while the list keeps its selection is loaded too.  `camera_live` has one camera: replacing it by itself is the
case the driver can miss.

**Fairness.**  `ShutterPort`: weak fairness of the tick, a hardware timer that is never
disabled for good.  `Timer`: the main loop keeps calling `task`, and waits come to their
end, written as weak fairness of `GoodPass` (spelt out, as TLC cannot evaluate ENABLED of so
large an action quickly); the tick ends exposures; a camera that is gone is back some time
and finishes its photo, without which no run on USB could end.  Failures are finite, not
fair.  `CameraLink`: weak fairness of the main loop and of the tick; the driver's
time-outs end every transaction, so that an answer, an error at worst, always comes.
`Bluetooth` and `Storage` assert no liveness and have no fairness.  User actions, peers, cables and
power have none anywhere.

## 4. Proofs

`CallQueueProofs` proves, for every number of slots, width and set of requests, `QueueInv`:
`TypeOK`, `ArmedSlotHasFunction`, `SkipAccounting` and an account of what an interrupted call of
the main loop may find in its slot.  The last part makes it inductive: a slot
armed behind the main loop's back has been armed by an interrupt, hence with a delay longer than
any chain of skipped ticks (`DelayAssumption`, `RequestsAssumption`), and at most one tick comes
before the call ends, so that it cannot fire half written.  `SkipAccounting` says what the
counter of a slot is worth.  The loop of `Clock::count` charges every armed slot `1 + skips`
(`clock.cpp:150`), whether or not it was armed when the ticks were skipped: `left` is the true
time to go, `Owed` what the next loop will take, and `prior` how much of that is for ticks that
passed before the slot was armed.  A callback is early by `prior`, and that is the only
way a delay is shortened.  From `QueueInv` follow `CountersInRange`, `SkippedTicksAreCharged`,
`NeverCallsUnset`, `HalfWrittenSlotNeverFires` and `CallbacksFireWhenDue`.  Nothing promises that
a call is never lost: an interrupt that arms the slot the main loop has just found free loses its call.

`ShutterPortProofs` proves `BulbInv`, the invariant of the countdown: a pending exposure holds
the duration asked for; a running one has something left, and age plus what is left is
the length it is to have; an awaited sync holds the length it will set.  `BulbLength` alone is
not inductive: without the last part a sync could set any length.  The counter is unsigned and
its width a parameter (`DurationAssumption` only says that what is asked for fits it): an
exposure whose negative offset leaves nothing of it is counted modulo that width (`Turned`) and
lasts 49 days.  The code does not exclude the setting, and neither does the proof.
`ExposuresLastAsAsked` is `BulbLength` for every setting.

`ShutterLineProofs` proves the rest of the port from `PortInv`, for every setting, number of slots
and order of main-loop steps, ticks and lightning interrupts: what each deferred call will find,
what is still to be released, where the main loop is.  The shutter functions are operators from
device to device, so there is one lemma per function on what it does to the line and to the
pending releases.  From it follow `PortTypeCorrect`, `LightIsOff`, `PressesAreReleased` (an open
line without an exposure has its release pending, unless a request found no slot) and `StopCloses`.

`IntervalometerProofs` proves what the abstract intervalometer, and so whatever implements it,
guarantees for every width of the photo counter: `NeverTooMany` (a run under its own program
stays within its photos), `RunsEndComplete` (a run that ends by itself has them) and
`PhotosAreCountedSingly`.  The invariant adds to the limit that the photos asked for fit the
counter, without which the last photo could wrap to zero.

`TimerProofs` has two invariants: `PassInv` holds between the blocks of one pass of
`shutter::task`, `TimerInv` between passes.  A pass is a composition of operators, each with a
lemma that it keeps `PassInv`; the pass then has one of six outcomes (held by a pause, a check, a
start, a running pass that goes on, one that stops, one that completes), and each maps to a step or a stutter of the abstract intervalometer:
that is `TimerImplements`, which with `IntervalometerProofs` gives its theorems for `Timer`.  From
`TimerInv` follow `TimerTypeCorrect`, `RunsCountTheirPhotos`, `SetsAreComplete` and
`MethodsAreRestored`, for every set of programs, every number of retries and every width of the photo
counter.  `ProgramAssumption` says what programs there are; that an HDR set has fewer than 256
exposures, without which their counter could wrap, comes from the editor (`hdrExpsUp`, `shutter.cpp:1910`).

`CameraLinkProofs` proves `CameraInv`, for every set of cameras of every make and answers of every
length.  It has three parts: `LinkInv` relates driver, camera object and settings to the bus at any
time, `BusInv` says what holds while a transaction is on it, `LoopInv` what holds in a phase of
the main loop.  A transaction turns out in one of ten ways; `Sent` says what they have in common,
and every action that sends, the tick's included, rests on it.  From it follow
`CameraTypeCorrect`, `PollsNeverCollide` (a tick starts no transaction while the main loop polls,
opens or connects the camera; the commands of the screens and the remote control have no
such guard),
`FallsAreNoticed`, `SettingsFollowTheCamera` and `ShuttersAreKnown`.

`BluetoothProofs` proves `BtInv` for every set of peers, every table and queues of any length.
`NoGhostLink` and `NoOrphanLink` speak of which lines wait; what makes them inductive is the order
of the lines in the two queues: greetings and partings alternate, and the last word agrees with the
link (`Ordered`, `AirInv`).  Lemmas on appending and taking lines carry this through the
module, `checkOK` and every command, which compose to one relation (`Commanded`); `BT::task` is
another (`TaskRel`).  `Told` relates the driver's state to what the remote control was told:
a loss still to be delivered is not followed by a connection nobody was told of, a connection
announced still stands, and `eventBuf` and `tmp` are used only by `waitEvent`.  From `BtInv` follow
`BluetoothTypeCorrect`, `GhostsAreNoticed`, `PeersAreKnown`, `FlagsFollowTheDriver`,
`MotorsFollowTheController` and `WatchesAlwaysFit`.  The last is a pigeonhole argument
on the places of the table and rests on `ItemsAssumption`: the firmware's own items and the values
that can be watched fit the table (four items of `timelapseplus.cpp:252` and five values of
`remote.cpp`, of fifteen places).

That watches end with their connection (`WatchesFollow`) has an inductive invariant of its own,
`WatchInv`, proved relative to `BtInv` with one lemma per action.  The hazard is a packet of a new
peer that is read before the loss of the old one was handled, or before anybody was told of the
new one: its watch would belong to nobody, and nothing would end it.  `WatchInv` excludes it by
following a peer's greeting, a call and an answer, and its packets through both queues: a packet
after a parting comes after the answer that lets the peer send (`Bidden`), and a call is followed
by its answer (`Tied`); while a loss is still to be handled, no packet is to come without such an
answer, and the driver is not connected unless `waitEvent` is half through a greeting (`LossInv`,
`CalmInv`); packets, and data mode, are met only when the remote control has been told of the peer or is
about to be (`AwareInv`, `PacketInv`).  `WatchInvariant` is the proof of it, and
`WatchesFollowTheConnection` its result.  The case of a discarded line (`hist.eaten`) cannot be
left out of the property, though no run with two waiting lines needs it: when some thirty
lines may wait, answers left over from earlier commands let an examination end in `waitEvent` with
a connected driver and the loss in `eventBuf`; the notification enters data mode for the next
peer before that loss is handled, so that its greeting is skipped and its watch outlives it.

`StorageProofs` proves `StoreInv` for every number of slots and every set of serial
numbers, through handlers, losses of power between two records or within one, and other
versions.  What `SerialOnce`, `OwnRecord` and `Recovered` say is broken in the middle of most handlers,
so the invariant speaks of what is still to be done: for every step of `todo`, what is true when it is
reached.  `SlotInv` is about whose records there are: a record with a serial number is written
first of all and fits its slot (`CamWrites`, `Fits`); settings that become those in use are loaded
anew (`ConfSteps`, `Matched`); `Boots`, `Hop` and `InUse` say in which order a start and a change of
slot go.  `CleanInv`, as long as no record was torn and no test failed, is about what is in
them: a version that is in force tells the truth (`Versions`), and slots and programs are whole, or written
before, wherever the settings are written or loaded (`Wholes`).  There are two kinds of
steps.  One that does the head of a script keeps the invariant because what it says of the
rest is what it said before (`RestSlots`, `RestClean`); one that begins a script ends in one of the
forms `AtEnd`, `AtLoad`, `AtProgram`, `AtSave`, `AtHop`, `AtReset`, `AtMain`, `AtNew` and
`AtBoot`, each with a lemma that it implies the invariant.  From it follow
`StoreTypeCorrect`, `StoreSerialOnce`, `StoreOwnRecord`, `StoreTestedItself`, `StoreRecovered` and
the action property `StoreOthersKept`.  `StoredAssumption` asks for a slot and for the firmware's four
programs, or three: the list to load from can then show the default programs only, so that a
stale selection loads nothing that was never written; `SerialsAssumption` only keeps the serial numbers apart from the values that stand for none and for
meaningless bytes.

Only model-checked:
- the liveness properties (`BulbEnds`, `StopEndsUnpausedRun`, `RunCompletes`, `ResumeEndsPause`,
  `CameraComesUp`, `SwitchedOnAgain`): fairness is out of the prover's reach;
- the five disagreements, which are counterexamples of TLC.

Every invariant and every action property of the passing runs, and the refinement, is proved.

## 5. Not modelled

- The wall clock (`Ms`, `tare`, `eventMs`, the frame-rate guard) and sleep: the models let any
  time pass, which covers every value these return; that a torn read makes one wait too long or
  short is listed under `hazards`.
- Byte-wise stores of multi-byte variables; a save of settings during an exposure, while
  `conf.camera` holds the default camera's values.
- Exposure ramps, keyframes, the HDR bracket and the stop tables: arithmetic without control.
- Buttons, the menu stack, drawing, the light meter's sampling, infrared waveforms, register
  access, descriptors, the console and the self test.
- LUFA, vendored twice, most of the repository's lines: it is seen through the host events
  and the results of its pipe functions.

## 6. Plan

1. *Done:* the modules and proofs above; no invariant of a run is without its theorem.
2. `WallClock`: multi-byte reads against the tick, `tare`, the frame-rate guard.
3. `Buttons`, `MenuStack` (alerts, push, back), `LightMeter` (integration, `skipTask`).
4. Pure algorithms against reference definitions over bounded inputs: shutter, aperture and
   ISO tables with their steps, HDR bracket, keyframe interpolation, `calcBulbMax`.
