------------------------------- MODULE Timer -------------------------------
(***************************************************************************)
(* The intervalometer: shutter::task, begin and pause (shutter.cpp), and   *)
(* the menu functions that start, pause and stop it.                       *)
(*                                                                         *)
(* The main loop calls task() once per pass and menu, notification and     *)
(* Bluetooth handlers between two passes, so a pass is one step.  Within a *)
(* pass the run states are tested in a fixed order and one may fall        *)
(* through to the next; each block of task() is an operator from the timer *)
(* record to the timer record, and a pass is their composition.  `ret'     *)
(* is task()'s early return.  Only the millisecond interrupt, which ends   *)
(* exposures, and the USB host, which loses cameras, act in between.       *)
(***************************************************************************)
EXTENDS Integers

CONSTANTS
    Programs,           \* what shutter::current may hold
    PausePasses,        \* passes before a resume, 8 in the firmware
    ErrorRetries,       \* passes before the next reset, 40 in the firmware
    PhotoModulus,       \* 2^16 in the firmware
    MaxFailures         \* bound: USB failures in one behaviour

RunStates == {"DELAY", "BULB", "PHOTO", "GAP", "NEXT", "END", "ERROR",
              "EXTERNAL", "RELEASE"}
Methods == {"keyframe", "guided", "auto"}

\* kind is how an exposure is made: a bulb (or manual-mode) exposure whose start
\* is checked, or a capture that is not.
Program == [hdr : BOOLEAN, ramp : BOOLEAN, timelapse : BOOLEAN, external : BOOLEAN,
            photos : Nat, exps : Nat \ {0}, kind : {"bulb", "capture", "photo"},
            method : Methods, night : BOOLEAN, usb : BOOLEAN]

\* The menu (hdrExpsUp) keeps an HDR set within the width of the counter exps.
ASSUME ProgramAssumption ==
    /\ Programs \subseteq Program
    /\ \A p \in Programs : /\ p.photos < PhotoModulus /\ p.exps < 256
                           /\ p.ramp => p.kind = "bulb"
ASSUME PassesAssumption ==
    /\ PausePasses \in Nat \ {0} /\ ErrorRetries \in Nat \ {0}
    /\ PhotoModulus \in Nat \ {0} /\ MaxFailures \in Nat

VARIABLES
    prog,               \* shutter::current
    t,                  \* the variables of shutter::task
    cam,                \* external: the camera on USB and the PTP driver
    bulbRunning,        \* Clock::bulbRunning
    alert,              \* menu.waitingAlert()
    fails               \* bound on failures

vars == <<prog, t, cam, bulbRunning, alert, fails>>

\* A camera is there, PTP_Error is set, the camera still handles the last photo.
Camera == [ready : BOOLEAN, error : BOOLEAN, busy : BOOLEAN]

\* The last line is history: exposures of the photo being taken, exposures of
\* the last photo counted, the method when the run began, a run that ended by
\* itself, a pre-check that was passed, a camera lost during the run, a program
\* loaded into a stopped run that had not ended.
TimerState ==
    [running : BOOLEAN, enter : BOOLEAN, paused : BOOLEAN, pausing : Nat,
     preChecked : 0 .. 3, run_state : RunStates, old_state : RunStates \cup {"none"},
     exps : 0 .. 255, photos : 0 .. (PhotoModulus - 1), usingUSB : BOOLEAN,
     infinitePhotos : BOOLEAN,
     errorRetryCount : 0 .. (ErrorRetries + 1), method : Methods, switchBack : Methods,
     shots : Nat, lastShots : Nat, begun : Methods, completed : BOOLEAN,
     checked : BOOLEAN, lost : BOOLEAN, swapped : BOOLEAN]

TypeOK ==
    /\ prog \in Programs
    /\ t \in TimerState
    /\ t.pausing <= PausePasses + 1
    /\ cam \in Camera
    /\ bulbRunning \in BOOLEAN
    /\ alert \in BOOLEAN
    /\ fails \in 0 .. MaxFailures

Init ==
    /\ prog \in Programs
    /\ t = [running |-> FALSE, enter |-> FALSE, paused |-> FALSE, pausing |-> 0,
            preChecked |-> 0, run_state |-> "DELAY", old_state |-> "none",
            exps |-> 0, photos |-> 0, usingUSB |-> FALSE, infinitePhotos |-> FALSE,
            errorRetryCount |-> 0,
            method |-> prog.method, switchBack |-> "keyframe",
            shots |-> 0, lastShots |-> 0, begun |-> prog.method, completed |-> FALSE,
            checked |-> FALSE, lost |-> FALSE, swapped |-> FALSE]
    /\ cam = [ready |-> prog.usb, error |-> FALSE, busy |-> FALSE]
    /\ bulbRunning = FALSE
    /\ alert = FALSE
    /\ fails = 0

-----------------------------------------------------------------------------
(* What a pass meets.  waited: the wait of the state is over (delay, frame *)
(* rate, interval); still: the motors are; late: the ramp or the external  *)
(* trigger has run out; pin: the external trigger, "pulse" when it is      *)
(* released within the pass; usb: how a transfer turns out, "refused" by   *)
(* the camera or an "error" of the bus.                                    *)

\* A run that starts in this pass has just set its clock to zero.
Fresh == ~t.enter \/ t.preChecked > 0

\* The pass may look at the external trigger.
Triggered == prog.external \/ t.run_state \in {"EXTERNAL", "RELEASE"}

\* Inputs that a pass cannot read are left at one value.
If(condition, values) == IF condition THEN values ELSE {}
Met == [waited : {FALSE} \cup If(~Fresh, {TRUE}),
        still : {TRUE} \cup If(t.run_state \in {"NEXT", "GAP"}, {FALSE}),
        late : {FALSE} \cup If(prog.ramp \/ Triggered, {TRUE}),
        alert : {FALSE} \cup If(~t.enter, {TRUE}),
        pin : {"low"} \cup If(Triggered, {"high", "pulse"}),
        usb : {"ok"} \cup If(/\ prog.usb /\ fails < MaxFailures
                             /\ t.run_state \notin {"NEXT", "GAP", "EXTERNAL", "RELEASE"},
                             {"refused", "error"})]

\* The whole state a pass works on.
Pass == [t |-> t, cam |-> cam, bulb |-> bulbRunning, alert |-> alert, ret |-> FALSE]

Goto(s, state) == [s EXCEPT !.t.run_state = state]
Return(s) == [s EXCEPT !.ret = TRUE]
At(s, state) == ~s.ret /\ s.t.run_state = state
Enter(s) == [s EXCEPT !.t.old_state = s.t.run_state]

Unlimited == IF prog.ramp THEN prog.external ELSE prog.photos = 0

\* An exposure that fails leaves no photo; a bus error sets PTP_Error.
Outcome(s, in) ==
    IF ~prog.usb THEN "ok"
    ELSE IF ~s.cam.ready THEN "nothing"
    ELSE IF s.cam.error THEN "error"
    ELSE in.usb

Expose(s, in) ==
    [s EXCEPT !.t.shots = @ + (IF Outcome(s, in) = "ok" THEN 1 ELSE 0),
              !.cam.busy = @ \/ s.cam.ready,
              !.cam.error = @ \/ Outcome(s, in) = "error"]

-----------------------------------------------------------------------------
(* The blocks of task(), in its order.                                     *)

\* The pre-check: alerts, then the ramp's target, then the start.
Setup(s, in, cancel) ==
    LET p == s.t.preChecked
        asks == s.alert \/ (p = 0 /\ in.alert)
        first == [s EXCEPT !.alert = asks,
                    !.t = [s.t EXCEPT !.enter = TRUE, !.paused = FALSE, !.pausing = 0,
                             !.usingUSB = s.cam.ready,
                             !.preChecked = IF p = 0 THEN 1 ELSE p,
                             !.begun = IF p = 0 THEN s.t.method ELSE s.t.begun,
                             !.checked = p > 0 /\ s.t.checked,
                             !.completed = FALSE]]
        loads == first.t.preChecked = 1
        targets == prog.ramp /\ prog.night /\ s.t.method = "auto"
        loaded == IF loads
                  THEN [first EXCEPT !.t = [first.t EXCEPT
                            !.switchBack = s.t.method, !.checked = TRUE,
                            !.preChecked = IF targets THEN 2 ELSE 3]]
                  ELSE first
    IN  IF cancel \/ (s.t.enter /\ p = 0) THEN s
        ELSE IF asks THEN Return(first)
        ELSE IF loaded.t.preChecked < 3 THEN Return(loaded)
        ELSE [loaded EXCEPT !.bulb = FALSE,
                            !.t = [loaded.t EXCEPT
                                !.preChecked = 0, !.run_state = "DELAY",
                                !.photos = 0, !.exps = 0, !.infinitePhotos = Unlimited,
                                !.shots = 0, !.lastShots = 0,
                                !.lost = prog.usb /\ ~s.cam.ready, !.swapped = FALSE]]

\* A resume waits PausePasses passes; a pause takes effect outside a bulb, and
\* the pass goes on.
Pausing(s) ==
    LET resumed == IF s.t.pausing = 0 \/ ~s.t.paused THEN s
                   ELSE IF s.t.pausing > PausePasses
                   THEN [s EXCEPT !.t.paused = FALSE, !.t.pausing = 0]
                   ELSE [s EXCEPT !.t.pausing = @ + 1]
    IN  IF s.ret THEN s
        ELSE IF resumed.t.paused THEN Return(resumed)
        ELSE IF resumed.t.pausing > 0 /\ resumed.t.run_state # "BULB"
        THEN [resumed EXCEPT !.t.pausing = 0, !.t.paused = TRUE]
        ELSE resumed

Cancel(s, cancel) == IF ~s.ret /\ cancel THEN Goto(s, "END") ELSE s

Delay(s, in) ==
    IF ~At(s, "DELAY") THEN s
    ELSE IF in.waited THEN [Goto(Enter(s), "PHOTO") EXCEPT !.bulb = FALSE]
    ELSE IF prog.external THEN Goto(Enter(s), "EXTERNAL")
    ELSE Enter(s)

\* The first photo need not wait for the frame rate.
Photo(s, in) ==
    IF ~At(s, "PHOTO") \/ ~(in.waited \/ s.t.exps + s.t.photos = 0) THEN s
    ELSE IF prog.kind # "photo" THEN Goto(Enter(s), "BULB")
    ELSE Goto([Expose(Enter(s), in) EXCEPT !.t.exps = @ + 1], "NEXT")

\* A parameter the camera does not take ends here too, without old_state = 0.
\* old_state = 0 makes the next pass start the exposure again.
TryAgain(s) ==
    LET again == [s EXCEPT !.t.old_state = "DELAY", !.bulb = FALSE]
    IN  Return(IF s.cam.error THEN Goto(again, "ERROR") ELSE again)

\* A capture within BULB is not checked; clock.bulb runs until its tick.
BulbStart(s, in) ==
    LET started == Expose(Enter(s), in)
    IN  IF prog.kind = "bulb" /\ Outcome(s, in) \in {"refused", "error"} THEN TryAgain(started)
        ELSE IF prog.kind = "bulb" THEN [started EXCEPT !.bulb = TRUE]
        ELSE started

Bulb(s, in) ==
    IF ~At(s, "BULB") THEN s
    ELSE IF s.t.old_state # "BULB" THEN BulbStart(s, in)
    ELSE IF s.bulb THEN s
    ELSE Return(Goto([s EXCEPT !.t.exps = @ + 1], "NEXT"))

\* Fault for mutation: the set is over one exposure early.
FaultySetComplete(s) == ~prog.hdr \/ s.t.exps + 1 >= prog.exps
SetComplete(s) == ~prog.hdr \/ s.t.exps >= prog.exps

\* Fault for mutation: one photo too many.
FaultyEnough(photos) == photos > prog.photos \/ (~prog.timelapse /\ photos >= 1)
Enough(photos) == photos >= prog.photos \/ (~prog.timelapse /\ photos >= 1)

NextState(s, in) ==
    LET counted == Goto([s EXCEPT !.t.exps = 0, !.t.shots = 0, !.t.lastShots = s.t.shots,
                                  !.t.photos = (@ + 1) % PhotoModulus], "GAP")
        next == IF SetComplete(s) THEN counted
                ELSE IF ~s.cam.busy THEN Goto(s, "PHOTO")
                ELSE s
    IN  IF s.t.infinitePhotos THEN next
        ELSE IF (IF prog.ramp THEN in.late ELSE Enough(next.t.photos)) THEN Goto(next, "END")
        ELSE next

\* Fault for mutation: a run on a cable is taken for one that lost its camera.
FaultyCameraLost(s) == s.cam.error \/ ~s.cam.ready
CameraLost(s) == s.cam.error \/ (s.t.usingUSB /\ ~s.cam.ready)

NextPhoto(s, in) ==
    IF ~At(s, "NEXT") THEN s
    ELSE IF CameraLost(s) THEN Return(Goto(Enter(s), "ERROR"))
    ELSE NextState(Enter(s), in)

\* A focus move holds the gap up like the motors do.
Gap(s, in) ==
    IF ~At(s, "GAP") THEN s
    ELSE IF ~in.still THEN Enter(s)
    ELSE IF prog.external THEN Goto(Enter(s), "EXTERNAL")
    ELSE IF in.waited THEN Goto(Enter(s), "PHOTO")
    ELSE Enter(s)

\* Fault for mutation: the trigger is given up after the first photo.
FaultyTimedOut(s, in) == s.t.photos > 1 /\ in.late
TimedOut(s, in) == s.t.photos > 2 /\ in.late

External(s, in) ==
    IF ~At(s, "EXTERNAL") THEN s
    ELSE IF in.pin # "low" THEN Goto(s, "RELEASE")
    ELSE IF TimedOut(s, in) THEN Goto(s, "END")
    ELSE s

Release(s, in) ==
    IF ~At(s, "RELEASE") THEN s
    ELSE IF in.pin # "high" THEN Goto(s, "PHOTO")
    ELSE IF TimedOut(s, in) THEN Goto(s, "END")
    ELSE s

\* Fault for mutation: the connection is reset once.
FaultyResets(s) == s.t.old_state # "ERROR"
Resets(s) == s.t.old_state # "ERROR" \/ s.t.errorRetryCount > ErrorRetries

\* Reset the USB connection, and again every ErrorRetries passes.
Error(s, in) ==
    LET ready == IF Resets(s) THEN prog.usb /\ in.usb = "ok" ELSE s.cam.ready
        count == IF Resets(s) THEN 1 ELSE s.t.errorRetryCount + 1
        camera == IF Resets(s) THEN [ready |-> ready, error |-> FALSE, busy |-> FALSE]
                  ELSE s.cam
        tried == [Enter(s) EXCEPT !.cam = camera,
                                  !.t.errorRetryCount = IF ready THEN 0 ELSE count]
    IN  IF ~At(s, "ERROR") THEN s
        ELSE Return(IF ready THEN Goto(tried, "NEXT") ELSE tried)

\* Fault for mutation: a method chosen during the run stays.
FaultyMethodAfter(s) == s.t.method
MethodAfter(s) == s.t.switchBack

\* Fault for mutation: the next begin() finds the old run.
FaultyLeave(timer) == [timer EXCEPT !.pausing = 0, !.paused = FALSE, !.running = FALSE,
                                    !.preChecked = 0]
Leave(timer) == [timer EXCEPT !.pausing = 0, !.paused = FALSE, !.running = FALSE,
                              !.preChecked = 0, !.enter = FALSE]

\* The clock is not told: an exposure it is timing goes on.
End(s, cancel) ==
    IF ~At(s, "END") THEN s
    ELSE [Enter(s) EXCEPT !.t = [Leave(Enter(s).t) EXCEPT !.method = MethodAfter(s),
                                                          !.completed = ~cancel],
                          !.ret = TRUE]

\* shutter::task
After(in) ==
    LET cancel == ~t.running
        set == Cancel(Pausing(Setup(Pass, in, cancel)), cancel)
        shot == Bulb(Photo(Delay(set, in), in), in)
        waits == Release(External(Gap(NextPhoto(shot, in), in), in), in)
    IN  End(Error(waits, in), cancel)

Task(in) ==
    LET s == After(in)
    IN  /\ t.running \/ t.enter
        /\ t' = s.t
        /\ cam' = s.cam
        /\ bulbRunning' = s.bulb
        /\ alert' = s.alert
        /\ fails' = IF in.usb = "ok" THEN fails ELSE fails + 1
        /\ UNCHANGED prog

-----------------------------------------------------------------------------
(* Between two passes: the user, the interrupt, the USB host.              *)

Environment == UNCHANGED <<prog, bulbRunning, alert, fails>>
Set(timer) == t' = timer /\ UNCHANGED cam /\ Environment

\* shutter::begin, from the menu or a Bluetooth remote, at any time.
Begin == Set([t EXCEPT !.running = TRUE, !.paused = FALSE, !.pausing = 0])

\* timerStop
Stop == t.running /\ Set([t EXCEPT !.running = FALSE])

\* Fault for mutation: each press of the key starts the countdown again.
FaultyResume(timer) == [timer EXCEPT !.pausing = 1, !.paused = TRUE]
Resume(timer) ==
    IF timer.pausing > 1 THEN timer ELSE [timer EXCEPT !.pausing = 1, !.paused = TRUE]

\* textStatus is still "Delay": before the first photo.
Waiting ==
    \/ t.run_state = "DELAY"
    \/ t.run_state \in {"EXTERNAL", "RELEASE", "PHOTO"} /\ t.exps + t.photos = 0

\* The right key of bramp_monitor: pause(0) when paused, else pause(1).  Only a
\* ramp has this screen.
PauseKey ==
    /\ prog.ramp /\ t.running /\ t.enter /\ t.preChecked = 0
    /\ ~Waiting
    /\ Set(IF t.paused THEN Resume(t) ELSE [t EXCEPT !.pausing = 1])

\* The user takes an alert away, if no other screen has taken its place.
Dismiss ==
    /\ alert /\ t.preChecked < 3
    /\ alert' = FALSE
    /\ UNCHANGED <<prog, t, cam, bulbRunning, fails>>

\* bramp_monitor, the screen of a ramp: the user confirms the target.  It takes whatever
\* else the pre-check waits for as confirmed: a target of a program that is not
\* automatic any more, an alert whose screen a camera's calibration has replaced.
ConfirmTarget ==
    /\ prog.ramp
    /\ t.preChecked = 2 \/ (t.preChecked = 1 /\ alert)
    /\ Set([t EXCEPT !.preChecked = 3])

\* switchToGuided and switchToAuto, from the menu or (guided) the ramp itself.
SwitchMethod(method) ==
    /\ t.running /\ t.enter /\ t.preChecked = 0 /\ prog.ramp
    /\ method \in {"guided", "auto"} \ {t.method}
    /\ Set([t EXCEPT !.method = method])

\* The program in use is replaced, with the ramp method and the infinitePhotos it was
\* stored with; a start computes infinitePhotos afresh.
Replace(program, infinite) ==
    /\ program.usb = prog.usb
    /\ prog' = program
    /\ t' = [t EXCEPT !.method = program.method, !.begun = program.method,
                      !.infinitePhotos = infinite /\ t.enter,
                      !.completed = FALSE, !.checked = FALSE, !.swapped = t.enter]
    /\ UNCHANGED <<cam, bulbRunning, alert, fails>>

\* Another program is loaded, which the menu offers while ~running, whether or
\* not task() has ended the run.
Load(program, infinite) == ~t.running /\ Replace(program, infinite)

\* A paired unit sends its program (REMOTE_PROGRAM, REMOTE_TYPE_SET), at any time.
RemoteProgram(program, infinite) == Replace(program, infinite)

\* The tick that closes the shutter.
BulbEnds ==
    /\ bulbRunning
    /\ bulbRunning' = FALSE
    /\ UNCHANGED <<prog, t, cam, alert, fails>>

\* External: a poll of the camera fails, or it goes away (camera.close), or it
\* is there again (camera.init); it finishes the photo it was busy with.
CameraFails(lost) ==
    /\ cam.ready
    /\ lost \/ ~cam.error
    /\ lost /\ ~cam.error => fails < MaxFailures
    /\ ~lost => fails < MaxFailures
    /\ cam' = IF lost THEN [cam EXCEPT !.ready = FALSE, !.busy = FALSE]
              ELSE [cam EXCEPT !.error = TRUE]
    /\ t' = IF lost THEN [t EXCEPT !.lost = TRUE] ELSE t
    /\ fails' = IF cam.error THEN fails ELSE fails + 1
    /\ UNCHANGED <<prog, bulbRunning, alert>>

CameraReturns ==
    /\ prog.usb /\ ~cam.ready
    /\ cam' = [cam EXCEPT !.ready = TRUE, !.error = FALSE]
    /\ UNCHANGED t
    /\ Environment

CameraIdle ==
    /\ cam.busy
    /\ cam' = [cam EXCEPT !.busy = FALSE]
    /\ UNCHANGED t
    /\ Environment

User ==
    \/ Begin
    \/ Stop
    \/ PauseKey
    \/ Dismiss
    \/ ConfirmTarget
    \/ \E method \in Methods : SwitchMethod(method)
    \/ \E program \in Programs, infinite \in BOOLEAN :
           Load(program, infinite) \/ RemoteProgram(program, infinite)

Next ==
    \/ \E in \in Met : Task(in)
    \/ User
    \/ BulbEnds
    \/ \E lost \in BOOLEAN : CameraFails(lost)
    \/ CameraReturns
    \/ CameraIdle

\* A pass that finds its wait over, the motors still and the camera willing.
Good == [waited : {~Fresh}, still : {TRUE}, late : {prog.ramp}, alert : {FALSE},
         pin : {"low"} \cup If(Triggered, {"high", "pulse"}), usb : {"ok"}]
GoodPass == \E in \in Good : Task(in)

\* Such a pass would change something: ENABLED <<GoodPass>>_vars, written out.
GoodPassMatters ==
    /\ t.running \/ t.enter
    /\ \E in \in Good : [After(in) EXCEPT !.ret = FALSE] # Pass

\* The main loop keeps calling task() and waits end (weak fairness of GoodPass);
\* exposures end; a camera answers again in the end.
Fairness ==
    /\ []<>(~GoodPassMatters) \/ []<><<GoodPass>>_vars
    /\ WF_vars(BulbEnds)
    /\ WF_vars(CameraReturns)
    /\ WF_vars(CameraIdle)

Spec == Init /\ [][Next]_vars /\ Fairness

-----------------------------------------------------------------------------
(* Properties.                                                             *)

Finite == ~prog.ramp /\ prog.photos > 0
Target == IF prog.timelapse THEN prog.photos ELSE 1

\* A run on an external trigger that stays away may end after three photos.
Least == IF ~Finite THEN 0 ELSE IF prog.external /\ Target > 3 THEN 3 ELSE Target

\* A run that ends by itself has counted exactly the photos asked for (or at
\* least three, if its trigger stayed away), and none ever counts more, whatever
\* was refused, lost, stopped and begun again (with the same program).
CountsItsPhotos ==
    Finite /\ ~t.swapped =>
              /\ t.enter /\ t.preChecked = 0 => t.photos < Target
              /\ t.completed => t.photos \in Least .. Target

\* Every photo of an HDR run of bulb exposures has its full set of exposures:
\* an exposure the camera refused or the bus lost was made again, unless the
\* camera went away between two passes.
HdrSetComplete ==
    /\ prog.hdr /\ prog.kind = "bulb" /\ t.enter /\ t.preChecked = 0 /\ t.photos > 0
    /\ ~t.lost /\ ~t.swapped
    => t.lastShots = prog.exps

\* "USB Error - trying again", "try it again" (shutter.cpp, RUN_BULB).  The same
\* for a plain time-lapse of bulb exposures.
PhotoWasExposed ==
    ~prog.hdr /\ prog.kind = "bulb" /\ t.enter /\ t.preChecked = 0 /\ t.photos > 0 /\ ~t.lost
      => t.lastShots = 1

\* A run gives the program back the ramp method it began with, whatever method
\* was chosen on the way, unless it was stopped before its pre-check was over or
\* another program was loaded into it.
MethodRestored == ~t.enter /\ t.checked => t.method = t.begun

\* timerStop: "Stops intervalometer if currently running".  A stopped run ends
\* (unless it is started again).
StopEndsRun == t.enter /\ ~t.running ~> ~t.enter \/ t.running

\* The same for a run that is not paused.
StopEndsUnpausedRun == t.enter /\ ~t.running /\ ~t.paused ~> ~t.enter \/ t.running

\* A run that has its number of photos and waits for no trigger.
Bounded ==
    /\ Finite /\ ~prog.external /\ ~t.infinitePhotos
    /\ t.run_state \notin {"EXTERNAL", "RELEASE"}

\* A finite run comes to its end, or waits for the user (paused, too), through any finite number
\* of USB failures, however often a paired unit replaces its program by another
\* finite one, even one of fewer photos than the run has taken.
RunCompletes ==
    t.enter /\ t.running /\ Bounded
      ~> ~t.enter \/ t.preChecked > 0 \/ t.paused \/ ~Bounded

\* Resuming ends the pause however often the key is pressed.
ResumeEndsPause == t.paused /\ t.pausing > 0 ~> ~t.paused

\* The intervalometer as its user sees it: shutter::task and everything that happens
\* between its passes implements Intervalometer.
Promise == INSTANCE Intervalometer WITH
    Modulus <- PhotoModulus,
    mode <- IF ~t.enter THEN "off" ELSE IF t.preChecked > 0 THEN "checking" ELSE "running",
    wanted <- t.running,
    held <- t.paused,
    count <- t.photos,
    most <- IF Finite THEN Target ELSE 0,
    least <- Least,
    same <- ~t.swapped

\* Photos are counted one at a time, never while the user has stopped or paused the
\* run and never more than the program asks for; a run ends by itself with the
\* photos its program asks for, and the count starts over only with a new run.
ImplementsIntervalometer == Promise!Spec
=============================================================================
