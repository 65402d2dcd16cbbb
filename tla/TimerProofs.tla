---------------------------- MODULE TimerProofs ----------------------------
(***************************************************************************)
(* Proofs about Timer: its counters, HDR sets and ramp method, and that it *)
(* implements Intervalometer, for every set of programs and every number   *)
(* of passes.  A pass is a composition of blocks, so the proof is one too: *)
(* PassInv holds between two blocks of task(), TimerInv between two        *)
(* passes, and each block has a lemma that says what it may change.        *)
(***************************************************************************)
EXTENDS Timer, TLAPS

\* What a pass works on, between two blocks.
PassState == [t : TimerState, cam : Camera, bulb : BOOLEAN, alert : BOOLEAN, ret : BOOLEAN]

\* No photo is in the making.
Between == {"NEXT", "ERROR", "END"}
\* The photos of a run: below the target until it ends.
CountInv(x) ==
    /\ x.infinitePhotos = Unlimited
    /\ x.run_state \in {"EXTERNAL", "RELEASE"} => prog.external
    /\ Finite /\ x.run_state # "END" => x.photos < Target
    /\ Finite /\ x.run_state = "END" => x.photos \in Least .. Target
\* Exposures of the photo in the making: exps lags behind an open bulb.
Exposed(x) == IF x.run_state = "BULB" /\ x.old_state = "BULB" THEN x.exps + 1 ELSE x.exps
\* The exposures of an HDR set are the ones made, and the last set was complete.
HdrInv(x, c) ==
    prog.hdr /\ prog.kind = "bulb" /\ ~x.lost =>
      /\ prog.usb /\ x.run_state \notin {"ERROR", "END"} => c.ready
      /\ x.shots = Exposed(x)
      /\ x.exps <= prog.exps
      /\ x.run_state \notin Between => x.exps < prog.exps
      /\ x.photos > 0 => x.lastShots = prog.exps
\* The promises about the length of a run end when its program is replaced.
RunInv(x, c) ==
    /\ x.run_state \notin Between => x.exps < 255
    /\ ~x.swapped => CountInv(x) /\ HdrInv(x, c)

\* What holds between two blocks of a running pass.
PassInv(s) ==
    /\ s \in PassState
    /\ RunInv(s.t, s.cam)
    /\ s.t.run_state = "END" => ~s.ret

\* What the blocks of a running pass leave alone.
Steady(x, y) ==
    /\ y.running = x.running /\ y.enter = x.enter /\ y.paused = x.paused
    /\ y.pausing = x.pausing /\ y.preChecked = x.preChecked /\ y.usingUSB = x.usingUSB
    /\ y.infinitePhotos = x.infinitePhotos /\ y.method = x.method
    /\ y.switchBack = x.switchBack /\ y.begun = x.begun /\ y.completed = x.completed
    /\ y.checked = x.checked /\ y.lost = x.lost /\ y.swapped = x.swapped

\* The counters are left alone.
SameCounts(x, y) ==
    /\ y.exps = x.exps /\ y.photos = x.photos
    /\ y.shots = x.shots /\ y.lastShots = x.lastShots

\* Only the run state, the old state and the return have changed.
Moves(s, e) ==
    /\ e \in PassState
    /\ Steady(s.t, e.t) /\ SameCounts(s.t, e.t)
    /\ e.alert = s.alert /\ e.cam = s.cam

\* e is s after a block of task() that leaves the run's settings alone.
Works(s, e) == PassInv(e) /\ Steady(s.t, e.t) /\ e.alert = s.alert

-----------------------------------------------------------------------------

\* What the program in use is.
LEMMA ProgramFacts ==
    ASSUME prog \in Programs
    PROVE  /\ prog \in Program /\ prog.exps \in 1 .. 255
           /\ prog.photos \in 0 .. (PhotoModulus - 1)
           /\ Finite => Target \in 1 .. (PhotoModulus - 1)
           /\ Finite => Least \in 1 .. Target
<1>1. prog \in Program /\ prog.photos < PhotoModulus /\ prog.exps < 256
  BY ProgramAssumption
<1> QED
  BY <1>1, PassesAssumption DEF Program, Finite, Target, Least

\* The three ways a block moves.
LEMMA MoveFields ==
    ASSUME NEW s \in PassState, NEW st \in RunStates
    PROVE  /\ Moves(s, Goto(s, st)) /\ Goto(s, st).t.run_state = st
           /\ Goto(s, st).t.old_state = s.t.old_state /\ Goto(s, st).ret = s.ret
           /\ Moves(s, Enter(s)) /\ Enter(s).t.run_state = s.t.run_state
           /\ Enter(s).t.old_state = s.t.run_state /\ Enter(s).ret = s.ret
           /\ Moves(s, Return(s)) /\ Return(s).t = s.t /\ Return(s).ret
           /\ Enter(s).cam = s.cam /\ Enter(s).bulb = s.bulb
<1>1. /\ Moves(s, Goto(s, st)) /\ Goto(s, st).t.run_state = st
      /\ Goto(s, st).t.old_state = s.t.old_state /\ Goto(s, st).ret = s.ret
  BY DEF Moves, PassState, TimerState, Goto, Steady, SameCounts
<1>2. /\ Moves(s, Enter(s)) /\ Enter(s).t.run_state = s.t.run_state
      /\ Enter(s).t.old_state = s.t.run_state /\ Enter(s).ret = s.ret
      /\ Enter(s).bulb = s.bulb
  BY DEF Moves, PassState, TimerState, Enter, Steady, SameCounts
<1>3. Moves(s, Return(s)) /\ Return(s).t = s.t /\ Return(s).ret
  BY DEF Moves, PassState, Return, Steady, SameCounts
<1> QED
  BY <1>1, <1>2, <1>3 DEF Moves

\* Two moves are one.
LEMMA MovesTwice ==
    ASSUME NEW s, NEW e, NEW f, Moves(s, e), Moves(e, f)
    PROVE  Moves(s, f)
  BY DEF Moves, Steady, SameCounts

\* Entering a state and going on to another one.
LEMMA EnterGoto ==
    ASSUME NEW s \in PassState, NEW st \in RunStates
    PROVE  LET e == Goto(Enter(s), st)
           IN  /\ Moves(s, e) /\ e.t.run_state = st
               /\ e.t.old_state = s.t.run_state /\ e.ret = s.ret
<1> DEFINE u == Enter(s)
<1>1. /\ Moves(s, u) /\ u.t.run_state = s.t.run_state
      /\ u.t.old_state = s.t.run_state /\ u.ret = s.ret /\ u \in PassState
  BY MoveFields DEF Moves
<1> HIDE DEF u
<1>2. /\ Moves(u, Goto(u, st)) /\ Goto(u, st).t.run_state = st
      /\ Goto(u, st).t.old_state = u.t.old_state /\ Goto(u, st).ret = u.ret
  BY <1>1, MoveFields
<1>3. Moves(s, Goto(u, st))
  BY <1>1, <1>2, MovesTwice
<1> QED
  BY <1>1, <1>2, <1>3 DEF u

\* A block that is not its turn.
LEMMA Idles ==
    ASSUME NEW s, PassInv(s)
    PROVE  Works(s, s)
  BY DEF Works, Steady

\* Going on to a state that waits for something, nothing counted.
LEMMA MoveWorks ==
    ASSUME prog \in Programs, NEW s, PassInv(s), NEW e, Moves(s, e),
           s.t.run_state \notin Between \cup {"BULB"}, e.t.run_state \notin Between,
           ~(e.t.run_state = "BULB" /\ e.t.old_state = "BULB"),
           e.t.run_state \in {"EXTERNAL", "RELEASE"}
             => prog.external \/ s.t.run_state \in {"EXTERNAL", "RELEASE"}
    PROVE  Works(s, e)
<1>1. s.t.exps < 255 /\ e.t.exps < 255
  BY DEF PassInv, RunInv, SameCounts, Moves
<1>2. CountInv(s.t) => CountInv(e.t)
  BY DEF CountInv, SameCounts, Steady, Between, Moves
<1>3. HdrInv(s.t, s.cam) => HdrInv(e.t, e.cam)
  BY DEF HdrInv, SameCounts, Steady, Between, Exposed, Moves
<1> QED
  BY <1>1, <1>2, <1>3 DEF Works, PassInv, RunInv, Steady, Moves, Between

\* RUN_DELAY.
LEMMA DelayWorks ==
    ASSUME prog \in Programs, NEW s, PassInv(s), NEW in
    PROVE  Works(s, Delay(s, in)) /\ Delay(s, in).t.photos = s.t.photos
<1> DEFINE g == Goto(Enter(s), "PHOTO")
           a == [g EXCEPT !.bulb = FALSE]
           b == Goto(Enter(s), "EXTERNAL")
           c == Enter(s)
<1>1. CASE ~At(s, "DELAY")
  BY <1>1, Idles DEF Delay
<1>2. CASE At(s, "DELAY")
  <2>0. s \in PassState /\ "PHOTO" \in RunStates /\ "EXTERNAL" \in RunStates
    BY DEF PassInv, RunStates
  <2>1. /\ Moves(s, g) /\ g.t.run_state = "PHOTO" /\ g.t.old_state = s.t.run_state
        /\ Moves(s, b) /\ b.t.run_state = "EXTERNAL" /\ b.t.old_state = s.t.run_state
    BY <2>0, EnterGoto
  <2>2. Moves(s, c) /\ c.t.run_state = s.t.run_state /\ c.t.old_state = s.t.run_state
    BY <2>0, MoveFields
  <2>3. Delay(s, in) = IF in.waited THEN a ELSE IF prog.external THEN b ELSE c
    BY <1>2 DEF Delay
  <2> HIDE DEF b, c, g
  <2>4. Moves(s, a) /\ a.t = g.t
    BY <2>1 DEF Moves, PassState
  <2> HIDE DEF a
  <2>5. s.t.run_state = "DELAY"
    BY <1>2 DEF At
  <2>6. Works(s, a) /\ Works(s, c) /\ (prog.external => Works(s, b))
    BY <2>1, <2>2, <2>4, <2>5, MoveWorks DEF Between
  <2> QED
    BY <2>1, <2>2, <2>3, <2>4, <2>6 DEF SameCounts, Moves
<1> QED
  BY <1>1, <1>2

\* How an exposure turns out, and what it leaves alone.
LEMMA ExposeFields ==
    ASSUME NEW s \in PassState, NEW in
    PROVE  LET e == Expose(s, in)
           IN  /\ e \in PassState /\ Steady(s.t, e.t) /\ e.alert = s.alert /\ e.ret = s.ret
               /\ e.t.exps = s.t.exps /\ e.t.photos = s.t.photos
               /\ e.t.lastShots = s.t.lastShots /\ e.t.run_state = s.t.run_state
               /\ e.t.old_state = s.t.old_state /\ e.cam.ready = s.cam.ready
               /\ e.t.shots = s.t.shots + (IF Outcome(s, in) = "ok" THEN 1 ELSE 0)
<1> DEFINE o == IF Outcome(s, in) = "ok" THEN 1 ELSE 0
           y == [s.t EXCEPT !.shots = s.t.shots + o]
           b == s.cam.busy \/ s.cam.ready
           r == s.cam.error \/ Outcome(s, in) = "error"
           c == [s.cam EXCEPT !.busy = b, !.error = r]
           e == Expose(s, in)
<1>1. b \in BOOLEAN /\ r \in BOOLEAN
  BY Zenon
<1>2. s.t \in TimerState /\ s.cam \in Camera
  BY DEF PassState
<1>3. o \in {0, 1}
  OBVIOUS
<1>4. e = [s EXCEPT !.t = y, !.cam = c]
  BY <1>2 DEF Expose, PassState, Camera
<1> HIDE DEF b, r, o
<1>5. /\ y \in TimerState /\ Steady(s.t, y) /\ y.exps = s.t.exps /\ y.photos = s.t.photos
      /\ y.lastShots = s.t.lastShots /\ y.run_state = s.t.run_state
      /\ y.old_state = s.t.old_state /\ y.shots = s.t.shots + o
  BY <1>2, <1>3 DEF TimerState, Steady
<1>6. c \in Camera /\ c.ready = s.cam.ready
  BY <1>1, <1>2 DEF Camera
<1> HIDE DEF y, c, e
<1>7. e \in PassState /\ e.t = y /\ e.cam = c /\ e.alert = s.alert /\ e.ret = s.ret
  BY <1>4, <1>5, <1>6 DEF PassState
<1> QED
  BY <1>5, <1>6, <1>7 DEF e, o

\* One exposure counted.
LEMMA CountExposure ==
    ASSUME NEW s \in PassState, s.t.exps < 255, NEW e, e = [s EXCEPT !.t.exps = @ + 1]
    PROVE  /\ e \in PassState /\ Steady(s.t, e.t) /\ e.alert = s.alert /\ e.ret = s.ret
           /\ e.cam = s.cam /\ e.t.exps = s.t.exps + 1 /\ e.t.photos = s.t.photos
           /\ e.t.lastShots = s.t.lastShots /\ e.t.run_state = s.t.run_state
           /\ e.t.old_state = s.t.old_state /\ e.t.shots = s.t.shots
<1> DEFINE n == s.t.exps + 1
           y == [s.t EXCEPT !.exps = n]
<1>1. s.t \in TimerState
  BY DEF PassState
<1>2. n \in 0 .. 255
  BY <1>1 DEF TimerState
<1>3. e = [s EXCEPT !.t = y]
  OBVIOUS
<1> HIDE DEF n
<1>4. /\ y \in TimerState /\ Steady(s.t, y) /\ y.exps = n /\ y.photos = s.t.photos
      /\ y.lastShots = s.t.lastShots /\ y.run_state = s.t.run_state
      /\ y.old_state = s.t.old_state /\ y.shots = s.t.shots
  BY <1>1, <1>2 DEF TimerState, Steady
<1> HIDE DEF y
<1>5. /\ e \in PassState /\ e.t = y /\ e.cam = s.cam /\ e.alert = s.alert /\ e.ret = s.ret
  BY <1>3, <1>4 DEF PassState
<1> QED
  BY <1>4, <1>5 DEF n

\* RUN_PHOTO: a plain photo counts its exposure, anything else goes on to RUN_BULB.
LEMMA PhotoWorks ==
    ASSUME prog \in Programs, NEW s, PassInv(s), NEW in
    PROVE  Works(s, Photo(s, in)) /\ Photo(s, in).t.photos = s.t.photos
<1>0. s \in PassState /\ "BULB" \in RunStates /\ "NEXT" \in RunStates
  BY DEF PassInv, RunStates
<1>1. CASE Photo(s, in) = s
  BY <1>1, Idles
<1>2. CASE Photo(s, in) # s /\ prog.kind # "photo"
  <2> DEFINE g == Goto(Enter(s), "BULB")
  <2>1. Photo(s, in) = g /\ s.t.run_state = "PHOTO"
    BY <1>2 DEF Photo, At
  <2>2. Moves(s, g) /\ g.t.run_state = "BULB" /\ g.t.old_state = s.t.run_state
    BY <1>0, EnterGoto
  <2> HIDE DEF g
  <2>3. Works(s, g)
    BY <2>1, <2>2, MoveWorks DEF Between
  <2> QED
    BY <2>1, <2>2, <2>3 DEF Moves, SameCounts
<1>3. CASE Photo(s, in) # s /\ prog.kind = "photo"
  <2> DEFINE u == Enter(s)
             x == Expose(u, in)
             c == [x EXCEPT !.t.exps = @ + 1]
             g == Goto(c, "NEXT")
  <2>1. Photo(s, in) = g /\ s.t.run_state = "PHOTO"
    BY <1>3 DEF Photo, At
  <2>2. Moves(s, u) /\ u.t.run_state = s.t.run_state /\ u \in PassState
    BY <1>0, MoveFields DEF Moves
  <2> HIDE DEF u
  <2>3. /\ x \in PassState /\ Steady(u.t, x.t) /\ x.alert = u.alert
        /\ x.t.exps = u.t.exps /\ x.t.photos = u.t.photos
    BY <2>2, ExposeFields
  <2> HIDE DEF x
  <2>4. s.t.exps < 255 /\ x.t.exps = s.t.exps
    BY <2>1, <2>2, <2>3 DEF PassInv, RunInv, Between, Moves, SameCounts
  <2>5. /\ c \in PassState /\ Steady(x.t, c.t) /\ c.alert = x.alert
        /\ c.t.photos = x.t.photos
    BY <2>3, <2>4, CountExposure
  <2> HIDE DEF c
  <2>6. Moves(c, g) /\ g.t.run_state = "NEXT"
    BY <1>0, <2>5, MoveFields
  <2> HIDE DEF g
  <2>7. /\ g \in PassState /\ Steady(s.t, g.t) /\ g.alert = s.alert /\ g.t.photos = s.t.photos
    BY <2>2, <2>3, <2>5, <2>6 DEF Moves, Steady, SameCounts
  <2>8. CountInv(s.t) => CountInv(g.t)
    BY <2>1, <2>6, <2>7 DEF CountInv, Steady
  <2>9. HdrInv(g.t, g.cam)
    BY <1>3 DEF HdrInv
  <2> QED
    BY <2>1, <2>6, <2>7, <2>8, <2>9 DEF Works, PassInv, RunInv, Between, Steady
<1> QED
  BY <1>1, <1>2, <1>3

\* The shutter is told to open: made, refused or lost.
LEMMA BulbStartWorks ==
    ASSUME prog \in Programs, NEW s, PassInv(s), NEW in,
           in.usb \in {"ok", "refused", "error"},
           s.t.run_state = "BULB", s.t.old_state # "BULB"
    PROVE  Works(s, BulbStart(s, in)) /\ BulbStart(s, in).t.photos = s.t.photos
<1> DEFINE u == Enter(s)
           x == Expose(u, in)
           again == [x EXCEPT !.t.old_state = "DELAY", !.bulb = FALSE]
           e == BulbStart(s, in)
<1>0. s \in PassState /\ "ERROR" \in RunStates /\ s.t.exps < 255 /\ s.t.exps \in Nat
      /\ s.t.shots \in Nat
  BY DEF PassInv, RunStates, PassState, TimerState, RunInv, Between
<1>1. /\ Moves(s, u) /\ u.t.run_state = "BULB" /\ u.t.old_state = "BULB"
      /\ u \in PassState /\ u.cam = s.cam
  BY <1>0, MoveFields DEF Moves
<1>2. Outcome(u, in) = Outcome(s, in)
  BY <1>1 DEF Outcome
<1> HIDE DEF u
<1>3. /\ x \in PassState /\ Steady(u.t, x.t) /\ x.alert = u.alert
      /\ x.t.exps = u.t.exps /\ x.t.photos = u.t.photos
      /\ x.t.lastShots = u.t.lastShots /\ x.t.run_state = u.t.run_state
      /\ x.t.old_state = u.t.old_state /\ x.cam.ready = u.cam.ready
      /\ x.t.shots = u.t.shots + (IF Outcome(s, in) = "ok" THEN 1 ELSE 0)
  BY <1>1, <1>2, ExposeFields
<1> HIDE DEF x
<1>4. /\ Steady(s.t, x.t) /\ x.alert = s.alert /\ x.t.exps = s.t.exps
      /\ x.t.photos = s.t.photos /\ x.t.lastShots = s.t.lastShots
      /\ x.t.run_state = "BULB" /\ x.t.old_state = "BULB" /\ x.cam.ready = s.cam.ready
      /\ x.t.shots = s.t.shots + (IF Outcome(s, in) = "ok" THEN 1 ELSE 0)
  BY <1>1, <1>3 DEF Moves, Steady, SameCounts
<1>5. ASSUME NEW f, f \in PassState, Steady(s.t, f.t), f.alert = s.alert,
             f.t.exps = s.t.exps, f.t.photos = s.t.photos, f.t.lastShots = s.t.lastShots,
             f.t.run_state \in {"BULB", "ERROR"}, f.cam.ready = s.cam.ready,
             prog.kind = "bulb" => \/ f.t.old_state = "DELAY" /\ f.t.shots = s.t.shots
                                   \/ /\ f.t.old_state = "BULB" /\ f.t.run_state = "BULB"
                                      /\ ~s.t.lost /\ HdrInv(s.t, s.cam) /\ prog.hdr
                                           => f.t.shots = s.t.shots + 1
      PROVE  Works(s, f) /\ f.t.photos = s.t.photos
  <2>1. CountInv(s.t) => CountInv(f.t)
    BY <1>5 DEF CountInv, Steady
  <2>2. HdrInv(s.t, s.cam) => HdrInv(f.t, f.cam)
    BY <1>0, <1>5 DEF HdrInv, Steady, Exposed, Between
  <2> QED
    BY <1>0, <1>5, <2>1, <2>2 DEF Works, PassInv, RunInv, Between, Steady
<1>6. CASE prog.kind = "bulb" /\ Outcome(s, in) \in {"refused", "error"}
  <2>1. e = Return(IF x.cam.error THEN Goto(again, "ERROR") ELSE again)
    BY <1>6 DEF BulbStart, TryAgain, x, u
  <2>2. /\ again \in PassState /\ Steady(x.t, again.t) /\ SameCounts(x.t, again.t)
        /\ again.alert = x.alert /\ again.cam = x.cam
        /\ again.t.run_state = x.t.run_state /\ again.t.old_state = "DELAY"
    <3> DEFINE y == [x.t EXCEPT !.old_state = "DELAY"]
    <3>1. /\ y \in TimerState /\ Steady(x.t, y) /\ SameCounts(x.t, y)
          /\ y.run_state = x.t.run_state /\ y.old_state = "DELAY"
      BY <1>3 DEF PassState, TimerState, RunStates, Steady, SameCounts
    <3>2. again = [x EXCEPT !.t = y, !.bulb = FALSE]
      OBVIOUS
    <3> HIDE DEF y, again
    <3>3. again \in PassState /\ again.t = y /\ again.alert = x.alert /\ again.cam = x.cam
      BY <1>3, <3>1, <3>2 DEF PassState
    <3> QED
      BY <3>1, <3>3
  <2> HIDE DEF again
  <2> DEFINE g == IF x.cam.error THEN Goto(again, "ERROR") ELSE again
  <2>3. /\ g \in PassState /\ Steady(x.t, g.t) /\ SameCounts(x.t, g.t)
        /\ g.alert = x.alert /\ g.cam = x.cam
        /\ g.t.run_state \in {"BULB", "ERROR"} /\ g.t.old_state = "DELAY"
    <3>1. CASE x.cam.error
      <4>1. g = Goto(again, "ERROR") /\ "ERROR" \in RunStates
        BY <3>1 DEF RunStates
      <4> HIDE DEF g
      <4>2. Moves(again, g) /\ g.t.run_state = "ERROR" /\ g.t.old_state = again.t.old_state
        BY <2>2, <4>1, MoveFields
      <4> QED
        BY <2>2, <4>2 DEF Moves, Steady, SameCounts
    <3>2. CASE ~x.cam.error
      BY <1>0, <1>4, <2>2, <3>2
    <3> QED
      BY <3>1, <3>2
  <2> HIDE DEF g
  <2>4. Moves(g, Return(g)) /\ Return(g).t = g.t
    BY <1>0, <2>3, MoveFields
  <2>5. e = Return(g)
    BY <2>1 DEF g
  <2> HIDE DEF e
  <2>6. /\ e \in PassState /\ Steady(s.t, e.t) /\ e.alert = s.alert
        /\ e.t.exps = s.t.exps /\ e.t.photos = s.t.photos /\ e.t.lastShots = s.t.lastShots
        /\ e.t.run_state \in {"BULB", "ERROR"} /\ e.cam.ready = s.cam.ready
        /\ e.t.old_state = "DELAY" /\ e.t.shots = s.t.shots
    BY <1>0, <1>4, <1>6, <2>3, <2>4, <2>5 DEF Moves, Steady, SameCounts
  <2> QED
    BY <2>6, <1>5 DEF e
<1>7. CASE prog.kind = "bulb" /\ Outcome(s, in) \notin {"refused", "error"}
  <2> DEFINE f == [x EXCEPT !.bulb = TRUE]
  <2>1. e = f
    BY <1>7 DEF BulbStart, x, u
  <2>2. f \in PassState /\ f.t = x.t /\ f.cam = x.cam /\ f.alert = x.alert
    BY <1>3 DEF PassState
  <2> HIDE DEF e, f
  <2>3. ~s.t.lost /\ HdrInv(s.t, s.cam) /\ prog.hdr => f.t.shots = s.t.shots + 1
    <3>1. SUFFICES ASSUME ~s.t.lost, HdrInv(s.t, s.cam), prog.hdr
                   PROVE  Outcome(s, in) = "ok"
      BY <1>4, <2>2
    <3>2. prog.usb => s.cam.ready
      BY <1>7, <3>1 DEF HdrInv
    <3> QED
      BY <1>7, <3>2 DEF Outcome
  <2> QED
    BY <1>4, <1>5, <2>1, <2>2, <2>3 DEF e
<1>8. CASE prog.kind # "bulb"
  <2>1. e = x
    BY <1>8 DEF BulbStart, x, u
  <2> QED
    BY <1>3, <1>4, <1>5, <1>8, <2>1
<1> QED
  BY <1>6, <1>7, <1>8

\* RUN_BULB: an exposure starts, or is counted once it is over.
LEMMA BulbWorks ==
    ASSUME prog \in Programs, NEW s, PassInv(s), NEW in,
           in.usb \in {"ok", "refused", "error"}
    PROVE  Works(s, Bulb(s, in)) /\ Bulb(s, in).t.photos = s.t.photos
<1>0. s \in PassState /\ "NEXT" \in RunStates
  BY DEF PassInv, RunStates
<1>1. CASE Bulb(s, in) = s
  BY <1>1, Idles
<1>2. CASE At(s, "BULB") /\ s.t.old_state # "BULB"
  BY <1>2, BulbStartWorks DEF Bulb, At
<1>3. CASE Bulb(s, in) # s /\ At(s, "BULB") /\ s.t.old_state = "BULB"
  <2> DEFINE c == [s EXCEPT !.t.exps = @ + 1]
             g == Goto(c, "NEXT")
             e == Return(g)
  <2>1. Bulb(s, in) = e /\ s.t.run_state = "BULB"
    BY <1>3 DEF Bulb, At
  <2>2. s.t.exps < 255 /\ s.t.exps \in Nat /\ s.t.shots \in Nat
    BY <1>0, <2>1 DEF PassInv, RunInv, Between, PassState, TimerState
  <2>3. /\ c \in PassState /\ Steady(s.t, c.t) /\ c.alert = s.alert
        /\ c.cam = s.cam /\ c.t.exps = s.t.exps + 1 /\ c.t.photos = s.t.photos
        /\ c.t.lastShots = s.t.lastShots /\ c.t.shots = s.t.shots
    BY <1>0, <2>2, CountExposure
  <2> HIDE DEF c
  <2>4. Moves(c, g) /\ g.t.run_state = "NEXT" /\ g \in PassState
    BY <1>0, <2>3, MoveFields DEF Moves
  <2> HIDE DEF g
  <2>5. Moves(g, e) /\ e.t = g.t
    BY <1>0, <2>4, MoveFields
  <2> HIDE DEF e
  <2>6. /\ e \in PassState /\ Steady(s.t, e.t) /\ e.alert = s.alert /\ e.cam = s.cam
        /\ e.t.run_state = "NEXT" /\ e.t.photos = s.t.photos
        /\ e.t.exps = s.t.exps + 1 /\ e.t.lastShots = s.t.lastShots /\ e.t.shots = s.t.shots
    BY <2>3, <2>4, <2>5 DEF Moves, Steady, SameCounts
  <2>7. CountInv(s.t) => CountInv(e.t)
    BY <2>1, <2>6 DEF CountInv, Steady
  <2>8. HdrInv(s.t, s.cam) => HdrInv(e.t, e.cam)
    BY <1>3, <2>1, <2>2, <2>6, ProgramFacts DEF HdrInv, Steady, Exposed, Between
  <2> QED
    BY <2>1, <2>6, <2>7, <2>8 DEF Works, PassInv, RunInv, Between, Steady
<1> QED
  BY <1>1, <1>2, <1>3 DEF Bulb

\* The end of a photo: counted, or on to the next exposure of its set, and the
\* run goes on or has its photos.
LEMMA NextStateWorks ==
    ASSUME prog \in Programs, NEW s, PassInv(s), s.t.run_state = "NEXT", ~s.ret, NEW in
    PROVE  LET e == NextState(s, in)
           IN  /\ Works(s, e)
               /\ e.t.photos \in {s.t.photos, (s.t.photos + 1) % PhotoModulus}
<1> DEFINE x == s.t
           n == (x.photos + 1) % PhotoModulus
           y == [x EXCEPT !.exps = 0, !.shots = 0, !.lastShots = x.shots, !.photos = n]
           c == [s EXCEPT !.t = y]
           counted == Goto(c, "GAP")
           next == IF SetComplete(s) THEN counted
                   ELSE IF ~s.cam.busy THEN Goto(s, "PHOTO")
                   ELSE s
           enough == IF prog.ramp THEN in.late ELSE Enough(next.t.photos)
           e == NextState(s, in)
<1>0. /\ s \in PassState /\ x \in TimerState
      /\ {"GAP", "PHOTO", "END"} \subseteq RunStates /\ s.cam \in Camera
  BY DEF PassInv, RunStates, PassState
<1>1. /\ x.exps \in 0 .. 255 /\ x.shots \in Nat /\ x.lastShots \in Nat
      /\ x.photos \in 0 .. (PhotoModulus - 1) /\ x.infinitePhotos \in BOOLEAN
      /\ PhotoModulus \in Nat \ {0}
  BY <1>0, PassesAssumption DEF TimerState
<1>13. prog.exps \in 1 .. 255
  BY ProgramFacts
<1>14. ~SetComplete(s) => x.exps < prog.exps
  <2>1. s.t.exps \in Int /\ prog.exps \in Int
    BY <1>1, <1>13
  <2>2. s.t.exps >= prog.exps \/ s.t.exps < prog.exps
    BY <2>1
  <2> QED
    BY <2>2 DEF SetComplete
<1>15. SetComplete(s) /\ prog.hdr => x.exps >= prog.exps
  BY DEF SetComplete
<1>2. /\ n \in 0 .. (PhotoModulus - 1)
      /\ x.photos + 1 < PhotoModulus => n = x.photos + 1
  BY <1>1
<1>3. e = IF x.infinitePhotos THEN next ELSE IF enough THEN Goto(next, "END") ELSE next
  <2>1. c = [s EXCEPT !.t.exps = 0, !.t.shots = 0, !.t.lastShots = s.t.shots,
                      !.t.photos = (@ + 1) % PhotoModulus]
    BY <1>0 DEF PassState, TimerState
  <2> QED
    BY <2>1 DEF NextState
<1> HIDE DEF n
<1>4. /\ y \in TimerState /\ Steady(x, y) /\ y.exps = 0 /\ y.shots = 0
      /\ y.lastShots = x.shots /\ y.photos = n
  <2> HIDE DEF x
  <2>1. y \in TimerState
    <3>1. 0 \in 0 .. 255 /\ 0 \in Nat /\ x.shots \in Nat
      BY <1>1
    <3> QED
      BY <1>0, <1>2, <3>1, ZenonT(60) DEF TimerState
  <2>2. Steady(x, y)
    BY <1>0 DEF TimerState, Steady
  <2>3. y.exps = 0 /\ y.shots = 0 /\ y.lastShots = x.shots /\ y.photos = n
    BY <1>0 DEF TimerState
  <2> QED
    BY <2>1, <2>2, <2>3
<1> HIDE DEF y
<1>5. c \in PassState /\ c.t = y /\ c.cam = s.cam /\ c.alert = s.alert /\ c.ret = s.ret
  BY <1>0, <1>4 DEF PassState
<1> HIDE DEF c
<1>6. /\ Moves(c, counted) /\ counted.t.run_state = "GAP" /\ counted.ret = s.ret
      /\ Moves(s, Goto(s, "PHOTO")) /\ Goto(s, "PHOTO").t.run_state = "PHOTO"
      /\ Goto(s, "PHOTO").ret = s.ret
  BY <1>0, <1>5, MoveFields
<1> HIDE DEF counted
\* What the three outcomes have in common.
<1>7. /\ next \in PassState /\ Steady(x, next.t) /\ next.alert = s.alert /\ ~next.ret
      /\ next.cam = s.cam
      /\ next.t.run_state \in {"GAP", "PHOTO", "NEXT"}
      /\ next.t.run_state \notin Between => next.t.exps < 255
      /\ next.t.photos \in {x.photos, n}
  <2>1. CASE SetComplete(s)
    BY <1>4, <1>5, <1>6, <2>1 DEF Moves, Steady, SameCounts
  <2>2. CASE ~SetComplete(s) /\ ~s.cam.busy
    <3>1. x.exps < 255
      BY <1>1, <1>13, <1>14, <2>2
    <3> QED
      BY <1>6, <2>2, <3>1 DEF Moves, Steady, SameCounts
  <2>3. CASE ~SetComplete(s) /\ s.cam.busy
    BY <1>0, <2>3 DEF Steady, Between
  <2> QED
    BY <2>1, <2>2, <2>3
<1>8. HdrInv(x, s.cam) => HdrInv(next.t, next.cam)
  <2> SUFFICES ASSUME HdrInv(x, s.cam), prog.hdr, prog.kind = "bulb", ~x.lost
               PROVE  HdrInv(next.t, next.cam)
    BY <1>7 DEF HdrInv, Steady
  <2>1. /\ x.shots = x.exps /\ x.exps <= prog.exps /\ (prog.usb => s.cam.ready)
        /\ x.photos > 0 => x.lastShots = prog.exps
    BY DEF HdrInv, Exposed
  <2>2. CASE SetComplete(s)
    <3>1. x.exps = prog.exps
      BY <1>1, <1>13, <1>15, <2>1, <2>2
    <3>2. /\ next.t.exps = 0 /\ next.t.shots = 0 /\ next.t.lastShots = prog.exps
          /\ next.t.run_state = "GAP" /\ next.cam = s.cam
      BY <1>4, <1>5, <1>6, <2>1, <2>2, <3>1 DEF Moves, SameCounts
    <3> QED
      BY <2>1, <3>2, ProgramFacts DEF HdrInv, Exposed
  <2>3. CASE ~SetComplete(s) /\ ~s.cam.busy
    <3>1. x.exps < prog.exps
      BY <1>14, <2>3
    <3>2. /\ next.t.run_state = "PHOTO" /\ next.cam = s.cam /\ SameCounts(x, next.t)
      BY <1>6, <2>3 DEF Moves
    <3> QED
      BY <2>1, <3>1, <3>2 DEF HdrInv, Exposed, SameCounts
  <2>4. CASE ~SetComplete(s) /\ s.cam.busy
    BY <2>4
  <2> QED
    BY <2>2, <2>3, <2>4
<1> HIDE DEF next
<1>9. /\ Moves(next, Goto(next, "END")) /\ Goto(next, "END").t.run_state = "END"
      /\ Goto(next, "END").ret = next.ret
  BY <1>0, <1>7, MoveFields
<1>10. Finite /\ CountInv(x) => next.t.photos \in 0 .. Target /\ ~x.infinitePhotos /\ ~prog.ramp
  <2> SUFFICES ASSUME Finite, CountInv(x)
               PROVE  next.t.photos \in 0 .. Target /\ ~x.infinitePhotos /\ ~prog.ramp
    OBVIOUS
  <2>1. x.photos < Target /\ Target \in 1 .. (PhotoModulus - 1)
    BY ProgramFacts DEF CountInv
  <2>2. n = x.photos + 1
    BY <1>1, <1>2, <2>1
  <2>3. ~Unlimited
    BY ProgramFacts DEF Finite, Unlimited
  <2> QED
    BY <1>1, <1>7, <2>1, <2>2, <2>3 DEF CountInv, Finite
<1>11. CASE x.infinitePhotos \/ ~enough
  <2>1. e = next
    BY <1>3, <1>11
  <2>2. CountInv(x) => CountInv(next.t)
    <3> SUFFICES ASSUME CountInv(x) PROVE CountInv(next.t)
      OBVIOUS
    <3>1. Finite => next.t.photos < Target
      <4> SUFFICES ASSUME Finite PROVE next.t.photos < Target
        OBVIOUS
      <4>1. ~Enough(next.t.photos) /\ next.t.photos \in 0 .. Target
        BY <1>10, <1>11
      <4> QED
        BY <4>1, ProgramFacts DEF Enough, Target, Finite
    <3> QED
      BY <1>7, <3>1 DEF CountInv, Steady
  <2> QED
    BY <1>7, <1>8, <2>1, <2>2 DEF Works, PassInv, RunInv, Steady, n
<1>12. CASE ~x.infinitePhotos /\ enough
  <2>1. e = Goto(next, "END")
    BY <1>3, <1>12
  <2> HIDE DEF e
  <2>2. CountInv(x) => CountInv(e.t)
    <3> SUFFICES ASSUME CountInv(x) PROVE CountInv(e.t)
      OBVIOUS
    <3>1. Finite => next.t.photos \in Least .. Target
      <4> SUFFICES ASSUME Finite PROVE next.t.photos \in Least .. Target
        OBVIOUS
      <4>1. Enough(next.t.photos) /\ next.t.photos \in 0 .. Target
        BY <1>10, <1>12
      <4>2. next.t.photos >= Target
        BY <4>1, ProgramFacts DEF Enough, Target, Finite
      <4> QED
        BY <4>1, <4>2, ProgramFacts
    <3>2. e.t.photos = next.t.photos /\ Steady(x, e.t) /\ e.t.run_state = "END"
      BY <1>7, <1>9, <2>1 DEF Moves, Steady, SameCounts
    <3> QED
      BY <3>1, <3>2 DEF CountInv, Steady
  <2>3. HdrInv(x, s.cam) => HdrInv(e.t, e.cam)
    <3> SUFFICES ASSUME HdrInv(next.t, next.cam) PROVE HdrInv(e.t, e.cam)
      BY <1>8
    <3>1. /\ SameCounts(next.t, e.t) /\ Steady(next.t, e.t) /\ e.t.run_state = "END"
      BY <1>9, <2>1 DEF Moves
    <3> QED
      BY <1>7, <3>1 DEF HdrInv, Exposed, SameCounts, Steady, Between
  <2> QED
    BY <1>7, <1>9, <2>1, <2>2, <2>3
       DEF Works, PassInv, RunInv, Steady, Moves, SameCounts, Between, e, n
<1> QED
  BY <1>11, <1>12

\* RUN_NEXT: at most one photo is counted, and none when the camera was lost.
LEMMA NextPhotoWorks ==
    ASSUME prog \in Programs, NEW s, PassInv(s), NEW in
    PROVE  LET e == NextPhoto(s, in)
           IN  /\ Works(s, e)
               /\ e.t.photos \in {s.t.photos, (s.t.photos + 1) % PhotoModulus}
               /\ s.ret => e = s
<1> DEFINE u == Enter(s)
           g == Goto(u, "ERROR")
           r == Return(g)
<1>0. s \in PassState /\ "ERROR" \in RunStates
  BY DEF PassInv, RunStates
<1>1. CASE ~At(s, "NEXT")
  BY <1>1, Idles DEF NextPhoto
<1>2. CASE At(s, "NEXT") /\ CameraLost(s)
  <2>1. NextPhoto(s, in) = r /\ s.t.run_state = "NEXT" /\ ~s.ret
    BY <1>2 DEF NextPhoto, At
  <2>2. Moves(s, g) /\ g.t.run_state = "ERROR" /\ g \in PassState
    BY <1>0, EnterGoto DEF Moves
  <2> HIDE DEF g
  <2>3. Moves(g, r) /\ r.t = g.t
    BY <1>0, <2>2, MoveFields
  <2>4. Moves(s, r) /\ r.t.run_state = "ERROR"
    BY <2>2, <2>3, MovesTwice
  <2> HIDE DEF r
  <2>5. CountInv(s.t) => CountInv(r.t)
    BY <2>1, <2>4 DEF CountInv, SameCounts, Steady, Moves
  <2>6. HdrInv(s.t, s.cam) => HdrInv(r.t, r.cam)
    BY <2>1, <2>4 DEF HdrInv, SameCounts, Steady, Moves, Exposed, Between
  <2> QED
    BY <2>1, <2>4, <2>5, <2>6 DEF Works, PassInv, RunInv, Steady, Moves, Between, SameCounts
<1>3. CASE At(s, "NEXT") /\ ~CameraLost(s)
  <2>1. NextPhoto(s, in) = NextState(u, in) /\ s.t.run_state = "NEXT" /\ ~s.ret
    BY <1>3 DEF NextPhoto, At
  <2>2. Moves(s, u) /\ u.t.run_state = "NEXT" /\ u.ret = s.ret /\ u.t.old_state = "NEXT"
    BY <1>0, <2>1, MoveFields
  <2> HIDE DEF u
  <2>3. CountInv(s.t) => CountInv(u.t)
    BY <2>1, <2>2 DEF CountInv, SameCounts, Steady, Moves
  <2>4. HdrInv(s.t, s.cam) => HdrInv(u.t, u.cam)
    BY <2>1, <2>2 DEF HdrInv, SameCounts, Steady, Moves, Exposed, Between
  <2>5. Works(s, u)
    BY <2>1, <2>2, <2>3, <2>4 DEF Works, PassInv, RunInv, Steady, Moves, Between
  <2>6. PassInv(u) /\ u.t.photos = s.t.photos
    BY <2>2, <2>5 DEF Works, Moves, SameCounts
  <2>7. /\ Works(u, NextState(u, in))
        /\ NextState(u, in).t.photos \in {u.t.photos, (u.t.photos + 1) % PhotoModulus}
    BY <2>1, <2>2, <2>6, NextStateWorks
  <2> QED
    BY <2>1, <2>5, <2>6, <2>7 DEF Works, Steady
<1> QED
  BY <1>1, <1>2, <1>3

\* RUN_GAP.
LEMMA GapWorks ==
    ASSUME prog \in Programs, NEW s, PassInv(s), NEW in
    PROVE  Works(s, Gap(s, in)) /\ Gap(s, in).t.photos = s.t.photos
<1> DEFINE a == Goto(Enter(s), "PHOTO")
           b == Goto(Enter(s), "EXTERNAL")
           c == Enter(s)
<1>1. CASE ~At(s, "GAP")
  BY <1>1, Idles DEF Gap
<1>2. CASE At(s, "GAP")
  <2>0. s \in PassState /\ "PHOTO" \in RunStates /\ "EXTERNAL" \in RunStates
    BY DEF PassInv, RunStates
  <2>1. /\ Moves(s, a) /\ a.t.run_state = "PHOTO" /\ a.t.old_state = s.t.run_state
        /\ Moves(s, b) /\ b.t.run_state = "EXTERNAL" /\ b.t.old_state = s.t.run_state
    BY <2>0, EnterGoto
  <2>2. Moves(s, c) /\ c.t.run_state = s.t.run_state /\ c.t.old_state = s.t.run_state
    BY <2>0, MoveFields
  <2>3. Gap(s, in) = IF ~in.still THEN c ELSE IF prog.external THEN b
                     ELSE IF in.waited THEN a ELSE c
    BY <1>2 DEF Gap
  <2> HIDE DEF a, b, c
  <2>5. s.t.run_state = "GAP"
    BY <1>2 DEF At
  <2>6. Works(s, a) /\ Works(s, c) /\ (prog.external => Works(s, b))
    BY <2>1, <2>2, <2>5, MoveWorks DEF Between
  <2> QED
    BY <2>1, <2>2, <2>3, <2>6 DEF SameCounts, Moves
<1> QED
  BY <1>1, <1>2

\* The trigger stayed away: only after three photos.
LEMMA TimeOutWorks ==
    ASSUME prog \in Programs, NEW s, PassInv(s), NEW in, ~s.ret, TimedOut(s, in),
           s.t.run_state \in {"EXTERNAL", "RELEASE"}
    PROVE  Works(s, Goto(s, "END")) /\ Goto(s, "END").t.photos = s.t.photos
<1> DEFINE e == Goto(s, "END")
<1>0. s \in PassState /\ "END" \in RunStates
  BY DEF PassInv, RunStates
<1>1. Moves(s, e) /\ e.t.run_state = "END" /\ e.ret = s.ret
  BY <1>0, MoveFields
<1> HIDE DEF e
<1>2. CountInv(s.t) => CountInv(e.t)
  <2> SUFFICES ASSUME CountInv(s.t) PROVE CountInv(e.t)
    OBVIOUS
  <2>1. s.t.photos > 2 /\ prog.external /\ s.t.photos \in Nat
    BY <1>0 DEF TimedOut, CountInv, PassState, TimerState
  <2>2. Finite => s.t.photos \in Least .. Target
    <3> SUFFICES ASSUME Finite PROVE s.t.photos \in Least .. Target
      OBVIOUS
    <3>1. s.t.photos < Target /\ Target \in Nat
      BY ProgramFacts DEF CountInv
    <3>2. Least = 3
      BY <2>1, <3>1 DEF Least
    <3> QED
      BY <2>1, <3>1, <3>2
  <2> QED
    BY <1>1, <2>2 DEF CountInv, SameCounts, Steady, Moves
<1>3. HdrInv(s.t, s.cam) => HdrInv(e.t, e.cam)
  BY <1>1 DEF HdrInv, SameCounts, Steady, Moves, Exposed, Between
<1> QED
  BY <1>1, <1>2, <1>3 DEF Works, PassInv, RunInv, Steady, Moves, SameCounts, Between, e

\* The wait for the external trigger.
LEMMA ExternalWorks ==
    ASSUME prog \in Programs, NEW s, PassInv(s), NEW in
    PROVE  Works(s, External(s, in)) /\ External(s, in).t.photos = s.t.photos
<1>1. CASE External(s, in) = s
  BY <1>1, Idles
<1>2. CASE At(s, "EXTERNAL") /\ in.pin # "low"
  <2> DEFINE e == Goto(s, "RELEASE")
  <2>0. s \in PassState /\ "RELEASE" \in RunStates
    BY DEF PassInv, RunStates
  <2>1. External(s, in) = e /\ s.t.run_state = "EXTERNAL"
    BY <1>2 DEF External, At
  <2>2. Moves(s, e) /\ e.t.run_state = "RELEASE"
    BY <2>0, MoveFields
  <2> HIDE DEF e
  <2> QED
    BY <2>1, <2>2, MoveWorks DEF Between, Moves, SameCounts
<1>3. CASE At(s, "EXTERNAL") /\ ~(in.pin # "low") /\ TimedOut(s, in)
  BY <1>3, TimeOutWorks DEF External, At
<1> QED
  BY <1>1, <1>2, <1>3 DEF External

\* The wait for its release.
LEMMA ReleaseWorks ==
    ASSUME prog \in Programs, NEW s, PassInv(s), NEW in
    PROVE  Works(s, Release(s, in)) /\ Release(s, in).t.photos = s.t.photos
<1>1. CASE Release(s, in) = s
  BY <1>1, Idles
<1>2. CASE At(s, "RELEASE") /\ in.pin # "high"
  <2> DEFINE e == Goto(s, "PHOTO")
  <2>0. s \in PassState /\ "PHOTO" \in RunStates
    BY DEF PassInv, RunStates
  <2>1. Release(s, in) = e /\ s.t.run_state = "RELEASE"
    BY <1>2 DEF Release, At
  <2>2. Moves(s, e) /\ e.t.run_state = "PHOTO"
    BY <2>0, MoveFields
  <2> HIDE DEF e
  <2> QED
    BY <2>1, <2>2, MoveWorks DEF Between, Moves, SameCounts
<1>3. CASE At(s, "RELEASE") /\ ~(in.pin # "high") /\ TimedOut(s, in)
  BY <1>3, TimeOutWorks DEF Release, At
<1> QED
  BY <1>1, <1>2, <1>3 DEF Release

\* RUN_ERROR: the connection is reset, nothing is counted.
LEMMA ErrorWorks ==
    ASSUME prog \in Programs, NEW s, PassInv(s), NEW in
    PROVE  Works(s, Error(s, in)) /\ Error(s, in).t.photos = s.t.photos
<1> DEFINE u == Enter(s)
           ready == IF Resets(s) THEN prog.usb /\ in.usb = "ok" ELSE s.cam.ready
           count == IF Resets(s) THEN 1 ELSE s.t.errorRetryCount + 1
           c == IF Resets(s) THEN [ready |-> ready, error |-> FALSE, busy |-> FALSE] ELSE s.cam
           m == IF ready THEN 0 ELSE count
           v == [u EXCEPT !.cam = c, !.t.errorRetryCount = m]
           g == IF ready THEN Goto(v, "NEXT") ELSE v
           e == Return(g)
<1>1. CASE ~At(s, "ERROR")
  BY <1>1, Idles DEF Error
<1>2. CASE At(s, "ERROR")
  <2>0. /\ s \in PassState /\ "NEXT" \in RunStates /\ s.t \in TimerState /\ s.cam \in Camera
        /\ s.t.run_state = "ERROR"
    BY <1>2 DEF PassInv, RunStates, PassState, At
  <2>1. Moves(s, u) /\ u.t.run_state = "ERROR" /\ u \in PassState /\ u.cam = s.cam
    BY <2>0, MoveFields DEF Moves
  <2>2. Error(s, in) = e
    BY <1>2 DEF Error
  <2> HIDE DEF u
  <2>3. c \in Camera /\ (ready => c.ready)
    <3>1. ready \in BOOLEAN
      <4>1. (prog.usb /\ in.usb = "ok") \in BOOLEAN
        BY Zenon
      <4>2. s.cam.ready \in BOOLEAN
        BY <2>0 DEF Camera
      <4> QED
        BY <4>1, <4>2, Zenon
    <3> HIDE DEF ready
    <3>2. CASE Resets(s)
      BY <3>1, <3>2 DEF Camera
    <3>3. CASE ~Resets(s)
      BY <2>0, <3>3 DEF ready
    <3> QED
      BY <3>2, <3>3
  <2>4. m \in 0 .. (ErrorRetries + 1)
    <3>1. s.t.errorRetryCount \in 0 .. (ErrorRetries + 1) /\ ErrorRetries \in Nat \ {0}
      BY <2>0, PassesAssumption DEF TimerState
    <3>2. ~Resets(s) => ~(s.t.errorRetryCount > ErrorRetries)
      BY DEF Resets
    <3> HIDE DEF ready
    <3> QED
      BY <3>1, <3>2
  <2> HIDE DEF ready, c, m
  <2>6. /\ v \in PassState /\ Steady(u.t, v.t) /\ SameCounts(u.t, v.t) /\ v.cam = c
        /\ v.alert = u.alert /\ v.t.run_state = u.t.run_state
    <3> DEFINE y == [u.t EXCEPT !.errorRetryCount = m]
    <3>1. /\ y \in TimerState /\ Steady(u.t, y) /\ SameCounts(u.t, y)
          /\ y.run_state = u.t.run_state
      BY <2>1, <2>4 DEF PassState, TimerState, Steady, SameCounts
    <3>2. v = [u EXCEPT !.cam = c, !.t = y]
      BY <2>1 DEF PassState
    <3> HIDE DEF y, v
    <3>3. v \in PassState /\ v.t = y /\ v.cam = c /\ v.alert = u.alert
      BY <2>1, <2>3, <3>1, <3>2 DEF PassState
    <3> QED
      BY <3>1, <3>3
  <2> HIDE DEF v
  <2>7. /\ g \in PassState /\ Steady(u.t, g.t) /\ SameCounts(u.t, g.t) /\ g.cam = c
        /\ g.alert = u.alert
        /\ \/ g.t.run_state = "NEXT" /\ c.ready
           \/ g.t.run_state = "ERROR"
    <3>1. Moves(v, Goto(v, "NEXT")) /\ Goto(v, "NEXT").t.run_state = "NEXT"
      BY <2>0, <2>6, MoveFields
    <3> QED
      BY <2>1, <2>3, <2>6, <3>1 DEF Moves, Steady, SameCounts
  <2> HIDE DEF g
  <2>8. Moves(g, e) /\ e.t = g.t
    BY <2>0, <2>7, MoveFields
  <2> HIDE DEF e
  <2>9. /\ e \in PassState /\ Steady(s.t, e.t) /\ SameCounts(s.t, e.t)
        /\ e.alert = s.alert
        /\ \/ e.t.run_state = "NEXT" /\ e.cam.ready
           \/ e.t.run_state = "ERROR"
    BY <2>1, <2>7, <2>8 DEF Moves, Steady, SameCounts
  <2>10. CountInv(s.t) => CountInv(e.t)
    BY <2>0, <2>9 DEF CountInv, Steady, SameCounts
  <2>11. HdrInv(s.t, s.cam) => HdrInv(e.t, e.cam)
    BY <2>0, <2>9 DEF HdrInv, Steady, SameCounts, Exposed, Between
  <2> QED
    BY <2>2, <2>9, <2>10, <2>11 DEF Works, PassInv, RunInv, Steady, SameCounts, Between
<1> QED
  BY <1>1, <1>2

-----------------------------------------------------------------------------
(* A pass.                                                                 *)

\* The states of a run, from the delay to a lost camera.
States(s, in) ==
    LET shot == Bulb(Photo(Delay(s, in), in), in)
        waits == Release(External(Gap(NextPhoto(shot, in), in), in), in)
    IN  Error(waits, in)

\* Where a pass has returned or cancelled, no state is looked at any more.
LEMMA StatesIdle ==
    ASSUME NEW s, NEW in, s.ret \/ s.t.run_state = "END"
    PROVE  States(s, in) = s
<1>1. \A st \in RunStates \ {"END"} : ~At(s, st)
  BY DEF At
<1>2. /\ ~At(s, "DELAY") /\ ~At(s, "PHOTO") /\ ~At(s, "BULB") /\ ~At(s, "NEXT")
      /\ ~At(s, "GAP") /\ ~At(s, "EXTERNAL") /\ ~At(s, "RELEASE") /\ ~At(s, "ERROR")
  BY <1>1 DEF RunStates
<1>3. Delay(s, in) = s /\ Photo(s, in) = s /\ Bulb(s, in) = s /\ NextPhoto(s, in) = s
  BY <1>2 DEF Delay, Photo, Bulb, NextPhoto
<1>4. Gap(s, in) = s /\ External(s, in) = s /\ Release(s, in) = s /\ Error(s, in) = s
  BY <1>2 DEF Gap, External, Release, Error
<1> QED
  BY <1>3, <1>4 DEF States

\* A pass through the states keeps the invariant of the run, and counts at most
\* one photo.
LEMMA StatesWork ==
    ASSUME prog \in Programs, NEW s, PassInv(s), NEW in,
           in.usb \in {"ok", "refused", "error"}
    PROVE  LET e == States(s, in)
           IN  /\ Works(s, e)
               /\ e.t.photos \in {s.t.photos, (s.t.photos + 1) % PhotoModulus}
<1> DEFINE a == Delay(s, in)
           b == Photo(a, in)
           c == Bulb(b, in)
           d == NextPhoto(c, in)
           f == Gap(d, in)
           g == External(f, in)
           h == Release(g, in)
           e == Error(h, in)
<1>1. Works(s, a) /\ PassInv(a) /\ a.t.photos = s.t.photos
  BY DelayWorks DEF Works
<1> HIDE DEF a
<1>2. Works(a, b) /\ PassInv(b) /\ b.t.photos = a.t.photos
  BY <1>1, PhotoWorks DEF Works
<1> HIDE DEF b
<1>3. Works(b, c) /\ PassInv(c) /\ c.t.photos = b.t.photos
  BY <1>2, BulbWorks DEF Works
<1> HIDE DEF c
<1>4. Works(c, d) /\ PassInv(d) /\ d.t.photos \in {c.t.photos, (c.t.photos + 1) % PhotoModulus}
  BY <1>3, NextPhotoWorks DEF Works
<1> HIDE DEF d
<1>5. Works(d, f) /\ PassInv(f) /\ f.t.photos = d.t.photos
  BY <1>4, GapWorks DEF Works
<1> HIDE DEF f
<1>6. Works(f, g) /\ PassInv(g) /\ g.t.photos = f.t.photos
  BY <1>5, ExternalWorks DEF Works
<1> HIDE DEF g
<1>7. Works(g, h) /\ PassInv(h) /\ h.t.photos = g.t.photos
  BY <1>6, ReleaseWorks DEF Works
<1> HIDE DEF h
<1>8. Works(h, e) /\ PassInv(e) /\ e.t.photos = h.t.photos
  BY <1>7, ErrorWorks DEF Works
<1>9. States(s, in) = e
  BY DEF States, a, b, c, d, f, g, h, e
<1> HIDE DEF e
<1>10. Steady(s.t, d.t) /\ d.alert = s.alert
  BY <1>1, <1>2, <1>3, <1>4 DEF Works, Steady
<1>11. Steady(d.t, e.t) /\ e.alert = d.alert
  BY <1>5, <1>6, <1>7, <1>8 DEF Works, Steady
<1>12. Works(s, e)
  BY <1>8, <1>10, <1>11 DEF Works, Steady
<1> QED
  BY <1>1, <1>2, <1>3, <1>4, <1>5, <1>6, <1>7, <1>8, <1>9, <1>12

\* The pass that starts a run neither counts a photo nor ends the run.
LEMMA FreshStates ==
    ASSUME prog \in Programs, NEW s, PassInv(s), NEW in,
           s.t.run_state = "DELAY", s.t.photos = 0, in.waited = FALSE
    PROVE  States(s, in).t.photos = 0 /\ States(s, in).t.run_state # "END"
<1> DEFINE a == Delay(s, in)
           g == External(a, in)
           h == Release(g, in)
<1>0. s \in PassState /\ {"EXTERNAL", "RELEASE", "PHOTO"} \subseteq RunStates
  BY DEF PassInv, RunStates
<1>1. a \in PassState /\ a.t.photos = 0 /\ a.t.run_state \in {"DELAY", "EXTERNAL"}
  <2>1. a \in {s, Goto(Enter(s), "EXTERNAL"), Enter(s)}
    BY DEF Delay
  <2> HIDE DEF a
  <2>2. CASE a = s
    BY <1>0, <2>2
  <2>3. CASE a = Goto(Enter(s), "EXTERNAL")
    BY <1>0, <2>3, EnterGoto DEF Moves, SameCounts
  <2>4. CASE a = Enter(s)
    BY <1>0, <2>4, MoveFields DEF Moves, SameCounts
  <2> QED
    BY <2>1, <2>2, <2>3, <2>4
<1>2. /\ Photo(a, in) = a /\ Bulb(a, in) = a /\ NextPhoto(a, in) = a /\ Gap(a, in) = a
  <2> HIDE DEF a
  <2>1. ~At(a, "PHOTO") /\ ~At(a, "BULB") /\ ~At(a, "NEXT") /\ ~At(a, "GAP")
    BY <1>1 DEF At
  <2> QED
    BY <2>1 DEF Photo, Bulb, NextPhoto, Gap
<1>3. States(s, in) = Error(h, in)
  BY <1>2 DEF States
<1> HIDE DEF a
<1>4. /\ g \in PassState /\ g.t.photos = 0 /\ g.t.run_state \in {"DELAY", "EXTERNAL", "RELEASE"}
  <2>1. ~TimedOut(a, in)
    BY <1>1 DEF TimedOut
  <2>2. g \in {a, Goto(a, "RELEASE")}
    BY <2>1 DEF External
  <2> HIDE DEF g
  <2> QED
    BY <1>0, <1>1, <2>2, MoveFields DEF Moves, SameCounts
<1> HIDE DEF g
<1>5. h \in PassState /\ h.t.photos = 0 /\ h.t.run_state \notin {"END", "ERROR"}
  <2>1. ~TimedOut(g, in)
    BY <1>4 DEF TimedOut
  <2>2. h \in {g, Goto(g, "PHOTO")}
    BY <2>1 DEF Release
  <2> HIDE DEF h
  <2> QED
    BY <1>0, <1>4, <2>2, MoveFields DEF Moves, SameCounts
<1> HIDE DEF h
<1>6. Error(h, in) = h
  BY <1>5 DEF Error, At
<1> QED
  BY <1>3, <1>5, <1>6

\* Only the pause has changed.
Pauses(s, e) ==
    /\ e \in PassState
    /\ e.t.running = s.t.running /\ e.t.enter = s.t.enter /\ e.t.usingUSB = s.t.usingUSB
    /\ e.t.preChecked = s.t.preChecked /\ e.t.infinitePhotos = s.t.infinitePhotos
    /\ e.t.method = s.t.method /\ e.t.switchBack = s.t.switchBack /\ e.t.begun = s.t.begun
    /\ e.t.completed = s.t.completed /\ e.t.checked = s.t.checked /\ e.t.lost = s.t.lost
    /\ e.t.swapped = s.t.swapped /\ e.t.run_state = s.t.run_state
    /\ e.t.old_state = s.t.old_state /\ SameCounts(s.t, e.t)
    /\ e.alert = s.alert /\ e.cam = s.cam

\* A pause that lasts through the pass ends it.
LEMMA PausingWorks ==
    ASSUME NEW s \in PassState, s.t.pausing <= PausePasses + 1
    PROVE  LET e == Pausing(s)
           IN  /\ Pauses(s, e)
               /\ e.t.pausing <= PausePasses + 1
               /\ s.t.paused /\ e.t.paused => e.ret
               /\ s.ret => e = s
               /\ e.ret => s.ret \/ e.t.paused
<1> DEFINE off == [s EXCEPT !.t = [s.t EXCEPT !.paused = FALSE, !.pausing = 0]]
           more == [s EXCEPT !.t = [s.t EXCEPT !.pausing = s.t.pausing + 1]]
           r == IF s.t.pausing = 0 \/ ~s.t.paused THEN s
                ELSE IF s.t.pausing > PausePasses THEN off
                ELSE more
           on == [r EXCEPT !.t = [r.t EXCEPT !.pausing = 0, !.paused = TRUE]]
           e == Pausing(s)
<1>0. s.t \in TimerState /\ s.t.pausing \in Nat /\ PausePasses \in Nat \ {0}
  BY PassesAssumption DEF PassState, TimerState
<1>1. e = IF s.ret THEN s ELSE IF r.t.paused THEN Return(r)
          ELSE IF r.t.pausing > 0 /\ r.t.run_state # "BULB" THEN on
          ELSE r
  <2>1. off = [s EXCEPT !.t.paused = FALSE, !.t.pausing = 0]
    BY <1>0 DEF PassState, TimerState
  <2>2. more = [s EXCEPT !.t.pausing = @ + 1]
    BY <1>0 DEF PassState, TimerState
  <2>3. on = [r EXCEPT !.t.pausing = 0, !.t.paused = TRUE]
    BY <1>0 DEF PassState, TimerState
  <2> HIDE DEF off, more, on
  <2> QED
    BY <2>1, <2>2, <2>3 DEF Pausing
<1>2. Pauses(s, s) /\ Pauses(s, off) /\ Pauses(s, more)
  <2>1. Pauses(s, s)
    BY DEF Pauses, SameCounts
  <2>2. Pauses(s, off)
    BY <1>0, ZenonT(60) DEF PassState, TimerState, Pauses, SameCounts
  <2>3. Pauses(s, more)
    <3> DEFINE n == s.t.pausing + 1
    <3>1. n \in Nat
      BY <1>0
    <3> HIDE DEF n
    <3>2. Pauses(s, [s EXCEPT !.t = [s.t EXCEPT !.pausing = n]])
      BY <1>0, <3>1 DEF PassState, TimerState, Pauses, SameCounts
    <3> QED
      BY <3>2 DEF n
  <2> QED
    BY <2>1, <2>2, <2>3
<1>3. off.t.paused = FALSE /\ off.t.pausing = 0 /\ more.t.pausing = s.t.pausing + 1
      /\ more.t.paused = s.t.paused /\ off.ret = s.ret /\ more.ret = s.ret
  BY <1>0 DEF PassState, TimerState
<1> HIDE DEF off, more
<1>4. /\ Pauses(s, r) /\ r \in PassState /\ r.t.pausing <= PausePasses + 1 /\ r.ret = s.ret
  BY <1>0, <1>2, <1>3 DEF Pauses
<1> HIDE DEF r
<1>5. Pauses(r, on) /\ on.t.pausing = 0 /\ on.t.paused = TRUE /\ on.ret = r.ret
  BY <1>4, ZenonT(60) DEF PassState, TimerState, Pauses, SameCounts
<1>6. /\ Return(r) \in PassState /\ Return(r).t = r.t /\ Return(r).alert = r.alert
      /\ Return(r).cam = r.cam /\ Return(r).ret
  BY <1>4 DEF PassState, Return
<1> HIDE DEF on, e
<1>7. ~s.ret /\ s.t.paused => r.t.paused \/ (~r.t.paused /\ r.t.pausing = 0)
  BY <1>0, <1>3 DEF r
<1>8. Pauses(s, e)
  BY <1>1, <1>2, <1>4, <1>5, <1>6 DEF Pauses, SameCounts
<1>9. e.t.pausing <= PausePasses + 1
  BY <1>0, <1>1, <1>4, <1>5, <1>6
<1>10. s.t.paused /\ e.t.paused => e.ret
  BY <1>1, <1>4, <1>5, <1>6, <1>7
<1>11. e.ret => s.ret \/ e.t.paused
  BY <1>1, <1>4, <1>5, <1>6
<1> QED
  BY <1>1, <1>8, <1>9, <1>10, <1>11 DEF e

\* The invariant of a run does not look at the pause.
LEMMA PausesKeep ==
    ASSUME NEW s, NEW e, Pauses(s, e)
    PROVE  RunInv(s.t, s.cam) => RunInv(e.t, e.cam)
<1>1. CountInv(s.t) => CountInv(e.t)
  BY DEF Pauses, SameCounts, CountInv
<1>2. HdrInv(s.t, s.cam) => HdrInv(e.t, e.cam)
  BY DEF Pauses, SameCounts, HdrInv, Exposed
<1> QED
  BY <1>1, <1>2 DEF RunInv, Pauses, SameCounts

\* The ramp method: what a run gives back at its end.
MethodInv(x) ==
    /\ x.checked /\ x.enter => x.switchBack = x.begun
    /\ x.checked /\ ~x.enter => x.method = x.begun
    /\ x.preChecked = 1 => x.begun = x.method /\ ~x.checked

\* What the pre-check leaves alone.
SetsUp(s, e) ==
    /\ e \in PassState
    /\ e.t.running = s.t.running /\ e.t.enter /\ ~e.t.paused /\ e.t.pausing = 0
    /\ ~e.t.completed /\ MethodInv(e.t)

\* The record of a pre-check that is passed.
LEMMA LoadedType ==
    ASSUME NEW x \in TimerState, NEW m \in Methods, NEW n \in 0 .. 3
    PROVE  [x EXCEPT !.switchBack = m, !.checked = TRUE, !.preChecked = n] \in TimerState
  BY ZenonT(60) DEF TimerState

\* The record of a run that starts.
LEMMA StartedType ==
    ASSUME NEW x \in TimerState, NEW l \in BOOLEAN, NEW u \in BOOLEAN
    PROVE  [x EXCEPT !.preChecked = 0, !.run_state = "DELAY", !.photos = 0, !.exps = 0,
                     !.infinitePhotos = u, !.shots = 0, !.lastShots = 0,
                     !.lost = l, !.swapped = FALSE] \in TimerState
<1>1. /\ 0 \in 0 .. (PhotoModulus - 1) /\ 0 \in 0 .. 3 /\ 0 \in 0 .. 255 /\ 0 \in Nat
      /\ "DELAY" \in RunStates
  BY PassesAssumption DEF RunStates
<1> QED
  BY <1>1, ZenonT(60) DEF TimerState

\* The pre-check: the run is on already, it is held up, or it starts.
LEMMA SetupWorks ==
    ASSUME prog \in Programs, NEW s \in PassState, ~s.ret, NEW in,
           NEW cancel \in BOOLEAN,
           MethodInv(s.t), s.t.preChecked > 0 => s.t.enter
    PROVE  LET e == Setup(s, in, cancel)
           IN  IF cancel \/ (s.t.enter /\ s.t.preChecked = 0) THEN e = s
               ELSE /\ SetsUp(s, e)
                    /\ \/ /\ e.ret /\ e.t.preChecked \in {1, 2, 3}
                          /\ e.t.photos = s.t.photos /\ e.t.swapped = s.t.swapped
                       \/ /\ ~e.ret /\ e.t.preChecked = 0
                          /\ e.t.photos = 0 /\ e.t.swapped = FALSE
                          /\ e.t.run_state = "DELAY" /\ PassInv(e)
<1> DEFINE p == s.t.preChecked
           asks == s.alert \/ (p = 0 /\ in.alert)
           pre == IF p = 0 THEN 1 ELSE p
           begun == IF p = 0 THEN s.t.method ELSE s.t.begun
           kept == p > 0 /\ s.t.checked
           x == [s.t EXCEPT !.enter = TRUE, !.paused = FALSE, !.pausing = 0,
                             !.usingUSB = s.cam.ready, !.preChecked = pre,
                             !.begun = begun, !.checked = kept, !.completed = FALSE]
           first == [s EXCEPT !.alert = asks, !.t = x]
           targets == prog.ramp /\ prog.night /\ s.t.method = "auto"
           nxt == IF targets THEN 2 ELSE 3
           y == [first.t EXCEPT !.switchBack = s.t.method, !.checked = TRUE,
                                !.preChecked = nxt]
           loaded == IF first.t.preChecked = 1 THEN [first EXCEPT !.t = y] ELSE first
           lost == prog.usb /\ ~s.cam.ready
           endless == Unlimited
           z == [loaded.t EXCEPT !.preChecked = 0, !.run_state = "DELAY",
                                 !.photos = 0, !.exps = 0, !.infinitePhotos = endless,
                                 !.shots = 0, !.lastShots = 0,
                                 !.lost = lost, !.swapped = FALSE]
           started == [loaded EXCEPT !.bulb = FALSE, !.t = z]
           e == Setup(s, in, cancel)
<1>1. CASE cancel \/ (s.t.enter /\ p = 0)
  BY <1>1 DEF Setup
<1>2. CASE ~(cancel \/ (s.t.enter /\ p = 0))
  <2>0. /\ s.t \in TimerState /\ s.cam \in Camera /\ p \in 0 .. 3 /\ s.t.method \in Methods
        /\ s.t.begun \in Methods /\ s.cam.ready \in BOOLEAN
    BY DEF PassState, TimerState, Camera
  <2>1. e = IF asks THEN Return(first)
            ELSE IF loaded.t.preChecked < 3 THEN Return(loaded)
            ELSE started
    BY <1>2 DEF Setup
  <2>2. /\ asks \in BOOLEAN /\ kept \in BOOLEAN /\ lost \in BOOLEAN
        /\ endless \in BOOLEAN
    <3>1. asks \in BOOLEAN /\ kept \in BOOLEAN /\ lost \in BOOLEAN
      BY Zenon
    <3>2. prog.external \in BOOLEAN /\ (prog.photos = 0) \in BOOLEAN
      BY ProgramFacts DEF Program
    <3> QED
      BY <3>1, <3>2, Zenon DEF Unlimited
  <2>21. /\ pre \in 0 .. 3 /\ pre \in {1, 2, 3} /\ begun \in Methods
         /\ nxt \in 0 .. 3 /\ nxt \in {2, 3}
    BY <2>0
  <2>22. /\ kept => p > 0 /\ s.t.checked
         /\ ~lost => (prog.usb => s.cam.ready)
         /\ p = 0 => pre = 1 /\ begun = s.t.method
         /\ p > 0 => pre = p /\ begun = s.t.begun
    BY <2>0
  <2> HIDE DEF asks, lost, kept, pre, begun, nxt, endless
  <2>3. x \in TimerState
    BY <2>0, <2>2, <2>21, ZenonT(60) DEF TimerState
  <2>4. /\ x.enter = TRUE /\ x.paused = FALSE /\ x.pausing = 0 /\ x.completed = FALSE
        /\ x.preChecked = pre /\ x.begun = begun /\ x.checked = kept
    BY <2>0 DEF TimerState
  <2>5. /\ x.running = s.t.running /\ x.method = s.t.method /\ x.switchBack = s.t.switchBack
        /\ x.photos = s.t.photos /\ x.swapped = s.t.swapped
    BY <2>0 DEF TimerState
  <2> HIDE DEF x
  <2>6. MethodInv(x)
    <3>1. CASE p = 0
      <4>1. ~x.checked /\ x.begun = x.method
        BY <2>4, <2>5, <2>22, <3>1
      <4> QED
        BY <4>1 DEF MethodInv
    <3>2. CASE p > 0
      <4>1. /\ x.checked => s.t.checked
            /\ x.begun = s.t.begun /\ x.preChecked = s.t.preChecked
        BY <2>4, <2>22, <3>2
      <4> QED
        BY <2>4, <2>5, <3>2, <4>1 DEF MethodInv
    <3> QED
      BY <2>0, <3>1, <3>2
  <2>7. /\ first \in PassState /\ first.t = x /\ first.cam = s.cam /\ first.ret = s.ret
    BY <2>2, <2>3 DEF PassState
  <2> HIDE DEF first
  <2>8. /\ y \in TimerState /\ y.enter = TRUE /\ y.paused = FALSE /\ y.pausing = 0
        /\ y.completed = FALSE /\ y.preChecked \in {2, 3} /\ y.checked = TRUE
        /\ y.switchBack = s.t.method /\ y.begun = x.begun /\ y.running = x.running
        /\ y.photos = x.photos /\ y.swapped = x.swapped
    <3>1. first.t \in TimerState
      BY <2>3, <2>7
    <3>2. y \in TimerState
      BY <2>0, <2>21, <3>1, LoadedType
    <3>3. /\ y.enter = x.enter /\ y.paused = x.paused /\ y.pausing = x.pausing
          /\ y.completed = x.completed /\ y.preChecked = nxt /\ y.checked = TRUE
          /\ y.switchBack = s.t.method /\ y.begun = x.begun /\ y.running = x.running
          /\ y.photos = x.photos /\ y.swapped = x.swapped
      BY <2>3, <2>7 DEF TimerState
    <3> QED
      BY <2>4, <2>21, <3>2, <3>3
  <2> HIDE DEF y
  <2>9. x.preChecked = 1 => MethodInv(y)
    BY <2>0, <2>4, <2>5, <2>6, <2>8 DEF MethodInv
  <2>10. /\ loaded \in PassState /\ loaded.cam = s.cam /\ loaded.ret = s.ret
         /\ loaded.t \in TimerState /\ loaded.t.enter = TRUE /\ loaded.t.paused = FALSE
         /\ loaded.t.pausing = 0 /\ loaded.t.completed = FALSE
         /\ loaded.t.preChecked \in {2, 3} /\ MethodInv(loaded.t)
         /\ loaded.t.running = s.t.running /\ loaded.t.photos = s.t.photos
         /\ loaded.t.swapped = s.t.swapped
    <3>1. CASE x.preChecked = 1
      <4>1. loaded = [first EXCEPT !.t = y]
        BY <2>7, <3>1
      <4>2. loaded \in PassState /\ loaded.t = y /\ loaded.cam = first.cam /\ loaded.ret = first.ret
        BY <2>7, <2>8, <4>1 DEF PassState
      <4> QED
        BY <2>5, <2>7, <2>8, <2>9, <3>1, <4>2
    <3>2. CASE x.preChecked # 1
      <4>1. loaded = first /\ x.preChecked \in {2, 3}
        BY <2>4, <2>7, <2>21, <3>2
      <4> QED
        BY <2>3, <2>4, <2>5, <2>6, <2>7, <4>1
    <3> QED
      BY <3>1, <3>2
  <2> HIDE DEF loaded
  <2>11. z \in TimerState
    BY <2>2, <2>10, StartedType, ZenonT(60)
  <2>12. /\ z.enter = loaded.t.enter /\ z.paused = loaded.t.paused /\ z.pausing = loaded.t.pausing
         /\ z.completed = loaded.t.completed /\ z.running = loaded.t.running
         /\ z.method = loaded.t.method /\ z.switchBack = loaded.t.switchBack
         /\ z.begun = loaded.t.begun /\ z.checked = loaded.t.checked
    BY <2>10 DEF TimerState
  <2>13. /\ z.preChecked = 0 /\ z.run_state = "DELAY" /\ z.photos = 0 /\ z.exps = 0
         /\ z.infinitePhotos = endless /\ z.shots = 0 /\ z.lost = lost /\ z.swapped = FALSE
    BY <2>10 DEF TimerState
  <2> HIDE DEF z
  <2>14. started \in PassState /\ started.t = z /\ started.cam = s.cam /\ started.ret = s.ret
    BY <2>10, <2>11 DEF PassState
  <2> HIDE DEF started
  <2>15. MethodInv(z)
    BY <2>10, <2>12, <2>13 DEF MethodInv
  <2>16. PassInv(started)
    <3>1. CountInv(z)
      BY <2>13, ProgramFacts DEF CountInv, endless
    <3>2. HdrInv(z, s.cam)
      BY <2>13, <2>22, ProgramFacts DEF HdrInv, Exposed
    <3> QED
      BY <2>13, <2>14, <3>1, <3>2 DEF PassInv, RunInv
  <2>17. /\ Return(first) \in PassState /\ Return(first).t = first.t /\ Return(first).ret
         /\ Return(first).cam = first.cam
         /\ Return(loaded) \in PassState /\ Return(loaded).t = loaded.t /\ Return(loaded).ret
         /\ Return(loaded).cam = loaded.cam
    BY <2>7, <2>10 DEF PassState, Return
  <2> HIDE DEF e
  <2>18. CASE asks
    <3>1. e = Return(first) /\ x.preChecked \in {1, 2, 3}
      BY <2>1, <2>4, <2>18, <2>21
    <3> QED
      BY <1>2, <2>4, <2>5, <2>6, <2>7, <2>17, <3>1 DEF SetsUp, e
  <2>19. CASE ~asks /\ loaded.t.preChecked < 3
    <3>1. e = Return(loaded)
      BY <2>1, <2>19
    <3> QED
      BY <1>2, <2>10, <2>17, <3>1 DEF SetsUp, e
  <2>20. CASE ~asks /\ ~(loaded.t.preChecked < 3)
    <3>1. e = started
      BY <2>1, <2>20
    <3> QED
      BY <1>2, <2>10, <2>12, <2>13, <2>14, <2>15, <2>16, <3>1 DEF SetsUp, e
  <2> QED
    BY <2>18, <2>19, <2>20
<1> QED
  BY <1>1, <1>2

\* The end of a run gives back the method and leaves no trace of the run.
LEMMA EndWorks ==
    ASSUME NEW s \in PassState, NEW cancel \in BOOLEAN
    PROVE  LET e == End(s, cancel)
           IN  IF At(s, "END")
               THEN /\ e \in PassState
                    /\ ~e.t.enter /\ ~e.t.running /\ ~e.t.paused
                    /\ e.t.pausing = 0 /\ e.t.preChecked = 0
                    /\ e.t.completed = ~cancel /\ e.t.photos = s.t.photos
                    /\ e.t.swapped = s.t.swapped
                    /\ s.t.enter /\ MethodInv(s.t) => MethodInv(e.t)
               ELSE e = s
<1> DEFINE u == Enter(s)
           l == Leave(u.t)
           m == MethodAfter(s)
           c == ~cancel
           x == [l EXCEPT !.method = m, !.completed = c]
           f == [u EXCEPT !.t = x, !.ret = TRUE]
           e == End(s, cancel)
<1>1. CASE ~At(s, "END")
  BY <1>1 DEF End
<1>2. CASE At(s, "END")
  <2>1. e = f
    BY <1>2 DEF End
  <2>2. /\ u \in PassState /\ u.t \in TimerState
    BY MoveFields DEF Moves, RunStates, PassState
  <2>3. /\ u.t.photos = s.t.photos /\ u.t.swapped = s.t.swapped
        /\ u.t.checked = s.t.checked /\ u.t.begun = s.t.begun
    BY DEF Enter, PassState, TimerState
  <2>4. m \in Methods /\ m = s.t.switchBack /\ c \in BOOLEAN
    BY DEF MethodAfter, PassState, TimerState
  <2> HIDE DEF u, m
  <2>5. l \in TimerState
    <3>1. 0 \in Nat /\ 0 \in 0 .. 3
      OBVIOUS
    <3> QED
      BY <2>2, <3>1, ZenonT(60) DEF Leave, TimerState
  <2>6. /\ l.enter = FALSE /\ l.running = FALSE /\ l.paused = FALSE /\ l.pausing = 0
        /\ l.preChecked = 0 /\ l.photos = u.t.photos /\ l.swapped = u.t.swapped
        /\ l.checked = u.t.checked /\ l.begun = u.t.begun
    BY <2>2 DEF Leave, TimerState
  <2> HIDE DEF l, c
  <2>7. x \in TimerState
    BY <2>4, <2>5, ZenonT(60) DEF TimerState
  <2>8. /\ x.enter = l.enter /\ x.running = l.running /\ x.paused = l.paused
        /\ x.pausing = l.pausing /\ x.preChecked = l.preChecked
        /\ x.photos = l.photos /\ x.swapped = l.swapped /\ x.checked = l.checked
        /\ x.begun = l.begun /\ x.method = m /\ x.completed = c
    BY <2>5 DEF TimerState
  <2> HIDE DEF x
  <2>9. f \in PassState /\ f.t = x
    BY <2>2, <2>7 DEF PassState
  <2>10. s.t.enter /\ MethodInv(s.t) => MethodInv(x)
    BY <2>3, <2>4, <2>6, <2>8 DEF MethodInv
  <2> HIDE DEF e, f
  <2> QED
    BY <1>2, <2>1, <2>3, <2>6, <2>8, <2>9, <2>10 DEF e, c
<1> QED
  BY <1>1, <1>2

-----------------------------------------------------------------------------
(* The inductive invariant.                                                *)

\* A run is on: its pre-check is over.
Running(x) == x.enter /\ x.preChecked = 0

\* What holds between two passes.
TimerInv ==
    /\ TypeOK
    /\ MethodInv(t)
    /\ t.preChecked > 0 => t.enter
    /\ Running(t) => t.run_state # "END"
    /\ t.completed => ~t.enter
    /\ Finite /\ ~t.swapped /\ t.completed => t.photos \in Least .. Target
    /\ Running(t) => RunInv(t, cam)

\* The timer is off at power-up.
LEMMA TimerInit == Init => TimerInv
<1> SUFFICES ASSUME Init PROVE TimerInv
  OBVIOUS
<1>1. prog.method \in Methods /\ prog.usb \in BOOLEAN
  BY ProgramFacts DEF Init, Program
<1>2. /\ "DELAY" \in RunStates /\ "none" \in RunStates \cup {"none"} /\ "keyframe" \in Methods
      /\ 0 \in 0 .. (PhotoModulus - 1) /\ 0 \in 0 .. 255 /\ 0 \in 0 .. 3 /\ 0 \in Nat
      /\ 0 \in 0 .. (ErrorRetries + 1) /\ 0 \in 0 .. MaxFailures /\ 0 <= PausePasses + 1
  BY PassesAssumption DEF RunStates, Methods
<1>3. t \in TimerState
  BY <1>1, <1>2 DEF Init, TimerState
<1>4. TypeOK
  BY <1>1, <1>2, <1>3 DEF Init, TypeOK, Camera
<1> QED
  BY <1>4 DEF Init, TimerInv, MethodInv, Running

\* A pass starts with the state of the machine.
LEMMA PassFacts ==
    ASSUME TimerInv
    PROVE  /\ Pass \in PassState /\ ~Pass.ret
           /\ Pass.t = t /\ Pass.cam = cam /\ Pass.alert = alert
           /\ prog \in Programs /\ t \in TimerState /\ MethodInv(t)
           /\ t.pausing <= PausePasses + 1
           /\ Running(t) => PassInv(Pass)
<1>1. /\ Pass \in PassState /\ ~Pass.ret
      /\ Pass.t = t /\ Pass.cam = cam /\ Pass.alert = alert
  BY DEF TimerInv, TypeOK, Pass, PassState
<1> QED
  BY <1>1 DEF TimerInv, TypeOK, PassInv

\* The six ways a pass turns out: the run is paused,
Held(e) ==
    /\ Pauses(Pass, e) /\ e.t.paused
\* the run is held up by its pre-check,
Checks(e) ==
    /\ t.running /\ ~Running(t)
    /\ SetsUp(Pass, e) /\ e.t.preChecked \in {1, 2, 3}
    /\ e.t.photos = t.photos /\ e.t.swapped = t.swapped
\* it starts,
Starts(e) ==
    /\ t.running /\ ~Running(t)
    /\ SetsUp(Pass, e) /\ e.t.preChecked = 0
    /\ e.t.photos = 0 /\ e.t.swapped = FALSE
    /\ e.t.run_state # "END" /\ RunInv(e.t, e.cam)
\* it goes on with at most one photo more,
GoesOn(e) ==
    /\ t.running /\ Running(t)
    /\ e.t.running /\ Running(e.t) /\ ~e.t.completed
    /\ e.t.swapped = t.swapped
    /\ e.t.photos \in {t.photos, (t.photos + 1) % PhotoModulus}
    /\ ~(t.paused /\ e.t.paused)
    /\ e.t.run_state # "END" /\ RunInv(e.t, e.cam)
\* or it ends:
Leaves(e) ==
    /\ t.enter /\ ~e.t.enter /\ ~e.t.running /\ ~e.t.paused /\ e.t.preChecked = 0
    /\ (e.t.completed <=> t.running)
    /\ e.t.swapped = t.swapped
\* the user has stopped it,
Stops(e) == ~t.running /\ Leaves(e) /\ e.t.photos = t.photos
\* or it has its photos.
Completes(e) ==
    /\ t.running /\ Running(t) /\ Leaves(e)
    /\ e.t.photos \in {t.photos, (t.photos + 1) % PhotoModulus}
    /\ Finite /\ ~t.swapped => e.t.photos \in Least .. Target

\* A pass, block by block.
LEMMA PassBlocks ==
    ASSUME NEW in
    PROVE  LET p == Pausing(Setup(Pass, in, ~t.running))
           IN  After(in) = End(States(Cancel(p, ~t.running), in), ~t.running)
  BY DEF After, States

\* A pass that has returned does nothing more.
LEMMA Returned ==
    ASSUME NEW s, s.ret, NEW in, NEW cancel
    PROVE  End(States(Cancel(s, cancel), in), cancel) = s
<1>1. Cancel(s, cancel) = s
  BY DEF Cancel
<1>2. States(s, in) = s
  BY StatesIdle
<1> QED
  BY <1>1, <1>2 DEF End, At

\* The user has stopped the run: it ends, unless it is paused.
LEMMA StoppedPass ==
    ASSUME TimerInv, NEW in, ~t.running, t.enter
    PROVE  LET e == After(in)
           IN  /\ e \in PassState /\ MethodInv(e.t) /\ e.t.pausing <= PausePasses + 1
               /\ Held(e) \/ Stops(e)
<1> DEFINE cancel == ~t.running
           p == Pausing(Pass)
           g == Goto(p, "END")
           e == After(in)
<1>0. cancel \in BOOLEAN /\ cancel
  OBVIOUS
<1>1. Setup(Pass, in, cancel) = Pass
  BY <1>0 DEF Setup
<1>2. e = End(States(Cancel(p, cancel), in), cancel)
  BY <1>1, PassBlocks
<1>3. /\ Pauses(Pass, p) /\ p.t.pausing <= PausePasses + 1 /\ p \in PassState
      /\ p.ret => p.t.paused
  BY PassFacts, PausingWorks DEF Pauses
<1>4. MethodInv(p.t) /\ p.t.enter
  BY <1>3, PassFacts DEF MethodInv, Pauses
<1> HIDE DEF p
<1>5. CASE p.ret
  <2>1. e = p
    BY <1>2, <1>5, Returned
  <2> QED
    BY <1>3, <1>4, <1>5, <2>1 DEF Held
<1>6. CASE ~p.ret
  <2>1. Cancel(p, cancel) = g
    BY <1>6 DEF Cancel
  <2>2. /\ Moves(p, g) /\ g.t.run_state = "END" /\ g.ret = p.ret /\ g \in PassState
    BY <1>3, MoveFields DEF RunStates, Moves
  <2> HIDE DEF g
  <2>3. States(g, in) = g
    BY <2>2, StatesIdle
  <2>4. e = End(g, cancel) /\ At(g, "END")
    BY <1>2, <1>6, <2>1, <2>2, <2>3 DEF At
  <2>5. g.t.enter /\ MethodInv(g.t)
    BY <1>4, <2>2 DEF Moves, Steady, MethodInv
  <2>6. /\ e \in PassState
        /\ ~e.t.enter /\ ~e.t.running /\ ~e.t.paused
        /\ e.t.pausing = 0 /\ e.t.preChecked = 0
        /\ e.t.completed = ~cancel /\ e.t.photos = g.t.photos
        /\ e.t.swapped = g.t.swapped /\ MethodInv(e.t)
    BY <1>0, <2>2, <2>4, <2>5, EndWorks
  <2>7. g.t.photos = t.photos /\ g.t.swapped = t.swapped
    BY <1>3, <2>2, PassFacts DEF Pauses, Moves, Steady, SameCounts
  <2>8. 0 <= PausePasses + 1
    BY PassesAssumption
  <2> HIDE DEF e
  <2>9. e.t.completed <=> t.running
    BY <2>6
  <2> QED
    BY <2>6, <2>7, <2>8, <2>9 DEF Stops, Leaves, e
<1> QED
  BY <1>5, <1>6

\* The block of the end in a pass of a run the user has not stopped.
LEMMA EndOfStates ==
    ASSUME TimerInv, NEW s, PassInv(s), MethodInv(s.t), s.t.enter, ~s.t.completed,
           s.t.pausing <= PausePasses + 1
    PROVE  LET e == End(s, FALSE)
           IN  /\ e \in PassState /\ MethodInv(e.t) /\ e.t.pausing <= PausePasses + 1
               /\ \/ e = s /\ s.t.run_state # "END"
                  \/ /\ s.t.run_state = "END"
                     /\ ~e.t.enter /\ ~e.t.running /\ ~e.t.paused /\ e.t.preChecked = 0
                     /\ e.t.completed /\ e.t.photos = s.t.photos
                     /\ e.t.swapped = s.t.swapped
<1> DEFINE e == End(s, FALSE)
<1>0. s \in PassState /\ FALSE \in BOOLEAN /\ 0 <= PausePasses + 1
  BY PassesAssumption DEF PassInv
<1>1. CASE At(s, "END")
  <2>1. /\ e \in PassState
        /\ ~e.t.enter /\ ~e.t.running /\ ~e.t.paused
        /\ e.t.pausing = 0 /\ e.t.preChecked = 0
        /\ e.t.completed = ~FALSE /\ e.t.photos = s.t.photos
        /\ e.t.swapped = s.t.swapped /\ MethodInv(e.t)
    BY <1>0, <1>1, EndWorks
  <2> QED
    BY <1>0, <1>1, <2>1 DEF At
<1>2. CASE ~At(s, "END")
  <2>1. e = s
    BY <1>2 DEF End
  <2>2. s.t.run_state # "END"
    BY <1>2 DEF At, PassInv
  <2> QED
    BY <1>0, <2>1, <2>2
<1> QED
  BY <1>1, <1>2

\* A pass before the run is on: it is checked, or starts.
LEMMA CheckingPass ==
    ASSUME TimerInv, NEW in \in Met, t.running, ~Running(t)
    PROVE  LET e == After(in)
           IN  /\ e \in PassState /\ MethodInv(e.t) /\ e.t.pausing <= PausePasses + 1
               /\ Checks(e) \/ Starts(e)
<1> DEFINE q == Setup(Pass, in, FALSE)
           w == States(q, in)
           e == After(in)
<1>0. /\ Pass \in PassState /\ ~Pass.ret /\ Pass.t = t /\ MethodInv(Pass.t) /\ prog \in Programs
      /\ Pass.t.preChecked > 0 => Pass.t.enter
  BY PassFacts DEF TimerInv
<1>1. ~(Pass.t.enter /\ Pass.t.preChecked = 0) /\ t.preChecked \in 0 .. 3
  BY <1>0 DEF Running, PassState, TimerState
<1>2. in.usb \in {"ok", "refused", "error"} /\ in.waited = FALSE
  <2>1. Fresh
    BY <1>0, <1>1 DEF Fresh, Running
  <2>2. in.waited \in {FALSE} \cup If(~Fresh, {TRUE})
    BY DEF Met
  <2>3. in.usb \in {"ok", "refused", "error"}
    BY DEF Met, If
  <2> QED
    BY <2>1, <2>2, <2>3 DEF If
<1>3. /\ SetsUp(Pass, q)
      /\ \/ /\ q.ret /\ q.t.preChecked \in {1, 2, 3}
            /\ q.t.photos = Pass.t.photos /\ q.t.swapped = Pass.t.swapped
         \/ /\ ~q.ret /\ q.t.preChecked = 0
            /\ q.t.photos = 0 /\ q.t.swapped = FALSE
            /\ q.t.run_state = "DELAY" /\ PassInv(q)
  BY <1>0, <1>1, SetupWorks
<1>31. 0 <= PausePasses + 1
  BY PassesAssumption
<1>4. (~t.running) = FALSE
  OBVIOUS
<1>5. e = End(States(Cancel(Pausing(q), FALSE), in), FALSE)
  BY <1>4, PassBlocks
<1> HIDE DEF q
<1>6. Pausing(q) = q
  BY <1>3 DEF Pausing, SetsUp
<1>7. Cancel(q, FALSE) = q
  BY DEF Cancel
<1>8. CASE q.ret
  <2>1. e = q
    BY <1>5, <1>6, <1>8, Returned
  <2> QED
    BY <1>0, <1>3, <1>31, <1>8, <2>1 DEF SetsUp, Checks
<1>9. CASE ~q.ret
  <2>1. PassInv(q) /\ q.t.run_state = "DELAY" /\ q.t.photos = 0
    BY <1>3, <1>9
  <2>2. Works(q, w) /\ PassInv(w) /\ w \in PassState
    BY <1>0, <1>2, <2>1, StatesWork DEF Works, PassInv
  <2>3. w.t.photos = 0 /\ w.t.run_state # "END"
    BY <1>0, <1>2, <2>1, FreshStates
  <2>4. e = End(w, FALSE)
    BY <1>5, <1>6, <1>7
  <2> HIDE DEF w
  <2>5. e = w
    BY <2>3, <2>4 DEF End, At
  <2>6. SetsUp(Pass, w) /\ w.t.preChecked = 0 /\ w.t.swapped = FALSE
    <3>1. MethodInv(w.t)
      BY <1>3, <2>2 DEF Works, Steady, SetsUp, MethodInv
    <3> QED
      BY <1>3, <1>9, <2>2, <3>1 DEF Works, Steady, SetsUp
  <2> QED
    BY <1>31, <2>2, <2>3, <2>5, <2>6 DEF Starts, SetsUp, PassInv
<1> QED
  BY <1>8, <1>9

\* A pass of a run that is on.
LEMMA RunningPass ==
    ASSUME TimerInv, NEW in \in Met, t.running, Running(t)
    PROVE  LET e == After(in)
           IN  /\ e \in PassState /\ MethodInv(e.t) /\ e.t.pausing <= PausePasses + 1
               /\ Held(e) \/ GoesOn(e) \/ Completes(e)
<1> DEFINE p == Pausing(Pass)
           w == States(p, in)
           e == After(in)
<1>0. /\ Pass \in PassState /\ ~Pass.ret /\ Pass.t = t /\ Pass.cam = cam /\ MethodInv(t)
      /\ prog \in Programs /\ PassInv(Pass) /\ t.run_state # "END" /\ ~t.completed
      /\ t.pausing <= PausePasses + 1
  BY PassFacts DEF TimerInv, Running
<1>1. in.usb \in {"ok", "refused", "error"}
  BY DEF Met, If
<1>2. Setup(Pass, in, FALSE) = Pass
  BY <1>0 DEF Setup, Running
<1>3. (~t.running) = FALSE
  OBVIOUS
<1>4. e = End(States(Cancel(p, FALSE), in), FALSE)
  BY <1>2, <1>3, PassBlocks
<1>5. /\ Pauses(Pass, p) /\ p.t.pausing <= PausePasses + 1 /\ p \in PassState
      /\ t.paused /\ p.t.paused => p.ret
      /\ p.ret => p.t.paused
  BY <1>0, PausingWorks DEF Pauses
<1> HIDE DEF p
<1>6. Cancel(p, FALSE) = p
  BY DEF Cancel
<1>7. PassInv(p)
  <2>1. RunInv(p.t, p.cam)
    BY <1>0, <1>5, PausesKeep DEF PassInv
  <2> QED
    BY <1>0, <1>5, <2>1 DEF PassInv, Pauses
<1>8. MethodInv(p.t) /\ p.t.enter /\ p.t.preChecked = 0 /\ ~p.t.completed /\ p.t.running
      /\ p.t.swapped = t.swapped /\ p.t.photos = t.photos
  BY <1>0, <1>5 DEF MethodInv, Pauses, Running, SameCounts
<1>9. CASE p.ret
  <2>1. e = p
    BY <1>4, <1>9, Returned
  <2> QED
    BY <1>5, <1>8, <1>9, <2>1 DEF Held
<1>10. CASE ~p.ret
  <2>1. /\ Works(p, w) /\ PassInv(w) /\ w \in PassState
        /\ w.t.photos \in {t.photos, (t.photos + 1) % PhotoModulus}
    BY <1>0, <1>1, <1>7, <1>8, StatesWork DEF Works, PassInv
  <2>2. e = End(w, FALSE)
    BY <1>4, <1>6
  <2> HIDE DEF w
  <2>3. /\ MethodInv(w.t) /\ w.t.enter /\ w.t.preChecked = 0 /\ ~w.t.completed /\ w.t.running
        /\ w.t.swapped = t.swapped /\ w.t.pausing <= PausePasses + 1
        /\ w.t.paused = p.t.paused
    BY <1>5, <1>8, <2>1 DEF Works, Steady, MethodInv
  <2>4. /\ e \in PassState /\ MethodInv(e.t) /\ e.t.pausing <= PausePasses + 1
        /\ \/ e = w /\ w.t.run_state # "END"
           \/ /\ w.t.run_state = "END"
              /\ ~e.t.enter /\ ~e.t.running /\ ~e.t.paused /\ e.t.preChecked = 0
              /\ e.t.completed /\ e.t.photos = w.t.photos
              /\ e.t.swapped = w.t.swapped
    BY <2>1, <2>2, <2>3, EndOfStates
  <2> HIDE DEF e
  <2>5. CASE e = w /\ w.t.run_state # "END"
    <3>1. GoesOn(e)
      BY <1>5, <1>10, <2>1, <2>3, <2>5 DEF GoesOn, Running, PassInv
    <3> QED
      BY <2>4, <3>1 DEF e
  <2>6. CASE e # w \/ w.t.run_state = "END"
    <3>1. /\ w.t.run_state = "END"
          /\ ~e.t.enter /\ ~e.t.running /\ ~e.t.paused /\ e.t.preChecked = 0
          /\ e.t.completed /\ e.t.photos = w.t.photos
          /\ e.t.swapped = w.t.swapped
      BY <2>4, <2>6
    <3>2. Finite /\ ~t.swapped => w.t.photos \in Least .. Target
      BY <2>1, <2>3, <3>1 DEF PassInv, RunInv, CountInv
    <3>3. Leaves(e)
      BY <2>3, <3>1 DEF Leaves, Running
    <3>4. Completes(e)
      BY <2>1, <3>1, <3>2, <3>3 DEF Completes
    <3> QED
      BY <2>4, <3>4 DEF e
  <2> QED
    BY <2>5, <2>6
<1> QED
  BY <1>9, <1>10

\* A pass turns out in one of six ways.
LEMMA PassOutcome ==
    ASSUME TimerInv, NEW in \in Met, t.running \/ t.enter
    PROVE  LET e == After(in)
           IN  /\ e \in PassState /\ MethodInv(e.t) /\ e.t.pausing <= PausePasses + 1
               /\ \/ Held(e) \/ Checks(e) \/ Starts(e)
                  \/ GoesOn(e) \/ Stops(e) \/ Completes(e)
  BY StoppedPass, CheckingPass, RunningPass

\* The invariant of a run is about the program, which a pass leaves alone.
LEMMA SameProgram ==
    ASSUME prog' = prog
    PROVE  /\ Finite' = Finite /\ Target' = Target /\ Least' = Least
           /\ RunInv(t', cam') => RunInv(t, cam)'
<1>1. Finite' = Finite /\ Target' = Target /\ Least' = Least
  BY DEF Finite, Target, Least
<1> QED
  BY <1>1 DEF RunInv, CountInv, HdrInv, Exposed, Unlimited

\* The type of the state after a pass.
LEMMA TaskTypes ==
    ASSUME TimerInv, NEW in \in Met, Task(in)
    PROVE  /\ TypeOK' /\ MethodInv(t)' /\ After(in) \in PassState
           /\ t' = After(in).t /\ cam' = After(in).cam /\ prog' = prog
           /\ LET e == After(in)
              IN  \/ Held(e) \/ Checks(e) \/ Starts(e)
                  \/ GoesOn(e) \/ Stops(e) \/ Completes(e)
<1> DEFINE e == After(in)
<1>1. /\ t' = e.t /\ cam' = e.cam /\ bulbRunning' = e.bulb
      /\ alert' = e.alert /\ prog' = prog
      /\ fails' = IF in.usb = "ok" THEN fails ELSE fails + 1
  BY DEF Task
<1>2. /\ e \in PassState /\ MethodInv(e.t) /\ e.t.pausing <= PausePasses + 1
      /\ \/ Held(e) \/ Checks(e) \/ Starts(e)
         \/ GoesOn(e) \/ Stops(e) \/ Completes(e)
  BY <1>1, PassOutcome DEF Task
<1> HIDE DEF e
<1>3. in.usb # "ok" => fails < MaxFailures
  <2>1. in.usb \in {"ok"} \cup If(/\ prog.usb /\ fails < MaxFailures
                                  /\ t.run_state \notin {"NEXT", "GAP", "EXTERNAL", "RELEASE"},
                                  {"refused", "error"})
    BY DEF Met
  <2> QED
    BY <2>1 DEF If
<1>4. fails' \in 0 .. MaxFailures
  BY <1>1, <1>3, PassesAssumption DEF TimerInv, TypeOK
<1>5. TypeOK'
  BY <1>1, <1>2, <1>4 DEF TimerInv, TypeOK, PassState
<1>6. MethodInv(t)'
  BY <1>1, <1>2 DEF MethodInv
<1> QED
  BY <1>1, <1>2, <1>5, <1>6 DEF e

\* A pass keeps the invariant.
LEMMA TaskKeeps ==
    ASSUME TimerInv, NEW in \in Met, Task(in)
    PROVE  TimerInv'
<1> DEFINE e == After(in)
<1>1. /\ TypeOK' /\ MethodInv(t)' /\ e \in PassState
      /\ t' = e.t /\ cam' = e.cam /\ prog' = prog
      /\ \/ Held(e) \/ Checks(e) \/ Starts(e)
         \/ GoesOn(e) \/ Stops(e) \/ Completes(e)
  BY TaskTypes
<1> HIDE DEF e
<1>2. /\ Finite' = Finite /\ Target' = Target /\ Least' = Least
      /\ RunInv(t', cam') => RunInv(t, cam)'
  BY <1>1, SameProgram
<1>3. CASE Held(e)
  <2>1. /\ Pauses(Pass, e) /\ Pass.t = t /\ Pass.cam = cam
        /\ RunInv(t, cam) => RunInv(e.t, e.cam)
    BY <1>3, PassFacts, PausesKeep DEF Held
  <2>2. /\ t'.enter = t.enter /\ t'.preChecked = t.preChecked /\ t'.run_state = t.run_state
        /\ t'.completed = t.completed /\ t'.photos = t.photos /\ t'.swapped = t.swapped
    BY <1>1, <2>1 DEF Pauses, SameCounts
  <2>3. Running(t)' => RunInv(t, cam)'
    BY <1>1, <1>2, <2>1, <2>2 DEF TimerInv, Running
  <2> QED
    BY <1>1, <1>2, <2>2, <2>3 DEF TimerInv, Running
<1>4. CASE Checks(e)
  BY <1>1, <1>4 DEF TimerInv, Running, Checks, SetsUp
<1>5. CASE Starts(e) \/ GoesOn(e)
  <2>1. /\ t'.enter /\ t'.preChecked = 0 /\ ~t'.completed /\ t'.run_state # "END"
        /\ RunInv(t', cam')
    BY <1>1, <1>5 DEF Starts, GoesOn, SetsUp, Running
  <2> QED
    BY <1>1, <1>2, <2>1 DEF TimerInv, Running
<1>6. CASE Stops(e)
  <2>1. /\ ~t'.enter /\ t'.preChecked = 0 /\ ~t'.completed
    BY <1>1, <1>6 DEF Stops, Leaves
  <2> QED
    BY <1>1, <2>1 DEF TimerInv, Running
<1>7. CASE Completes(e)
  <2>1. /\ ~t'.enter /\ t'.preChecked = 0 /\ t'.swapped = t.swapped
        /\ Finite /\ ~t.swapped => t'.photos \in Least .. Target
    BY <1>1, <1>7 DEF Completes, Leaves
  <2> QED
    BY <1>1, <1>2, <2>1 DEF TimerInv, Running
<1> QED
  BY <1>1, <1>3, <1>4, <1>5, <1>6, <1>7

-----------------------------------------------------------------------------
(* Between two passes.                                                     *)

\* A step that changes nothing the invariant of a run looks at.
LEMMA QuietStep ==
    ASSUME TimerInv, TypeOK', prog' = prog,
           t'.enter = t.enter, t'.run_state = t.run_state, t'.completed = t.completed,
           t'.infinitePhotos = t.infinitePhotos, SameCounts(t, t'),
           t'.old_state = t.old_state, t'.swapped = t.swapped,
           t'.preChecked = t.preChecked,
           \/ t'.lost
           \/ t'.lost = t.lost /\ (cam.ready => cam'.ready),
           MethodInv(t)'
    PROVE  TimerInv'
<1>1. /\ Finite' = Finite /\ Target' = Target /\ Least' = Least
      /\ RunInv(t', cam') => RunInv(t, cam)'
  BY SameProgram
<1>2. CountInv(t) => CountInv(t')
  BY DEF CountInv, SameCounts
<1>3. HdrInv(t, cam) => HdrInv(t', cam')
  BY DEF HdrInv, SameCounts, Exposed
<1>4. RunInv(t, cam) => RunInv(t', cam')
  BY <1>2, <1>3 DEF RunInv, SameCounts
<1> QED
  BY <1>1, <1>4 DEF TimerInv, Running, SameCounts

\* What a handler between two passes leaves alone.
LEMMA SetKeeps ==
    ASSUME TimerInv, NEW x \in TimerState, Set(x), x.pausing <= PausePasses + 1,
           x.enter = t.enter, x.run_state = t.run_state, x.completed = t.completed,
           x.infinitePhotos = t.infinitePhotos, SameCounts(t, x),
           x.old_state = t.old_state, x.swapped = t.swapped, x.lost = t.lost,
           x.preChecked = t.preChecked, x.checked = t.checked, x.begun = t.begun,
           x.switchBack = t.switchBack, x.method = t.method \/ Running(t)
    PROVE  TimerInv'
<1>1. t' = x /\ cam' = cam /\ prog' = prog
  BY DEF Set, Environment
<1>2. TypeOK'
  BY <1>1 DEF TimerInv, TypeOK, Set, Environment
<1>3. MethodInv(t)'
  BY <1>1 DEF TimerInv, MethodInv, Running
<1> QED
  BY <1>1, <1>2, <1>3, QuietStep DEF SameCounts

\* shutter::begin, at any time.
LEMMA BeginKeeps == ASSUME TimerInv, Begin PROVE TimerInv'
<1> DEFINE x == [t EXCEPT !.running = TRUE, !.paused = FALSE, !.pausing = 0]
<1>1. t \in TimerState /\ 0 <= PausePasses + 1
  BY PassesAssumption DEF TimerInv, TypeOK
<1>2. x \in TimerState /\ x.pausing = 0
  BY <1>1, ZenonT(60) DEF TimerState
<1>3. /\ x.enter = t.enter /\ x.run_state = t.run_state /\ x.completed = t.completed
      /\ x.infinitePhotos = t.infinitePhotos /\ SameCounts(t, x)
      /\ x.old_state = t.old_state /\ x.swapped = t.swapped /\ x.lost = t.lost
      /\ x.preChecked = t.preChecked /\ x.checked = t.checked /\ x.begun = t.begun
      /\ x.switchBack = t.switchBack /\ x.method = t.method
  BY <1>1 DEF TimerState, SameCounts
<1>4. Set(x)
  BY DEF Begin
<1> HIDE DEF x
<1> QED
  BY <1>1, <1>2, <1>3, <1>4, SetKeeps

\* timerStop.
LEMMA StopKeeps == ASSUME TimerInv, Stop PROVE TimerInv'
<1> DEFINE x == [t EXCEPT !.running = FALSE]
<1>1. t \in TimerState /\ t.pausing <= PausePasses + 1
  BY DEF TimerInv, TypeOK
<1>2. x \in TimerState /\ x.pausing = t.pausing
  BY <1>1, ZenonT(60) DEF TimerState
<1>3. /\ x.enter = t.enter /\ x.run_state = t.run_state /\ x.completed = t.completed
      /\ x.infinitePhotos = t.infinitePhotos /\ SameCounts(t, x)
      /\ x.old_state = t.old_state /\ x.swapped = t.swapped /\ x.lost = t.lost
      /\ x.preChecked = t.preChecked /\ x.checked = t.checked /\ x.begun = t.begun
      /\ x.switchBack = t.switchBack /\ x.method = t.method
  BY <1>1 DEF TimerState, SameCounts
<1>4. Set(x)
  BY DEF Stop
<1> HIDE DEF x
<1> QED
  BY <1>1, <1>2, <1>3, <1>4, SetKeeps

\* Pausing and resuming.
LEMMA PauseKeyKeeps == ASSUME TimerInv, PauseKey PROVE TimerInv'
<1> DEFINE pause == [t EXCEPT !.pausing = 1]
           resume == [t EXCEPT !.pausing = 1, !.paused = TRUE]
<1>1. t \in TimerState /\ t.pausing <= PausePasses + 1 /\ 1 <= PausePasses + 1
  BY PassesAssumption DEF TimerInv, TypeOK
<1>2. Set(IF t.paused THEN Resume(t) ELSE pause)
  BY DEF PauseKey
<1>3. PICK x \in {t, pause, resume} : Set(x)
  BY <1>2 DEF Resume
<1>4. x \in TimerState /\ x.pausing \in {1, t.pausing}
  <2>1. pause \in TimerState /\ pause.pausing = 1
    BY <1>1 DEF TimerState
  <2>2. resume \in TimerState /\ resume.pausing = 1
    BY <1>1, ZenonT(60) DEF TimerState
  <2> QED
    BY <1>1, <2>1, <2>2
<1>5. /\ x.enter = t.enter /\ x.run_state = t.run_state /\ x.completed = t.completed
      /\ x.infinitePhotos = t.infinitePhotos /\ SameCounts(t, x)
      /\ x.old_state = t.old_state /\ x.swapped = t.swapped /\ x.lost = t.lost
      /\ x.preChecked = t.preChecked /\ x.checked = t.checked /\ x.begun = t.begun
      /\ x.switchBack = t.switchBack /\ x.method = t.method
  BY <1>1 DEF TimerState, SameCounts
<1> QED
  BY <1>1, <1>3, <1>4, <1>5, SetKeeps

\* Another ramp method during the run.
LEMMA SwitchKeeps ==
    ASSUME TimerInv, NEW method \in Methods, SwitchMethod(method)
    PROVE  TimerInv'
<1> DEFINE x == [t EXCEPT !.method = method]
<1>1. t \in TimerState /\ t.pausing <= PausePasses + 1
  BY DEF TimerInv, TypeOK
<1>2. x \in TimerState /\ x.pausing = t.pausing
  BY <1>1 DEF TimerState
<1>3. /\ x.enter = t.enter /\ x.run_state = t.run_state /\ x.completed = t.completed
      /\ x.infinitePhotos = t.infinitePhotos /\ SameCounts(t, x)
      /\ x.old_state = t.old_state /\ x.swapped = t.swapped /\ x.lost = t.lost
      /\ x.preChecked = t.preChecked /\ x.checked = t.checked /\ x.begun = t.begun
      /\ x.switchBack = t.switchBack
  BY <1>1 DEF TimerState, SameCounts
<1>4. Set(x) /\ Running(t)
  BY DEF SwitchMethod, Running
<1> HIDE DEF x
<1> QED
  BY <1>1, <1>2, <1>3, <1>4, SetKeeps

\* Confirming the target does not start the run: the next pass does.
LEMMA ConfirmKeeps == ASSUME TimerInv, ConfirmTarget PROVE TimerInv'
<1> DEFINE x == [t EXCEPT !.preChecked = 3]
<1>1. t \in TimerState /\ t.pausing <= PausePasses + 1 /\ t.preChecked \in 1 .. 2 /\ 3 \in 0 .. 3
  BY DEF TimerInv, TypeOK, ConfirmTarget
<1>2. x \in TimerState /\ x.pausing = t.pausing /\ x.preChecked = 3
  BY <1>1 DEF TimerState
<1>3. /\ x.enter = t.enter /\ x.checked = t.checked /\ x.begun = t.begun
      /\ x.switchBack = t.switchBack /\ x.method = t.method /\ x.completed = t.completed
  BY <1>1 DEF TimerState
<1>4. t' = x /\ cam' = cam /\ prog' = prog
  BY DEF ConfirmTarget, Set, Environment
<1> HIDE DEF x
<1>5. TypeOK'
  BY <1>1, <1>2, <1>4 DEF TimerInv, TypeOK, ConfirmTarget, Set, Environment
<1>6. MethodInv(t)'
  BY <1>1, <1>2, <1>3, <1>4 DEF TimerInv, MethodInv
<1> QED
  BY <1>1, <1>2, <1>3, <1>4, <1>5, <1>6 DEF TimerInv, Running

\* A replaced program ends the promises about the run it comes into.
LEMMA ReplaceKeeps ==
    ASSUME TimerInv, NEW program \in Programs, NEW infinite \in BOOLEAN,
           Replace(program, infinite)
    PROVE  TimerInv'
<1> DEFINE m == program.method
           i == infinite /\ t.enter
           x == [t EXCEPT !.method = m, !.begun = m, !.infinitePhotos = i,
                          !.completed = FALSE, !.checked = FALSE, !.swapped = t.enter]
<1>1. /\ t \in TimerState /\ t.pausing <= PausePasses + 1 /\ t.enter \in BOOLEAN
      /\ m \in Methods /\ i \in BOOLEAN
  <2>1. i \in BOOLEAN
    BY Zenon
  <2> QED
    BY <2>1, ProgramAssumption DEF TimerInv, TypeOK, TimerState, Program
<1> HIDE DEF m, i
<1>2. x \in TimerState
  BY <1>1, ZenonT(60) DEF TimerState
<1>3. /\ x.method = m /\ x.begun = m /\ x.completed = FALSE /\ x.checked = FALSE
      /\ x.swapped = t.enter /\ x.enter = t.enter /\ x.preChecked = t.preChecked
      /\ x.run_state = t.run_state /\ x.exps = t.exps /\ x.pausing = t.pausing
  BY <1>1 DEF TimerState
<1>4. t' = x /\ cam' = cam /\ prog' = program
  BY DEF Replace, m, i
<1> HIDE DEF x
<1>5. TypeOK'
  BY <1>1, <1>2, <1>3, <1>4 DEF TimerInv, TypeOK, Replace
<1>6. MethodInv(t)'
  BY <1>3, <1>4 DEF MethodInv
<1>7. Running(t)' => RunInv(t, cam)'
  BY <1>3, <1>4 DEF TimerInv, Running, RunInv, Between
<1> QED
  BY <1>3, <1>4, <1>5, <1>6, <1>7 DEF TimerInv, Running

\* The interrupt, the alert and the camera leave the run alone, but for the
\* history of a camera lost.
LEMMA OutsideKeeps ==
    ASSUME TimerInv,
           Dismiss \/ BulbEnds \/ CameraReturns \/ CameraIdle
             \/ \E lost \in BOOLEAN : CameraFails(lost)
    PROVE  TimerInv'
<1>0. t \in TimerState /\ cam \in Camera
  BY DEF TimerInv, TypeOK
<1>1. CASE Dismiss \/ BulbEnds \/ CameraReturns \/ CameraIdle
  <2>1. t' = t /\ prog' = prog
    BY <1>1 DEF Dismiss, BulbEnds, CameraReturns, CameraIdle, Environment
  <2>2. cam' \in Camera /\ (cam.ready => cam'.ready)
    BY <1>0, <1>1 DEF Dismiss, BulbEnds, CameraReturns, CameraIdle, Camera
  <2>3. TypeOK'
    BY <1>1, <2>1, <2>2 DEF Dismiss, BulbEnds, CameraReturns, CameraIdle, Environment,
                            TimerInv, TypeOK
  <2>4. MethodInv(t)'
    BY <2>1 DEF TimerInv, MethodInv
  <2> QED
    BY <2>1, <2>2, <2>3, <2>4, QuietStep DEF SameCounts
<1>2. ASSUME NEW lost \in BOOLEAN, CameraFails(lost) PROVE TimerInv'
  <2> DEFINE gone == [t EXCEPT !.lost = TRUE]
  <2>1. /\ cam' = IF lost THEN [cam EXCEPT !.ready = FALSE, !.busy = FALSE]
                  ELSE [cam EXCEPT !.error = TRUE]
        /\ t' = IF lost THEN gone ELSE t
        /\ fails' = IF cam.error THEN fails ELSE fails + 1
        /\ prog' = prog /\ bulbRunning' = bulbRunning /\ alert' = alert
    BY <1>2 DEF CameraFails
  <2>2. cam' \in Camera /\ (lost \/ cam'.ready = cam.ready)
    BY <1>0, <2>1 DEF Camera
  <2>3. fails' \in 0 .. MaxFailures
    BY <1>2, <2>1, PassesAssumption DEF CameraFails, TimerInv, TypeOK
  <2>4. gone \in TimerState
    BY <1>0, ZenonT(60) DEF TimerState
  <2>5. LET x == gone
        IN  /\ x.enter = t.enter /\ x.run_state = t.run_state /\ x.completed = t.completed
            /\ x.infinitePhotos = t.infinitePhotos /\ SameCounts(t, x)
            /\ x.old_state = t.old_state /\ x.swapped = t.swapped
            /\ x.preChecked = t.preChecked /\ x.checked = t.checked /\ x.begun = t.begun
            /\ x.switchBack = t.switchBack /\ x.method = t.method
            /\ x.pausing = t.pausing /\ x.lost = TRUE
    BY <1>0 DEF TimerState, SameCounts
  <2> HIDE DEF gone
  <2>6. t' \in TimerState /\ t'.pausing = t.pausing
    BY <1>0, <2>1, <2>4, <2>5
  <2>7. TypeOK'
    BY <2>1, <2>2, <2>3, <2>6 DEF TimerInv, TypeOK
  <2>8. MethodInv(t)'
    BY <2>1, <2>5 DEF TimerInv, MethodInv
  <2>9. SameCounts(t, t')
    BY <2>1, <2>5 DEF SameCounts
  <2> QED
    BY <2>1, <2>2, <2>5, <2>7, <2>8, <2>9, QuietStep
<1> QED
  BY <1>1, <1>2

\* Every step keeps the invariant.
LEMMA TimerNext == TimerInv /\ [Next]_vars => TimerInv'
<1> SUFFICES ASSUME TimerInv, [Next]_vars PROVE TimerInv'
  OBVIOUS
<1>1. CASE UNCHANGED vars
  BY <1>1 DEF vars, TimerInv, TypeOK, MethodInv, Running, RunInv, CountInv, HdrInv, Exposed,
              Finite, Target, Least, Unlimited
<1>2. CASE \E in \in Met : Task(in)
  BY <1>2, TaskKeeps
<1>3. CASE User
  BY <1>3, BeginKeeps, StopKeeps, PauseKeyKeeps, SwitchKeeps, ConfirmKeeps, ReplaceKeeps,
     OutsideKeeps DEF User, Load, RemoteProgram
<1>4. CASE BulbEnds \/ CameraReturns \/ CameraIdle \/ \E lost \in BOOLEAN : CameraFails(lost)
  BY <1>4, OutsideKeeps
<1> QED
  BY <1>1, <1>2, <1>3, <1>4 DEF Next

\* The inductive invariant of the intervalometer holds.
THEOREM TimerInvariant == Spec => []TimerInv
<1>1. Init => TimerInv
  BY TimerInit
<1>2. TimerInv /\ [Next]_vars => TimerInv'
  BY TimerNext
<1> QED
  BY <1>1, <1>2, PTL DEF Spec

\* The counters of task() stay within their types: the exposures of a set in a
\* byte, the resume's countdown within its passes.
THEOREM TimerTypeCorrect == Spec => []TypeOK
<1>1. TimerInv => TypeOK
  BY DEF TimerInv
<1> QED
  BY <1>1, TimerInvariant, PTL

\* A run that ends by itself has counted the photos asked for, and none counts
\* more, whatever is refused, lost, stopped, paused and begun again.
THEOREM RunsCountTheirPhotos == Spec => []CountsItsPhotos
<1>1. TimerInv => CountsItsPhotos
  BY DEF TimerInv, CountsItsPhotos, Running, RunInv, CountInv
<1> QED
  BY <1>1, TimerInvariant, PTL

\* Every photo of an HDR run of bulb exposures has its full set.
THEOREM SetsAreComplete == Spec => []HdrSetComplete
<1>1. TimerInv => HdrSetComplete
  BY DEF TimerInv, HdrSetComplete, Running, RunInv, HdrInv
<1> QED
  BY <1>1, TimerInvariant, PTL

\* The ramp method is given back at the end of the run.
THEOREM MethodsAreRestored == Spec => []MethodRestored
<1>1. TimerInv => MethodRestored
  BY DEF TimerInv, MethodRestored, MethodInv
<1> QED
  BY <1>1, TimerInvariant, PTL

-----------------------------------------------------------------------------
(* The intervalometer implements what its user is promised.                *)

\* The refinement mapping of mode and most.
Mode(x) == IF ~x.enter THEN "off" ELSE IF x.preChecked > 0 THEN "checking" ELSE "running"
Most == IF Finite THEN Target ELSE 0

\* The limits of the program in use.
LEMMA Limits ==
    ASSUME prog \in Programs
    PROVE  Most \in 0 .. (PhotoModulus - 1) /\ Least \in 0 .. Most
  BY ProgramFacts, PassesAssumption DEF Most, Least

\* Initial states map to initial states.
LEMMA PromiseInit == Init => Promise!Init
<1> SUFFICES ASSUME Init PROVE Promise!Init
  OBVIOUS
<1>1. Most \in 0 .. (PhotoModulus - 1) /\ Least \in 0 .. Most
  BY Limits DEF Init
<1> QED
  BY <1>1 DEF Init, Promise!Init, Most

\* A step that takes no photo and neither starts nor ends a run.
LEMMA Waits ==
    ASSUME TimerInv, TimerInv', t'.photos = t.photos, Mode(t') = Mode(t),
           Mode(t) = "running" /\ ~t'.swapped => ~t.swapped /\ prog' = prog
    PROVE  Promise!Wait
<1>1. (Most \in 0 .. (PhotoModulus - 1))' /\ (Least \in 0 .. Most)'
  <2>1. prog' \in Programs
    BY DEF TimerInv, TypeOK
  <2>2. prog' \in Program /\ prog'.photos < PhotoModulus /\ prog'.photos \in Nat
    BY <2>1, ProgramAssumption DEF Program
  <2>3. /\ Most' = IF Finite' THEN Target' ELSE 0
        /\ Least' = IF ~Finite' THEN 0 ELSE IF prog'.external /\ Target' > 3 THEN 3 ELSE Target'
    BY DEF Most, Least
  <2>4. Finite' => Target' \in 1 .. (PhotoModulus - 1)
    BY <2>2, PassesAssumption DEF Finite, Target
  <2>5. Most' \in 0 .. (PhotoModulus - 1)
    BY <2>3, <2>4, PassesAssumption
  <2>6. Least' \in 0 .. Most'
    BY <2>3, <2>4, PassesAssumption
  <2> QED
    BY <2>5, <2>6
<1>2. t'.running \in BOOLEAN /\ t'.paused \in BOOLEAN /\ (~t'.swapped) \in BOOLEAN
  BY DEF TimerInv, TypeOK, TimerState
<1>3. prog' = prog => Most' = Most /\ Least' = Least
  BY DEF Most, Least, Finite, Target
<1> QED
  BY <1>1, <1>2, <1>3 DEF Promise!Wait, Mode, Most

\* A pass waits, checks or starts a run, takes one photo or ends the run.
LEMMA TaskPromises ==
    ASSUME TimerInv, TimerInv', NEW in \in Met, Task(in)
    PROVE  Promise!Next
<1> DEFINE e == After(in)
<1>1. /\ e \in PassState /\ t' = e.t /\ cam' = e.cam /\ prog' = prog
      /\ \/ Held(e) \/ Checks(e) \/ Starts(e)
         \/ GoesOn(e) \/ Stops(e) \/ Completes(e)
  BY TaskTypes
<1> HIDE DEF e
<1>2. /\ Most' = Most /\ Least' = Least
  BY <1>1 DEF Most, Least, Finite, Target
<1>3. /\ t.enter \in BOOLEAN /\ t.running \in BOOLEAN /\ t.paused \in BOOLEAN
      /\ t.swapped \in BOOLEAN /\ t.preChecked \in 0 .. 3 /\ t.photos \in Nat
      /\ t'.enter \in BOOLEAN /\ t'.running \in BOOLEAN /\ t'.paused \in BOOLEAN
      /\ t'.swapped \in BOOLEAN /\ t'.preChecked \in 0 .. 3 /\ t'.photos \in Nat
  BY DEF TimerInv, TypeOK, TimerState
<1>4. CASE Held(e)
  <2>1. /\ t'.enter = t.enter /\ t'.preChecked = t.preChecked
        /\ t'.photos = t.photos /\ t'.swapped = t.swapped
    BY <1>1, <1>4, PassFacts DEF Held, Pauses, SameCounts
  <2> QED
    BY <1>1, <2>1, Waits DEF Mode, Promise!Next
<1>5. CASE Checks(e)
  <2>1. /\ t.running /\ ~Running(t) /\ t'.running = t.running /\ t'.enter
        /\ t'.preChecked > 0 /\ ~t'.paused
        /\ t'.photos = t.photos /\ t'.swapped = t.swapped
    <3>1. /\ t.running /\ ~Running(t) /\ SetsUp(Pass, e) /\ e.t.preChecked \in {1, 2, 3}
          /\ e.t.photos = t.photos /\ e.t.swapped = t.swapped /\ Pass.t = t
      BY <1>5, PassFacts DEF Checks
    <3>2. e.t.running = t.running /\ e.t.enter /\ ~e.t.paused
      BY <3>1 DEF SetsUp
    <3>3. t'.preChecked > 0
      BY <1>1, <3>1
    <3> QED
      BY <1>1, <3>1, <3>2, <3>3
  <2>2. CASE t.enter
    <3>1. Mode(t) = "checking" /\ Mode(t') = "checking"
      BY <1>3, <2>1, <2>2 DEF Mode, Running
    <3> QED
      BY <2>1, <3>1, Waits DEF Promise!Next
  <2>3. CASE ~t.enter
    <3>1. Mode(t) = "off" /\ Mode(t') = "checking"
      BY <2>1, <2>3 DEF Mode
    <3>2. t'.paused = FALSE
      BY <1>3, <2>1
    <3> QED
      BY <1>2, <2>1, <3>1, <3>2 DEF Promise!Next, Promise!Check, Mode, Most
  <2> QED
    BY <2>2, <2>3
<1>6. CASE Starts(e)
  <2>1. /\ t.running /\ ~Running(t) /\ t'.running = t.running /\ t'.enter
        /\ t'.preChecked = 0 /\ ~t'.paused
        /\ t'.photos = 0 /\ t'.swapped = FALSE
    BY <1>1, <1>6, PassFacts DEF Starts, SetsUp
  <2>2. Mode(t) \in {"off", "checking"} /\ Mode(t') = "running" /\ t'.paused = FALSE
    BY <1>3, <2>1 DEF Mode, Running
  <2> QED
    BY <1>2, <2>1, <2>2 DEF Promise!Next, Promise!Start, Mode, Most
<1>7. CASE GoesOn(e)
  <2>1. /\ t.running /\ t'.running /\ t'.swapped = t.swapped
        /\ t'.photos \in {t.photos, (t.photos + 1) % PhotoModulus}
        /\ ~(t.paused /\ t'.paused)
    BY <1>1, <1>7 DEF GoesOn
  <2>2. Mode(t) = "running" /\ Mode(t') = "running" /\ Running(t)
    BY <1>1, <1>7 DEF GoesOn, Running, Mode
  <2>3. CASE t'.photos = t.photos
    BY <1>1, <2>1, <2>2, <2>3, Waits DEF Promise!Next
  <2>4. CASE t'.photos = (t.photos + 1) % PhotoModulus
    <3>1. ~t.swapped /\ Most > 0 => t.photos < Most
      BY <2>2 DEF TimerInv, RunInv, CountInv, Most
    <3>2. t'.running = t.running
      BY <1>3, <2>1
    <3> QED
      BY <1>2, <1>3, <2>1, <2>2, <2>4, <3>1, <3>2 DEF Promise!Next, Promise!Shoot, Mode, Most
  <2> QED
    BY <2>1, <2>3, <2>4
<1>8. CASE Stops(e) \/ Completes(e)
  <2>1. /\ t.enter /\ ~t'.enter /\ ~t'.running /\ ~t'.paused /\ t'.swapped = t.swapped
    BY <1>1, <1>8 DEF Stops, Completes, Leaves
  <2>2. Promise!Ends
    <3>1. t'.running = FALSE /\ t'.paused = FALSE
      BY <1>3, <2>1
    <3> QED
      BY <1>2, <2>1, <3>1 DEF Promise!Ends, Most
  <2>3. CASE Stops(e)
    <3>1. ~t.running /\ t'.photos = t.photos /\ Mode(t) # "off"
      BY <1>1, <2>1, <2>3 DEF Stops, Mode
    <3> QED
      BY <2>2, <3>1 DEF Promise!Next, Promise!Finish, Mode
  <2>4. CASE Completes(e)
    <3>1. /\ t.running /\ Mode(t) = "running" /\ Running(t)
          /\ t'.photos \in {t.photos, (t.photos + 1) % PhotoModulus}
          /\ Finite /\ ~t.swapped => t'.photos \in Least .. Target
      BY <1>1, <2>4 DEF Completes, Running, Mode
    <3>2. ~t.swapped => t'.photos >= Least
      <4>1. CASE Finite
        <5>1. ~t.swapped => t'.photos \in Least .. Target
          BY <3>1, <4>1
        <5>2. Least \in Int /\ Target \in Int
          BY ProgramFacts, <4>1 DEF TimerInv, TypeOK
        <5> QED
          BY <5>1, <5>2
      <4>2. CASE ~Finite
        BY <1>3, <4>2 DEF Least
      <4> QED
        BY <4>1, <4>2
    <3>3. ~t.swapped /\ Most > 0 => t.photos < Most
      BY <3>1 DEF TimerInv, RunInv, CountInv, Most
    <3>4. CASE t'.photos = t.photos
      BY <2>2, <3>1, <3>2, <3>4 DEF Promise!Next, Promise!Finish, Mode
    <3>5. CASE t'.photos = (t.photos + 1) % PhotoModulus
      BY <2>2, <3>1, <3>2, <3>3, <3>5 DEF Promise!Next, Promise!LastPhoto, Mode, Most
    <3> QED
      BY <3>1, <3>4, <3>5
  <2> QED
    BY <1>8, <2>3, <2>4
<1> QED
  BY <1>1, <1>4, <1>5, <1>6, <1>7, <1>8

\* Whatever happens between two passes is a wait.
LEMMA OthersWait ==
    ASSUME TimerInv, TimerInv',
           User \/ BulbEnds \/ CameraReturns \/ CameraIdle
             \/ \E lost \in BOOLEAN : CameraFails(lost)
    PROVE  Promise!Next
<1>0. t \in TimerState /\ t.preChecked \in 0 .. 3 /\ t.enter \in BOOLEAN
  BY DEF TimerInv, TypeOK, TimerState
<1>1. /\ t'.photos = t.photos /\ t'.enter = t.enter
      /\ t'.preChecked > 0 <=> t.preChecked > 0
      /\ \/ prog' = prog /\ t'.swapped = t.swapped
         \/ t'.swapped = t.enter
  <2>1. CASE BulbEnds \/ CameraReturns \/ CameraIdle \/ Dismiss
    BY <2>1 DEF BulbEnds, CameraReturns, CameraIdle, Dismiss, Environment
  <2>2. CASE \E lost \in BOOLEAN : CameraFails(lost)
    <3>1. prog' = prog /\ t' \in {t, [t EXCEPT !.lost = TRUE]}
      BY <2>2 DEF CameraFails
    <3> QED
      BY <1>0, <3>1 DEF TimerState
  <2>3. CASE Begin
    BY <1>0, <2>3 DEF Begin, Set, Environment, TimerState
  <2>4. CASE Stop
    BY <1>0, <2>4 DEF Stop, Set, Environment, TimerState
  <2>5. CASE PauseKey
    <3>1. /\ prog' = prog
          /\ t' \in {t, [t EXCEPT !.pausing = 1], [t EXCEPT !.pausing = 1, !.paused = TRUE]}
      BY <2>5 DEF PauseKey, Resume, Set, Environment
    <3> QED
      BY <1>0, <3>1 DEF TimerState
  <2>6. CASE ConfirmTarget
    <3>1. prog' = prog /\ t' = [t EXCEPT !.preChecked = 3] /\ t.preChecked \in 1 .. 2
      BY <2>6 DEF ConfirmTarget, Set, Environment
    <3>2. t'.preChecked = 3
      BY <1>0, <3>1 DEF TimerState
    <3>3. t'.photos = t.photos /\ t'.enter = t.enter /\ t'.swapped = t.swapped
      BY <1>0, <3>1 DEF TimerState
    <3> QED
      BY <3>1, <3>2, <3>3
  <2>7. CASE \E method \in Methods : SwitchMethod(method)
    BY <1>0, <2>7 DEF SwitchMethod, Set, Environment, TimerState
  <2>8. CASE \E program \in Programs, infinite \in BOOLEAN : Replace(program, infinite)
    BY <1>0, <2>8 DEF Replace, TimerState
  <2> QED
    BY <2>1, <2>2, <2>3, <2>4, <2>5, <2>6, <2>7, <2>8 DEF User, Load, RemoteProgram
<1>2. Mode(t') = Mode(t)
  BY <1>1 DEF Mode
<1>3. Mode(t) = "running" /\ ~t'.swapped => ~t.swapped /\ prog' = prog
  BY <1>1 DEF Mode
<1> QED
  BY <1>1, <1>2, <1>3, Waits DEF Promise!Next

\* Every step of the intervalometer is a step its user is promised, or none.
LEMMA PromiseStep ==
    TimerInv /\ TimerInv' /\ [Next]_vars => [Promise!Next]_(Promise!vars)
<1> SUFFICES ASSUME TimerInv, TimerInv', [Next]_vars PROVE [Promise!Next]_(Promise!vars)
  OBVIOUS
<1>1. CASE UNCHANGED vars
  BY <1>1 DEF vars, Promise!vars, Finite, Target, Least
<1>2. CASE \E in \in Met : Task(in)
  BY <1>2, TaskPromises
<1>3. CASE User \/ BulbEnds \/ CameraReturns \/ CameraIdle
             \/ \E lost \in BOOLEAN : CameraFails(lost)
  BY <1>3, OthersWait
<1> QED
  BY <1>1, <1>2, <1>3 DEF Next

\* shutter::task and everything that happens between its passes implements the
\* intervalometer its user sees: photos one at a time, never while stopped or
\* paused, and a run that ends by itself with the photos asked for.
THEOREM TimerImplements == Spec => ImplementsIntervalometer
<1>1. Init => Promise!Init
  BY PromiseInit
<1>2. TimerInv /\ TimerInv' /\ [Next]_vars => [Promise!Next]_(Promise!vars)
  BY PromiseStep
<1> QED
  BY <1>1, <1>2, TimerInvariant, PTL DEF Spec, ImplementsIntervalometer, Promise!Spec
=============================================================================
