------------------------- MODULE ShutterLineProofs -------------------------
(***************************************************************************)
(* The shutter line for every number of slots, every setting and every     *)
(* order of main-loop steps, ticks and lightning interrupts: a press on    *)
(* the cable is never left without a release, the line stays closed once a *)
(* run has ended, and the light sensor is off while the clock times a      *)
(* bulb.  The shutter functions are operators from device to device, so    *)
(* the proof has one lemma per function saying what it does to the line    *)
(* and to the pending releases, and the steps compose them.                *)
(***************************************************************************)
EXTENDS ShutterPortProofs, WellFoundedInduction

\* A pending slot holds one of the firmware's functions.
Armed(d) == \A i \in Slots : d.calls[i].time > 0 => d.calls[i].func \in Callbacks
Sound(d) == d \in Device /\ Armed(d)

\* A release is on its way, or a request was lost for want of a slot.
PendingRelease(d) == \E i \in Slots : d.calls[i].time > 0 /\ d.calls[i].func \in Releases
Accounted(d) == d.dropped \/ PendingRelease(d)

\* e is d after a shutter function: pending releases and lost requests are
\* kept, and the light sensor is left alone.
Follows(d, e) ==
    /\ Sound(e)
    /\ Accounted(d) => Accounted(e)
    /\ e.skipTask = d.skipTask

\* A set of numbers has a least one.
LEMMA LeastNumber ==
    ASSUME NEW S, S \subseteq Nat, S # {}
    PROVE  \E x \in S : \A y \in S : x <= y
<1> DEFINE R == OpToRel(<, Nat)
<1>1. R = {ss \in Nat \X Nat : ss[1] < ss[2]}
  BY Zenon DEF OpToRel
<1>2. IsWellFoundedOn(R, Nat)
  BY NatLessThanWellFounded, Zenon
<1> HIDE DEF R
<1>3. PICK x \in S : \A y \in S : ~ (<<y, x>> \in R)
  BY <1>2, WFMin
<1>4. ASSUME NEW y \in S PROVE x <= y
  <2>1. <<y, x>> \in Nat \X Nat /\ <<y, x>>[1] = y /\ <<y, x>>[2] = x
    OBVIOUS
  <2>2. ~(<<y, x>>[1] < <<y, x>>[2])
    BY <1>1, <1>3, <2>1, Zenon
  <2> QED
    BY <2>1, <2>2
<1> QED
  BY <1>4

\* Clock::in finds the first free slot whenever there is a free one.
LEMMA FirstFree ==
    ASSUME NEW c \in Calls, NEW j \in Slots, c[j].time = 0
    PROVE  \E i \in Slots : IsFirstFree(c, i)
<1> DEFINE S == {i \in Slots : c[i].time = 0}
<1>1. S \subseteq Nat /\ S # {}
  BY DEF Slots
<1>2. PICK x \in S : \A y \in S : x <= y
  BY <1>1, LeastNumber
<1>3. ASSUME NEW y \in Slots, y < x PROVE c[y].time > 0
  BY <1>2, <1>3 DEF Calls, Slot, Times, Slots
<1> QED
  BY <1>2, <1>3 DEF IsFirstFree

\* Clock::in loses no pending call: a release it is asked for is pending
\* afterwards, or the request is recorded as dropped.
LEMMA ClockInFollows ==
    ASSUME NEW d, Sound(d), NEW t \in Times \ {0}, NEW f \in Callbacks
    PROVE  /\ Follows(d, ClockIn(d, t, f))
           /\ f \in Releases => Accounted(ClockIn(d, t, f))
           /\ ClockIn(d, t, f).shutter = d.shutter
           /\ ClockIn(d, t, f).shutter_state = d.shutter_state
<1> DEFINE e == ClockIn(d, t, f)
           new == [time |-> t, func |-> f]
           full == \A i \in Slots : d.calls[i].time > 0
<1>1. new \in Slot /\ new.time > 0 /\ new.func = f
  BY DEF Slot, Times
<1>2. d \in Device /\ d.calls \in Calls
  BY DEF Sound, Device
<1>3. /\ In(d.calls, t, f) \in Calls
      /\ \A i \in Slots : \/ In(d.calls, t, f)[i] = d.calls[i]
                          \/ d.calls[i].time = 0 /\ In(d.calls, t, f)[i] = new
  BY <1>1, <1>2 DEF In, Calls, IsFirstFree
<1>4. (d.dropped \/ full) \in BOOLEAN
  BY Zenon
<1>5. e = [d EXCEPT !.calls = In(d.calls, t, f), !.dropped = d.dropped \/ full]
  BY DEF ClockIn
<1>6. /\ e \in Device
      /\ e.calls = In(d.calls, t, f) /\ e.dropped = (d.dropped \/ full)
      /\ e.shutter = d.shutter /\ e.shutter_state = d.shutter_state
      /\ e.skipTask = d.skipTask
  BY <1>2, <1>3, <1>4, <1>5 DEF Device
<1> HIDE DEF e
<1>7. Armed(e)
  BY <1>1, <1>3, <1>6 DEF Sound, Armed
<1>8. PendingRelease(d) => PendingRelease(e)
  BY <1>3, <1>6 DEF PendingRelease
<1>9. ASSUME f \in Releases PROVE Accounted(e)
  <2>1. CASE full
    BY <2>1, <1>6 DEF Accounted
  <2>2. CASE ~full
    <3>1. PICK j \in Slots : d.calls[j].time = 0
      BY <1>2, <2>2 DEF Calls, Slot, Times
    <3>2. PICK i \in Slots : IsFirstFree(d.calls, i)
      BY <1>2, <3>1, FirstFree
    <3>3. e.calls[i] = new
      BY <1>6, <3>2 DEF In
    <3> QED
      BY <1>1, <1>9, <3>3 DEF Accounted, PendingRelease
  <2> QED
    BY <2>1, <2>2
<1>10. Follows(d, e)
  BY <1>6, <1>7, <1>8 DEF Follows, Sound, Accounted
<1> QED
  BY <1>6, <1>9, <1>10 DEF e

\* A step of the device that presses nothing: the shutter line is not opened, a
\* toggled press is not remembered as one, and nothing pending is lost.
Lets(d, e) ==
    /\ Follows(d, e)
    /\ e.shutter => d.shutter
    /\ e.shutter_state \in {0, d.shutter_state}

\* The port after shutter_off: closed, unless it is the dolly's.
Closed(d) == ~d.shutter /\ d.shutter_state = 0

\* Two such steps in a row are one.
LEMMA LetsTwice ==
    ASSUME NEW d, NEW e, NEW f, Lets(d, e), Lets(e, f)
    PROVE  Lets(d, f)
  BY DEF Lets, Follows

\* Doing nothing is one.
LEMMA LetsNothing ==
    ASSUME NEW d, Sound(d)
    PROVE  Lets(d, d)
  BY DEF Lets, Follows

\* Storing into fields other than the calls and the dropped requests.
LEMMA LetsFields ==
    ASSUME NEW d, Sound(d), NEW e \in Device, e.calls = d.calls, e.dropped = d.dropped,
           e.skipTask = d.skipTask
    PROVE  Follows(d, e)
  BY DEF Sound, Armed, Follows, Accounted, PendingRelease

\* So is asking for a call.
LEMMA ClockInLets ==
    ASSUME NEW d, Sound(d), NEW t \in Times \ {0}, NEW f \in Callbacks
    PROVE  Lets(d, ClockIn(d, t, f))
  BY ClockInFollows DEF Lets

\* Every delay the shutter functions ask for fits the counter and is positive.
LEMMA Delays == /\ CheckDelay \in Times \ {0} /\ HalfDelay \in Times \ {0}
                /\ PressTime \in Times \ {0} /\ CaptureTime \in Times \ {0}
                /\ PulseTime \in Times \ {0}
  BY DelayAssumption, PortTimesAssumption, SkipsAssumption, ModulusAssumption DEF Times

\* SHUTTER_CLOSE, shutter_off_quick and shutter_half_delayed.
LEMMA CloseLets ==
    ASSUME NEW d, Sound(d)
    PROVE  /\ Lets(d, ShutterClose(d)) /\ ~ShutterClose(d).shutter
           /\ Lets(d, shutter_off_quick(d)) /\ (~PortTaken => Closed(shutter_off_quick(d)))
           /\ Lets(d, shutter_half_delayed(d)) /\ (~PortTaken => ~shutter_half_delayed(d).shutter)
<1>1. d \in Device
  BY DEF Sound
<1>2. /\ ShutterClose(d) \in Device /\ ShutterClose(d).calls = d.calls
      /\ ShutterClose(d).dropped = d.dropped /\ ShutterClose(d).skipTask = d.skipTask
      /\ ~ShutterClose(d).shutter /\ ShutterClose(d).shutter_state = d.shutter_state
  BY <1>1 DEF ShutterClose, Device
<1>3. Lets(d, ShutterClose(d))
  BY <1>2, LetsFields DEF Lets
<1> DEFINE q == [ShutterClose(d) EXCEPT !.ir_shutter_state = 0, !.shutter_state = 0]
           h == [ShutterClose(d) EXCEPT !.mirror = TRUE]
<1>4. /\ q \in Device /\ q.calls = d.calls /\ q.dropped = d.dropped
      /\ q.skipTask = d.skipTask /\ ~q.shutter /\ q.shutter_state = 0
  BY <1>2 DEF Device
<1>5. /\ h \in Device /\ h.calls = d.calls /\ h.dropped = d.dropped
      /\ h.skipTask = d.skipTask /\ ~h.shutter /\ h.shutter_state = d.shutter_state
  BY <1>2 DEF Device
<1>6. Lets(d, q) /\ Lets(d, h)
  BY <1>4, <1>5, LetsFields DEF Lets
<1>7. shutter_off_quick(d) = IF PortTaken THEN d ELSE q
  BY DEF shutter_off_quick
<1>8. shutter_half_delayed(d) = IF PortTaken THEN d ELSE h
  BY DEF shutter_half_delayed
<1> HIDE DEF q, h
<1> QED
  BY <1>2, <1>3, <1>4, <1>5, <1>6, <1>7, <1>8, LetsNothing DEF Closed

\* shutter_off closes the port that is its own.
LEMMA OffLets ==
    ASSUME NEW d, Sound(d)
    PROVE  Lets(d, shutter_off(d)) /\ (~PortTaken => Closed(shutter_off(d)))
<1> DEFINE q == shutter_off_quick(d)
<1>1. Lets(d, q) /\ (~PortTaken => Closed(q)) /\ Sound(q)
  BY CloseLets DEF Lets, Follows
<1>2. "check_cable" \in Callbacks
  BY DEF Callbacks
<1> HIDE DEF q
<1>3. /\ Lets(q, ClockIn(q, CheckDelay, "check_cable"))
      /\ Closed(q) => Closed(ClockIn(q, CheckDelay, "check_cable"))
  BY <1>1, <1>2, Delays, ClockInLets, ClockInFollows DEF Closed
<1>4. Lets(d, ClockIn(q, CheckDelay, "check_cable"))
  BY <1>1, <1>3, LetsTwice
<1> QED
  BY <1>1, <1>3, <1>4, LetsNothing DEF shutter_off, q

\* So does shutter_half, whether or not it presses half way later.
LEMMA HalfLets ==
    ASSUME NEW d, Sound(d)
    PROVE  Lets(d, shutter_half(d)) /\ (~PortTaken => Closed(shutter_half(d)))
<1> DEFINE q == shutter_off(d)
<1>1. Lets(d, q) /\ (~PortTaken => Closed(q)) /\ Sound(q)
  BY OffLets DEF Lets, Follows
<1>2. "shutter_half_delayed" \in Callbacks
  BY DEF Callbacks
<1> HIDE DEF q
<1>3. /\ Lets(q, ClockIn(q, HalfDelay, "shutter_half_delayed"))
      /\ Closed(q) => Closed(ClockIn(q, HalfDelay, "shutter_half_delayed"))
  BY <1>1, <1>2, Delays, ClockInLets, ClockInFollows DEF Closed
<1>4. Lets(d, ClockIn(q, HalfDelay, "shutter_half_delayed"))
  BY <1>1, <1>3, LetsTwice
<1> QED
  BY <1>1, <1>3, <1>4, LetsNothing DEF shutter_half, q

\* aux1_off and aux2_off; the first closes a port that is the dolly's.
LEMMA AuxOffLets ==
    ASSUME NEW d, Sound(d)
    PROVE  /\ Lets(d, aux1_off(d)) /\ (PortTaken => ~aux1_off(d).shutter)
           /\ Lets(d, aux2_off(d))
<1>1. d \in Device
  BY DEF Sound
<1>2. Lets(d, ShutterClose(d)) /\ ~ShutterClose(d).shutter
  BY CloseLets
<1>3. ASSUME NEW e, e \in {[d EXCEPT !.aux1 = FALSE], [d EXCEPT !.aux2 = FALSE],
                           [d EXCEPT !.mirror = FALSE]}
      PROVE  Lets(d, e)
  <2>1. /\ e \in Device /\ e.calls = d.calls /\ e.dropped = d.dropped
        /\ e.skipTask = d.skipTask /\ e.shutter = d.shutter
        /\ e.shutter_state = d.shutter_state
    BY <1>1, <1>3 DEF Device
  <2> QED
    BY <2>1, LetsFields DEF Lets
<1> QED
  BY <1>2, <1>3 DEF aux1_off, aux2_off

\* camera.bulbEnd and the remote half of ending a bulb leave the cable alone.
LEMMA RemoteEndLets ==
    ASSUME NEW d, Sound(d), NEW usb
    PROVE  /\ Lets(d, CameraBulbEnd(d, usb)) /\ CameraBulbEnd(d, usb).shutter = d.shutter
           /\ Lets(d, RemoteBulbEnd(d, usb)) /\ RemoteBulbEnd(d, usb).shutter = d.shutter
           /\ RemoteBulbEnd(d, usb).shutter_state = d.shutter_state
<1> DEFINE o == [d EXCEPT !.bulb_open = FALSE]
           i == [d EXCEPT !.ir_shutter_state = 0]
           b == [o EXCEPT !.ir_shutter_state = 0]
<1>1. ASSUME NEW e, e \in {o, i, b}
      PROVE  Lets(d, e) /\ e.shutter = d.shutter /\ e.shutter_state = d.shutter_state
  <2>1. /\ e \in Device /\ e.calls = d.calls /\ e.dropped = d.dropped
        /\ e.skipTask = d.skipTask /\ e.shutter = d.shutter
        /\ e.shutter_state = d.shutter_state
    BY <1>1 DEF Device, Sound
  <2> QED
    BY <2>1, LetsFields DEF Lets
<1>2. CameraBulbEnd(d, usb) \in {d, o}
  BY DEF CameraBulbEnd
<1>3. RemoteBulbEnd(d, usb) \in {d, i, b}
  BY <1>2 DEF RemoteBulbEnd
<1> HIDE DEF o, i, b
<1> QED
  BY <1>1, <1>2, <1>3, LetsNothing

\* Pressing: the shutter line is opened, unless the port is the dolly's.
LEMMA FullFollows ==
    ASSUME NEW d, Sound(d)
    PROVE  /\ Follows(d, shutter_full(d))
           /\ shutter_full(d).shutter_state = d.shutter_state
           /\ PortTaken => shutter_full(d) = d
<1> DEFINE e == [d EXCEPT !.mirror = TRUE, !.shutter = TRUE]
<1>1. /\ e \in Device /\ e.calls = d.calls /\ e.dropped = d.dropped
      /\ e.skipTask = d.skipTask /\ e.shutter_state = d.shutter_state
  BY DEF Device, Sound
<1>2. shutter_full(d) = IF PortTaken THEN d ELSE e
  BY DEF shutter_full
<1> HIDE DEF e
<1> QED
  BY <1>1, <1>2, LetsFields, LetsNothing DEF Lets

\* Pressing with the release asked for: the press is accounted for.
LEMMA PressReleased ==
    ASSUME NEW d, Sound(d), NEW s \in {0, 1}, NEW t \in Times \ {0},
           NEW f \in {"shutter_off", "shutter_half"}
    PROVE  LET e == ClockIn([shutter_full(d) EXCEPT !.shutter_state = s], t, f)
           IN  /\ Follows(d, e) /\ Accounted(e) /\ (PortTaken => e.shutter = d.shutter)
               /\ e.shutter_state = s
<1> DEFINE p == shutter_full(d)
           q == [p EXCEPT !.shutter_state = s]
           e == ClockIn(q, t, f)
<1>1. Follows(d, p) /\ (PortTaken => p = d) /\ Sound(p)
  BY FullFollows DEF Follows
<1> HIDE DEF p
<1>2. /\ q \in Device /\ q.calls = p.calls /\ q.dropped = p.dropped
      /\ q.skipTask = p.skipTask /\ q.shutter = p.shutter /\ q.shutter_state = s
  BY <1>1 DEF Device, Sound
<1> HIDE DEF q
<1>3. Follows(p, q)
  BY <1>1, <1>2, LetsFields
<1>4. f \in Callbacks /\ f \in Releases
  BY DEF Callbacks, Releases
<1>5. Sound(q)
  BY <1>3 DEF Follows
<1>6. Follows(q, e) /\ Accounted(e) /\ e.shutter = q.shutter /\ e.shutter_state = q.shutter_state
  BY <1>4, <1>5, ClockInFollows
<1> HIDE DEF e
<1>7. Follows(d, e) /\ Accounted(e) /\ (PortTaken => e.shutter = d.shutter) /\ e.shutter_state = s
  BY <1>1, <1>2, <1>3, <1>6 DEF Follows
<1> QED
  BY <1>7 DEF e, q, p

\* shutter_capture asks for the release of its press.
LEMMA CaptureFollows ==
    ASSUME NEW d, Sound(d), NEW usb
    PROVE  LET e == shutter_capture(d, usb)
           IN  /\ Follows(d, e)
               /\ e.shutter /\ ~PortTaken => Accounted(e) \/ d.shutter
<1> DEFINE n == [d EXCEPT !.lastShutterError = FALSE]
           p == shutter_full(d)
           c == ClockIn(p, CaptureTime, "shutter_off")
           b == ~cable_connected /\ usb # "ok"
           e == [c EXCEPT !.ir_shutter_state = 0, !.shutter_state = 0, !.lastShutterError = b]
<1>1. /\ n \in Device /\ n.calls = d.calls /\ n.dropped = d.dropped
      /\ n.skipTask = d.skipTask /\ n.shutter = d.shutter
  BY DEF Device, Sound
<1>2. Follows(d, n)
  BY <1>1, LetsFields
<1>3. Follows(d, p) /\ Sound(p)
  BY FullFollows DEF Follows
<1> HIDE DEF p, n
<1>4. "shutter_off" \in Callbacks /\ "shutter_off" \in Releases
  BY DEF Callbacks, Releases
<1>5. Follows(p, c) /\ Accounted(c) /\ Sound(c) /\ c \in Device
  BY <1>3, <1>4, ClockInFollows, Delays DEF Follows, Sound
<1> HIDE DEF c
<1>6. b \in BOOLEAN
  BY Zenon
<1> HIDE DEF b
<1>7. /\ e \in Device /\ e.calls = c.calls /\ e.dropped = c.dropped
      /\ e.skipTask = c.skipTask
  BY <1>5, <1>6 DEF Device
<1> HIDE DEF e
<1>8. Follows(c, e)
  BY <1>5, <1>7, LetsFields
<1>9. Follows(d, e) /\ Accounted(e)
  BY <1>3, <1>5, <1>8 DEF Follows
<1>10. shutter_capture(d, usb) \in {n, e}
  BY DEF shutter_capture, n, e, c, p, b
<1> QED
  BY <1>1, <1>2, <1>9, <1>10

\* Starting a bulb: in hold mode the press stays, in toggle mode its release is asked for.
LEMMA BulbStartFollows ==
    ASSUME NEW d, Sound(d), NEW usb
    PROVE  LET e == shutter_bulbStartQuick(d, usb)
           IN  /\ Follows(d, e)
               /\ e.shutter /\ ~PortTaken
                    => d.shutter \/ Accounted(e) \/ (Cable /\ conf.bulbMode = "hold")
<1> DEFINE n == [d EXCEPT !.lastShutterError = FALSE]
           u == [n EXCEPT !.bulb_open = @ \/ usb # "modeFails", !.lastShutterError = (usb # "ok")]
           i == [n EXCEPT !.ir_shutter_state = 1]
           r == RemoteBulbStart(n, usb)
           e == shutter_bulbStartQuick(d, usb)
<1>1. ASSUME NEW f, f \in {n, u, i}
      PROVE  Follows(d, f) /\ f.shutter = d.shutter
  <2>0. n \in Device
    BY DEF Device, Sound
  <2>1. (n.bulb_open \/ usb # "modeFails") \in BOOLEAN /\ (usb # "ok") \in BOOLEAN
    BY Zenon
  <2>2. /\ f \in Device /\ f.calls = d.calls /\ f.dropped = d.dropped
        /\ f.skipTask = d.skipTask /\ f.shutter = d.shutter
    <3>1. CASE f = n
      BY <3>1 DEF Device, Sound
    <3>2. CASE f = i
      BY <3>2 DEF Device, Sound
    <3>3. CASE f = u
      BY <3>3, <2>1 DEF Device, Sound
    <3> QED
      BY <1>1, <3>1, <3>2, <3>3
  <2> QED
    BY <2>2, LetsFields
<1>2. r \in {n, u, i}
  BY DEF RemoteBulbStart
<1>3. Follows(d, r) /\ r.shutter = d.shutter /\ Sound(r)
  BY <1>1, <1>2 DEF Follows
<1>4. e \in {r, CableBulbStart(r)} /\ (e # r => Cable)
  BY DEF shutter_bulbStartQuick
<1> HIDE DEF r, e
<1>5. CASE e = r
  BY <1>3, <1>5 DEF e
<1>6. CASE e # r /\ conf.bulbMode = "hold"
  <2>1. e = shutter_full(r)
    BY <1>4, <1>6 DEF CableBulbStart
  <2>2. Follows(r, e)
    BY <1>3, <2>1, FullFollows
  <2> QED
    BY <1>3, <1>4, <1>6, <2>2 DEF Follows, e
<1>7. CASE e # r /\ conf.bulbMode # "hold"
  <2> DEFINE f == IF conf.ready THEN "shutter_off" ELSE "shutter_half"
  <2>1. e = ClockIn([shutter_full(r) EXCEPT !.shutter_state = 1], PressTime, f)
    BY <1>4, <1>7 DEF CableBulbStart
  <2>2. f \in {"shutter_off", "shutter_half"}
    OBVIOUS
  <2> HIDE DEF f
  <2>3. Follows(r, e) /\ Accounted(e)
    BY <1>3, <2>1, <2>2, Delays, PressReleased
  <2> QED
    BY <1>3, <2>3 DEF Follows, e
<1> QED
  BY <1>5, <1>6, <1>7

\* The port is closed and no toggled press is outstanding.
Quiet(d) == ~d.shutter /\ (PortTaken \/ d.shutter_state = 0)

\* Ending a bulb: a held press is released, a toggled one pressed and released again.
LEMMA BulbEndFollows ==
    ASSUME NEW d, Sound(d), NEW usb
    PROVE  LET e == shutter_bulbEndQuick(d, usb)
           IN  /\ Follows(d, e)
               /\ Cable /\ conf.bulbMode = "hold" /\ ~PortTaken => ~e.shutter
               /\ e.shutter /\ ~PortTaken => d.shutter \/ Accounted(e)
               /\ Quiet(d) => Quiet(e)
<1> DEFINE r == RemoteBulbEnd(d, usb)
           e == shutter_bulbEndQuick(d, usb)
<1>1. Lets(d, r) /\ Sound(r) /\ r.shutter = d.shutter /\ r.shutter_state = d.shutter_state
  BY RemoteEndLets DEF Lets, Follows
<1> HIDE DEF r
<1>2. CASE ~Cable \/ (conf.bulbMode # "hold" /\ r.shutter_state = 0)
  <2>1. e = r
    BY <1>2 DEF shutter_bulbEndQuick, r
  <2> QED
    BY <1>1, <1>2, <2>1 DEF Lets, Quiet
<1>3. CASE Cable /\ conf.bulbMode = "hold"
  <2>1. e = shutter_off(r)
    BY <1>3 DEF shutter_bulbEndQuick, r
  <2> HIDE DEF e
  <2>2. Lets(r, e) /\ (~PortTaken => Closed(e))
    BY <1>1, <2>1, OffLets
  <2>3. Lets(d, e)
    BY <1>1, <2>2, LetsTwice
  <2> QED
    BY <1>3, <2>2, <2>3 DEF Lets, Quiet, Closed, e
<1>4. CASE Cable /\ conf.bulbMode # "hold" /\ r.shutter_state # 0
  <2>1. e = ClockIn([shutter_full(r) EXCEPT !.shutter_state = 0], PressTime, "shutter_off")
    BY <1>4 DEF shutter_bulbEndQuick, r
  <2> HIDE DEF e
  <2>2. Follows(r, e) /\ Accounted(e) /\ (PortTaken => e.shutter = r.shutter)
    BY <1>1, <2>1, PressReleased, Delays
  <2> QED
    BY <1>1, <1>4, <2>2 DEF Lets, Follows, Quiet, e
<1> QED
  BY <1>2, <1>3, <1>4

\* aux_pulse opens the shutter line only where the port is the dolly's.
LEMMA PulseFollows ==
    ASSUME NEW d, Sound(d)
    PROVE  Follows(d, aux_pulse(d)) /\ (~PortTaken => aux_pulse(d).shutter = d.shutter)
<1> DEFINE p == [d EXCEPT !.shutter = TRUE, !.mirror = TRUE]
           a == [d EXCEPT !.aux1 = TRUE, !.aux2 = TRUE]
           on == IF PortTaken THEN p ELSE a
           c == ClockIn(on, PulseTime, "aux1_off")
<1>1. /\ p \in Device /\ p.calls = d.calls /\ p.dropped = d.dropped
      /\ p.skipTask = d.skipTask
  BY DEF Device, Sound
<1>2. /\ a \in Device /\ a.calls = d.calls /\ a.dropped = d.dropped
      /\ a.skipTask = d.skipTask /\ a.shutter = d.shutter
  BY DEF Device, Sound
<1>3. aux_pulse(d) = ClockIn(c, PulseTime, "aux2_off")
  BY DEF aux_pulse
<1> HIDE DEF p, a
<1>4. Follows(d, on) /\ Sound(on) /\ (~PortTaken => on.shutter = d.shutter)
  BY <1>1, <1>2, LetsFields DEF Follows
<1>5. "aux1_off" \in Callbacks /\ "aux2_off" \in Callbacks
  BY DEF Callbacks
<1> HIDE DEF on
<1>6. Follows(on, c) /\ Sound(c) /\ c.shutter = on.shutter
  BY <1>4, <1>5, ClockInFollows, Delays DEF Follows
<1> HIDE DEF c
<1>7. Follows(c, aux_pulse(d)) /\ aux_pulse(d).shutter = c.shutter
  BY <1>3, <1>5, <1>6, ClockInFollows, Delays
<1> QED
  BY <1>4, <1>6, <1>7 DEF Follows

\* RUN_END releases everything.
LEMMA RunEndLets ==
    ASSUME NEW d, Sound(d), NEW usb
    PROVE  Lets(d, RunEnd(d, usb)) /\ Quiet(RunEnd(d, usb))
<1> DEFINE o == shutter_off(d)
           c == CameraBulbEnd(o, usb)
           a == aux1_off(c)
           e == aux2_off(a)
<1>1. Lets(d, o) /\ Sound(o) /\ (~PortTaken => Closed(o))
  BY OffLets DEF Lets, Follows
<1> HIDE DEF o
<1>2. Lets(o, c) /\ Sound(c)
  BY <1>1, RemoteEndLets DEF Lets, Follows
<1> HIDE DEF c
<1>3. Lets(c, a) /\ Sound(a) /\ (PortTaken => ~a.shutter)
  BY <1>2, AuxOffLets DEF Lets, Follows
<1> HIDE DEF a
<1>4. Lets(a, e)
  BY <1>3, AuxOffLets
<1>5. RunEnd(d, usb) = e
  BY DEF RunEnd, e, a, c, o
<1> HIDE DEF e
<1>6. Lets(d, e)
  BY <1>1, <1>2, <1>3, <1>4, LetsTwice
<1>7. Quiet(e)
  BY <1>1, <1>2, <1>3, <1>4 DEF Lets, Quiet, Closed
<1> QED
  BY <1>5, <1>6, <1>7

\* Whatever function a slot holds, it opens nothing, and one that releases does.
LEMMA CallbackLets ==
    ASSUME NEW d, Sound(d), NEW f \in Callbacks
    PROVE  /\ Lets(d, Callback(d, f))
           /\ f \in Releases /\ ~PortTaken => ~Callback(d, f).shutter
<1>1. CASE f = "shutter_off"
  BY <1>1, OffLets DEF Callback, Closed
<1>2. CASE f = "shutter_half"
  BY <1>2, HalfLets DEF Callback, Closed
<1>3. CASE f = "shutter_half_delayed"
  BY <1>3, CloseLets DEF Callback
<1>4. CASE f = "aux1_off"
  BY <1>4, AuxOffLets DEF Callback, Releases
<1>5. CASE f = "aux2_off"
  BY <1>5, AuxOffLets DEF Callback, Releases
<1>6. CASE f = "check_cable"
  BY <1>6, LetsNothing DEF Callback, Releases
<1> QED
  BY <1>1, <1>2, <1>3, <1>4, <1>5, <1>6 DEF Callbacks

\* A slot counted down: the call is still pending, or it was the one that ran.
LEMMA CountedLets ==
    ASSUME NEW d, Sound(d), NEW i \in Slots, d.calls[i].time # 0, NEW k \in Nat
    PROVE  LET c == [d EXCEPT !.calls[i].time = Elapse(@, k)]
           IN  /\ Sound(c) /\ c.shutter = d.shutter /\ c.shutter_state = d.shutter_state
               /\ c.skipTask = d.skipTask /\ c.dropped = d.dropped
               /\ d.calls[i].func \in Callbacks
               /\ Elapse(d.calls[i].time, k) > 0 \/ d.calls[i].func \notin Releases
                    => Lets(d, c)
<1> DEFINE x == Elapse(d.calls[i].time, k)
           c == [d EXCEPT !.calls[i].time = Elapse(@, k)]
           s == [d.calls[i] EXCEPT !.time = x]
           m == [d.calls EXCEPT ![i] = s]
<1>1. d \in Device /\ d.calls \in Calls /\ d.calls[i] \in Slot
  BY DEF Sound, Device, Calls
<1>2. d.calls[i].time > 0 /\ d.calls[i].func \in Callbacks
  BY <1>1 DEF Sound, Armed, Slot, Times
<1>3. x \in Times
  BY <1>1, ModulusAssumption DEF Elapse, Slot, Times
<1> HIDE DEF x
<1>4. s \in Slot /\ s.time = x /\ s.func = d.calls[i].func
  BY <1>1, <1>3 DEF Slot
<1> HIDE DEF s
<1>5. m \in Calls /\ m[i] = s /\ \A j \in Slots : j # i => m[j] = d.calls[j]
  BY <1>1, <1>4 DEF Calls
<1>6. c = [d EXCEPT !.calls = m]
  BY DEF s, x, m
<1> HIDE DEF m, c
<1>7. /\ c \in Device /\ c.calls = m /\ c.shutter = d.shutter
      /\ c.shutter_state = d.shutter_state /\ c.skipTask = d.skipTask
      /\ c.dropped = d.dropped
  BY <1>1, <1>5, <1>6 DEF Device
<1>8. Sound(c)
  BY <1>2, <1>4, <1>5, <1>7 DEF Sound, Armed
<1>9. ASSUME x > 0 \/ d.calls[i].func \notin Releases
      PROVE  PendingRelease(d) => PendingRelease(c)
  BY <1>4, <1>5, <1>7, <1>9 DEF PendingRelease
<1>10. x > 0 \/ d.calls[i].func \notin Releases => Lets(d, c)
  BY <1>7, <1>8, <1>9 DEF Lets, Follows, Accounted
<1> QED
  BY <1>2, <1>7, <1>8, <1>10 DEF c, x

-----------------------------------------------------------------------------
\* The exposure that may hold the shutter line open: it is about to start, it
\* runs, or its start failed and RUN_ERROR has yet to release it.
Held ==
    /\ Cable /\ conf.bulbMode = "hold"
    /\ bulb.newBulb \/ bulb.bulbRunning \/ main = "retry"

\* Where the main loop is tells whether an exposure is on.
LoopKnows ==
    /\ main \in {"gap", "retry"} => ~bulb.newBulb /\ ~bulb.bulbRunning
    /\ main \in {"bulb", "stopped"} => ~bulb.newBulb

\* The inductive invariant.
PortInv ==
    /\ BulbInv
    /\ skips \in Nat
    /\ visiting \in 0 .. (CLOCK_IN_QUEUE + 1)
    /\ main \in {"stopped", "gap", "starting", "retry", "bulb"}
    /\ exposing \in BOOLEAN
    /\ Sound(dev)
    /\ LoopKnows
    /\ dev.shutter /\ ~PortTaken => Accounted(dev) \/ Held
    /\ main = "stopped" /\ ~conf.lightning => Quiet(dev)
    /\ LightOffDuringTiming

\* Nothing is pressed at the start.
LEMMA PortInit == Init => PortInv
<1> SUFFICES ASSUME Init PROVE PortInv
  OBVIOUS
<1>1. NoCalls \in Calls /\ \A i \in Slots : NoCalls[i].time = 0
  BY ModulusAssumption DEF NoCalls, Calls, Slot, Times
<1>2. dev \in Device /\ dev.calls = NoCalls /\ ~dev.shutter /\ dev.shutter_state = 0
  BY <1>1 DEF Init, Device
<1>3. Sound(dev) /\ Quiet(dev)
  BY <1>1, <1>2 DEF Sound, Armed, Quiet
<1>4. ~bulb.newBulb /\ ~bulb.bulbRunning
  BY DEF Init
<1>5. skips \in Nat /\ visiting \in 0 .. (CLOCK_IN_QUEUE + 1) /\ main = "stopped"
  <2>1. skips = 0 /\ visiting = 0 /\ main = "stopped"
    BY DEF Init
  <2> QED
    BY <2>1, QueueAssumption
<1>7. exposing \in BOOLEAN
  BY DEF Init
<1>6. LoopKnows /\ LightOffDuringTiming
  BY <1>4 DEF LoopKnows, LightOffDuringTiming
<1> QED
  BY <1>2, <1>3, <1>5, <1>6, <1>7, BulbInit DEF PortInv

\* What Drive and Press do besides the device.
LEMMA DriveTypes ==
    ASSUME NEW d, exposing \in BOOLEAN, Drive(d) \/ Press(d)
    PROVE  dev' = d /\ exposing' \in BOOLEAN
  BY DEF Drive, Press

\* A step that lets the port go or leaves it keeps the invariant as long as no
\* hold ends with the line open.
LEMMA LettingStep ==
    ASSUME PortInv, BulbInv', conf' = conf, Lets(dev, dev'),
           skips' \in Nat, visiting' \in 0 .. (CLOCK_IN_QUEUE + 1),
           main' \in {"stopped", "gap", "starting", "retry", "bulb"},
           exposing' \in BOOLEAN, LoopKnows', LightOffDuringTiming',
           main' = "stopped" => main = "stopped" \/ Quiet(dev'),
           Held => Held' \/ ~dev'.shutter \/ PortTaken
    PROVE  PortInv'
<1>1. PortTaken' = PortTaken /\ Cable' = Cable /\ Quiet(dev)' = Quiet(dev')
  BY DEF PortTaken, Cable, Quiet
<1>2. Sound(dev') /\ (Accounted(dev) => Accounted(dev')) /\ (dev'.shutter => dev.shutter)
  BY DEF Lets, Follows
<1>3. Quiet(dev) => Quiet(dev')
  BY DEF Lets, Quiet
<1> QED
  BY <1>1, <1>2, <1>3 DEF PortInv

\* The invariant types every variable.
LEMMA PortTypes ==
    ASSUME PortInv
    PROVE  TypeOK
  BY DEF PortInv, BulbInv, TypeOK, Sound

\* Every step keeps the invariant: the main loop.
LEMMA PortMainStep ==
    ASSUME PortInv, Main
    PROVE  PortInv'
<1>0. BulbInv'
  BY BulbStep DEF PortInv, Next
<1>1. Sound(dev) /\ skips \in Nat /\ exposing \in BOOLEAN /\ bulb \in Bulb
      /\ 0 \in 0 .. (CLOCK_IN_QUEUE + 1)
  BY QueueAssumption DEF PortInv, BulbInv
<1>2. CASE BeginRun
  <2>1. /\ dev' = ShutterClose(dev) /\ exposing' \in BOOLEAN /\ conf' = conf /\ skips' = skips
        /\ visiting' = 0 /\ main' = "gap"
    BY <1>1, <1>2, DriveTypes DEF BeginRun, MainStep
  <2>2. Lets(dev, dev') /\ ~dev'.shutter
    BY <1>1, <2>1, CloseLets
  <2>3. ~bulb'.newBulb /\ ~bulb'.bulbRunning
    BY <1>1, <1>2 DEF BeginRun, Bulb
  <2> QED
    BY <1>0, <1>1, <2>1, <2>2, <2>3, LettingStep DEF LoopKnows, LightOffDuringTiming
<1>3. CASE GapHalf
  <2>1. /\ dev' = shutter_half(dev) /\ exposing' \in BOOLEAN /\ conf' = conf /\ skips' = skips
        /\ visiting' = 0 /\ main' = "gap" /\ main = "gap" /\ bulb' = bulb
    BY <1>1, <1>3, DriveTypes DEF GapHalf, MainStep
  <2>2. Lets(dev, dev')
    BY <1>1, <2>1, HalfLets
  <2> QED
    BY <1>0, <1>1, <2>1, <2>2, LettingStep DEF PortInv, LoopKnows, LightOffDuringTiming, Held
<1>4. CASE GapPulse
  <2>1. /\ dev' = aux_pulse(dev) /\ exposing' \in BOOLEAN /\ conf' = conf /\ skips' = skips
        /\ visiting' = 0 /\ main' = "gap" /\ main = "gap" /\ bulb' = bulb
    BY <1>1, <1>4, DriveTypes DEF GapPulse, MainStep
  <2>2. Follows(dev, dev') /\ (~PortTaken => dev'.shutter = dev.shutter)
    BY <1>1, <2>1, PulseFollows
  <2> QED
    BY <1>0, <1>1, <2>1, <2>2
       DEF PortInv, LoopKnows, LightOffDuringTiming, Held, PortTaken, Cable, Follows
<1>5. ASSUME NEW usb \in UsbOutcomes, Capture(usb)
      PROVE  PortInv'
  <2>1. /\ dev' = shutter_capture(dev, usb) /\ exposing' \in BOOLEAN /\ conf' = conf
        /\ skips' = skips /\ visiting' = 0 /\ main' = "gap" /\ main = "gap" /\ bulb' = bulb
    BY <1>1, <1>5, DriveTypes DEF Capture, MainStep
  <2>2. Follows(dev, dev') /\ (dev'.shutter /\ ~PortTaken => Accounted(dev') \/ dev.shutter)
    BY <1>1, <2>1, CaptureFollows
  <2> QED
    BY <1>0, <1>1, <2>1, <2>2
       DEF PortInv, LoopKnows, LightOffDuringTiming, Held, PortTaken, Cable, Follows
<1>6. ASSUME NEW duration \in Durations, NEW ramp \in BOOLEAN, StartBulb(duration, ramp)
      PROVE  PortInv'
  <2> DEFINE r == IF ramp THEN shutter_off(dev) ELSE dev
             o == [r EXCEPT !.bulb_open = TRUE]
             s == SkipLight(o)
  <2>1. /\ dev' = s /\ exposing' \in BOOLEAN /\ conf' = conf /\ skips' = skips
        /\ visiting' = 0 /\ main' = "starting" /\ main \in {"gap", "retry"}
        /\ bulb' = [bulb EXCEPT !.bulbRunning = FALSE, !.bulbDuration = duration, !.newBulb = TRUE]
    BY <1>1, <1>6, DriveTypes DEF StartBulb, MainStep
  <2>2. Lets(dev, r) /\ Sound(r)
    BY <1>1, OffLets, LetsNothing DEF Lets, Follows
  <2> HIDE DEF r
  <2>3. /\ o \in Device /\ o.calls = r.calls /\ o.dropped = r.dropped /\ o.skipTask = r.skipTask
        /\ o.shutter = r.shutter /\ o.shutter_state = r.shutter_state
    BY <2>2 DEF Sound, Device
  <2> HIDE DEF o
  <2>4. /\ s \in Device /\ s.calls = o.calls /\ s.dropped = o.dropped /\ s.skipTask
        /\ s.shutter = o.shutter /\ s.shutter_state = o.shutter_state
    BY <2>3 DEF SkipLight, Device
  <2> HIDE DEF s
  <2>5. Sound(s) /\ (Accounted(r) => Accounted(s))
    BY <2>2, <2>3, <2>4 DEF Sound, Armed, Accounted, PendingRelease
  <2>6. (Accounted(dev) => Accounted(s)) /\ (s.shutter => dev.shutter)
    BY <2>2, <2>3, <2>4, <2>5 DEF Lets, Follows
  <2>7. bulb'.newBulb
    BY <1>1, <2>1 DEF Bulb
  <2>8. dev'.shutter /\ ~PortTaken => Accounted(dev') \/ Held'
    BY <2>1, <2>6, <2>7 DEF PortInv, LoopKnows, Held, Cable
  <2> QED
    BY <1>0, <1>1, <2>1, <2>4, <2>5, <2>7, <2>8
       DEF PortInv, LoopKnows, LightOffDuringTiming, PortTaken
<1>7. CASE BulbStarted
  <2>1. /\ dev' = dev /\ exposing' = exposing /\ conf' = conf /\ skips' = skips
        /\ visiting' = 0 /\ main' = "bulb" /\ main = "starting" /\ bulb' = bulb
        /\ ~bulb.newBulb
    BY <1>7 DEF BulbStarted, MainStep
  <2> QED
    BY <1>0, <1>1, <2>1, LettingStep, LetsNothing
       DEF PortInv, LoopKnows, LightOffDuringTiming, Held, Cable
<1>8. CASE BulbFailed
  <2> DEFINE s == [dev EXCEPT !.skipTask = FALSE]
  <2>1. /\ dev' = s /\ exposing' \in BOOLEAN /\ conf' = conf
        /\ skips' = skips /\ visiting' = 0 /\ main' = "retry" /\ main = "starting"
        /\ ~bulb.newBulb
    BY <1>1, <1>8, DriveTypes DEF BulbFailed, MainStep
  <2>2. /\ s \in Device /\ s.calls = dev.calls /\ s.dropped = dev.dropped
        /\ s.shutter = dev.shutter /\ s.shutter_state = dev.shutter_state
    BY <1>1 DEF Sound, Device
  <2> HIDE DEF s
  <2>3. Sound(s) /\ (Accounted(dev) => Accounted(s))
    BY <1>1, <2>2 DEF Sound, Armed, Accounted, PendingRelease
  <2>4. ~bulb'.newBulb /\ ~bulb'.bulbRunning
    BY <1>1, <1>8 DEF BulbFailed, Bulb
  <2>5. dev'.shutter /\ ~PortTaken => Accounted(dev') \/ Held'
    BY <2>1, <2>2, <2>3 DEF PortInv, Held, Cable
  <2> QED
    BY <1>0, <1>1, <2>1, <2>3, <2>4, <2>5 DEF PortInv, LoopKnows, LightOffDuringTiming, PortTaken
<1>9. CASE Recover
  <2> DEFINE a == shutter_off(dev)
             b == CameraBulbEnd(a, "ok")
             c == shutter_half(b)
             e == shutter_off(c)
  <2>1. /\ dev' = e /\ exposing' \in BOOLEAN /\ conf' = conf
        /\ skips' = skips /\ visiting' = 0 /\ main' = "gap" /\ main = "retry"
        /\ bulb' = bulb
    BY <1>1, <1>9, DriveTypes DEF Recover, MainStep
  <2>2. Lets(dev, a) /\ Sound(a)
    BY <1>1, OffLets DEF Lets, Follows
  <2> HIDE DEF a
  <2>3. Lets(a, b) /\ Sound(b)
    BY <2>2, RemoteEndLets DEF Lets, Follows
  <2> HIDE DEF b
  <2>4. Lets(b, c) /\ Sound(c)
    BY <2>3, HalfLets DEF Lets, Follows
  <2> HIDE DEF c
  <2>5. Lets(c, e) /\ (~PortTaken => Closed(e))
    BY <2>4, OffLets
  <2> HIDE DEF e
  <2>6. Lets(dev, e)
    BY <2>2, <2>3, <2>4, <2>5, LetsTwice
  <2> QED
    BY <1>0, <1>1, <2>1, <2>5, <2>6, LettingStep
       DEF PortInv, LoopKnows, LightOffDuringTiming, Closed
<1>10. ASSUME NEW mirrorUp \in BOOLEAN, BulbDone(mirrorUp)
       PROVE  PortInv'
  <2>1. /\ dev' \in {dev, shutter_half(dev)} /\ exposing' \in BOOLEAN /\ conf' = conf
        /\ skips' = skips /\ visiting' = 0 /\ main' = "gap" /\ main = "bulb"
        /\ bulb' = bulb /\ ~bulb.bulbRunning
    BY <1>1, <1>10, DriveTypes DEF BulbDone, MainStep
  <2>2. Lets(dev, dev')
    BY <1>1, <2>1, HalfLets, LetsNothing
  <2> QED
    BY <1>0, <1>1, <2>1, <2>2, LettingStep DEF PortInv, LoopKnows, LightOffDuringTiming, Held
<1>11. ASSUME NEW usb \in UsbOutcomes, StopRun(usb)
       PROVE  PortInv'
  <2>1. /\ dev' = RunEnd(dev, usb) /\ exposing' \in BOOLEAN /\ conf' = conf
        /\ skips' = skips /\ visiting' = 0 /\ main' = "stopped" /\ main \in {"gap", "retry", "bulb"}
        /\ bulb' = bulb
    BY <1>1, <1>11, DriveTypes DEF StopRun, MainStep
  <2>2. Lets(dev, dev') /\ Quiet(dev') /\ dev'.skipTask = dev.skipTask
    BY <1>1, <2>1, RunEndLets DEF Lets, Follows
  <2> QED
    BY <1>0, <1>1, <2>1, <2>2, LettingStep DEF PortInv, LoopKnows, LightOffDuringTiming, Quiet
<1> QED
  BY <1>2, <1>3, <1>4, <1>5, <1>6, <1>7, <1>8, <1>9, <1>10, <1>11 DEF Main

\* The tick that runs a slot: the call it takes out of the queue releases the
\* line itself, if it is one of those a press is waiting for.
LEMMA SlotLets ==
    ASSUME PortInv, TickSlot
    PROVE  /\ dev'.shutter /\ ~PortTaken => Accounted(dev') \/ (dev.shutter /\ ~Accounted(dev))
           /\ Quiet(dev) => Quiet(dev')
           /\ Sound(dev') /\ dev'.skipTask = dev.skipTask /\ exposing' \in BOOLEAN
<1> DEFINE slot == dev.calls[visiting]
           counted == [dev EXCEPT !.calls[visiting].time = Elapse(@, skips)]
           after == IF slot.time = 0 THEN dev
                    ELSE IF Elapse(slot.time, skips) > 0 THEN counted
                    ELSE Callback(counted, slot.func)
<1>1. /\ Sound(dev) /\ skips \in Nat /\ visiting \in Slots /\ Drive(after)
      /\ exposing \in BOOLEAN
  BY DEF PortInv, TickSlot
<1>2. dev' = after /\ exposing' \in BOOLEAN
  BY <1>1, DriveTypes
<1>3. CASE slot.time = 0
  BY <1>1, <1>2, <1>3
<1>4. CASE slot.time # 0
  <2>1. /\ Sound(counted) /\ counted.shutter = dev.shutter
        /\ counted.shutter_state = dev.shutter_state
        /\ counted.skipTask = dev.skipTask /\ slot.func \in Callbacks
        /\ Elapse(slot.time, skips) > 0 \/ slot.func \notin Releases => Lets(dev, counted)
    BY <1>1, <1>4, CountedLets
  <2> HIDE DEF counted, slot
  <2>2. CASE Elapse(slot.time, skips) > 0
    <3>1. Lets(dev, dev')
      BY <1>2, <1>4, <2>1, <2>2
    <3> QED
      BY <1>2, <3>1 DEF Lets, Follows, Quiet
  <2>3. CASE ~(Elapse(slot.time, skips) > 0)
    <3>1. dev' = Callback(counted, slot.func)
      BY <1>2, <1>4, <2>3
    <3>2. /\ Lets(counted, dev')
          /\ slot.func \in Releases /\ ~PortTaken => ~dev'.shutter
      BY <2>1, <3>1, CallbackLets
    <3> QED
      BY <1>2, <2>1, <3>2 DEF Lets, Follows, Quiet
  <2> QED
    BY <2>2, <2>3
<1> QED
  BY <1>3, <1>4

\* Every step keeps the invariant: the interrupts.
LEMMA PortTickStep ==
    ASSUME PortInv, Tick \/ (\E usb \in UsbOutcomes : LightningInterrupt(usb)) \/ UNCHANGED vars
    PROVE  PortInv'
<1>0. BulbInv'
  BY BulbStep DEF PortInv, Next
<1>1. /\ Sound(dev) /\ skips \in Nat /\ exposing \in BOOLEAN /\ bulb \in Bulb
      /\ 0 \in 0 .. (CLOCK_IN_QUEUE + 1) /\ 1 \in 0 .. (CLOCK_IN_QUEUE + 1)
      /\ \A i \in Slots : i + 1 \in 0 .. (CLOCK_IN_QUEUE + 1)
      /\ LoopKnows /\ LightOffDuringTiming
  BY QueueAssumption DEF PortInv, BulbInv, Slots
<1>2. ASSUME NEW usb \in UsbOutcomes, NEW input \in BOOLEAN, TickBulbStart(usb, input)
      PROVE  PortInv'
  <2>1. /\ dev' = shutter_bulbStartQuick(dev, usb) /\ exposing' \in BOOLEAN /\ conf' = conf
        /\ skips' \in Nat /\ visiting' = 0 /\ main' = main /\ bulb.newBulb
    BY <1>1, <1>2, DriveTypes DEF TickBulbStart, SkippedTick
  <2>2. bulb'.newBulb = FALSE /\ bulb'.bulbRunning = TRUE
    BY <1>1, <1>2 DEF TickBulbStart, Bulb
  <2>3. /\ Sound(dev') /\ (Accounted(dev) => Accounted(dev')) /\ dev'.skipTask = dev.skipTask
        /\ dev'.shutter /\ ~PortTaken
             => dev.shutter \/ Accounted(dev') \/ (Cable /\ conf.bulbMode = "hold")
    BY <1>1, <2>1, BulbStartFollows DEF Follows
  <2>4. main \notin {"gap", "retry", "bulb", "stopped"}
    BY <1>1, <2>1 DEF LoopKnows
  <2>5. dev'.shutter /\ ~PortTaken => Accounted(dev') \/ Held'
    BY <2>1, <2>2, <2>3 DEF PortInv, Held, Cable
  <2> QED
    BY <1>0, <1>1, <2>1, <2>2, <2>3, <2>4, <2>5
       DEF PortInv, LoopKnows, LightOffDuringTiming, PortTaken
<1>3. ASSUME NEW usb \in UsbOutcomes, TickBulbEnd(usb)
      PROVE  PortInv'
  <2> DEFINE q == shutter_bulbEndQuick(dev, usb)
             s == [q EXCEPT !.skipTask = FALSE]
  <2>1. /\ dev' = s /\ exposing' \in BOOLEAN /\ conf' = conf
        /\ skips' \in Nat /\ visiting' = 0 /\ main' = main /\ ~bulb.newBulb /\ bulb.bulbRunning
    BY <1>1, <1>3, DriveTypes DEF TickBulbEnd, SkippedTick, Ticking
  <2>2. bulb'.newBulb = FALSE /\ bulb'.bulbRunning = FALSE
    BY <1>1, <1>3, <2>1 DEF TickBulbEnd, Bulb, Ended
  <2>3. /\ Sound(q) /\ (Accounted(dev) => Accounted(q))
        /\ Cable /\ conf.bulbMode = "hold" /\ ~PortTaken => ~q.shutter
        /\ q.shutter /\ ~PortTaken => dev.shutter \/ Accounted(q)
        /\ Quiet(dev) => Quiet(q)
    BY <1>1, BulbEndFollows DEF Follows
  <2> HIDE DEF q
  <2>4. /\ s \in Device /\ s.calls = q.calls /\ s.dropped = q.dropped
        /\ s.shutter = q.shutter /\ s.shutter_state = q.shutter_state
    BY <2>3 DEF Sound, Device
  <2> HIDE DEF s
  <2>5. Sound(s) /\ (Accounted(q) => Accounted(s)) /\ (Quiet(q) => Quiet(s))
    BY <2>3, <2>4 DEF Sound, Armed, Accounted, PendingRelease, Quiet
  <2>6. dev'.shutter /\ ~PortTaken => Accounted(dev')
    BY <2>1, <2>3, <2>4, <2>5 DEF PortInv, Held
  <2>7. LoopKnows' /\ LightOffDuringTiming'
    BY <1>1, <2>1, <2>2 DEF LoopKnows, LightOffDuringTiming
  <2>8. main' = "stopped" /\ ~conf.lightning => Quiet(dev')
    BY <2>1, <2>3, <2>5 DEF PortInv
  <2> QED
    BY <1>0, <1>1, <2>1, <2>5, <2>6, <2>7, <2>8 DEF PortInv, PortTaken, Quiet
<1>4. CASE TickBulbSync
  <2>1. /\ dev' = dev /\ exposing' = exposing /\ conf' = conf
        /\ skips' \in Nat /\ visiting' = 0 /\ main' = main
    BY <1>1, <1>4 DEF TickBulbSync, SkippedTick
  <2>2. bulb'.newBulb = bulb.newBulb /\ bulb'.bulbRunning = bulb.bulbRunning
    BY <1>1, <1>4 DEF TickBulbSync, Resync, Bulb
  <2> QED
    BY <1>0, <1>1, <2>1, <2>2, LettingStep, LetsNothing
       DEF PortInv, LoopKnows, LightOffDuringTiming, Held, Cable
<1>5. CASE TickStart
  <2>1. /\ dev' = dev /\ exposing' = exposing /\ conf' = conf
        /\ skips' = skips /\ visiting' = 1 /\ main' = main
    BY <1>5 DEF TickStart
  <2>2. bulb'.newBulb = bulb.newBulb /\ bulb'.bulbRunning = bulb.bulbRunning
    BY <1>1, <1>5 DEF TickStart, Bulb
  <2> QED
    BY <1>0, <1>1, <2>1, <2>2, LettingStep, LetsNothing
       DEF PortInv, LoopKnows, LightOffDuringTiming, Held, Cable
<1>6. CASE TickSlot
  <2>1. /\ conf' = conf /\ skips' = skips /\ bulb' = bulb /\ main' = main
        /\ visiting' \in 0 .. (CLOCK_IN_QUEUE + 1)
    BY <1>1, <1>6 DEF TickSlot
  <2>2. /\ dev'.shutter /\ ~PortTaken => Accounted(dev') \/ (dev.shutter /\ ~Accounted(dev))
        /\ Quiet(dev) => Quiet(dev')
        /\ Sound(dev') /\ dev'.skipTask = dev.skipTask /\ exposing' \in BOOLEAN
    BY <1>6, SlotLets
  <2>3. /\ PortTaken' = PortTaken /\ Held' = Held /\ LoopKnows'
        /\ Quiet(dev)' = Quiet(dev')
    BY <1>1, <2>1 DEF PortTaken, Held, Cable, LoopKnows, Quiet
  <2> QED
    BY <1>0, <1>1, <2>1, <2>2, <2>3 DEF PortInv, LightOffDuringTiming
<1>7. CASE TickEnd \/ UNCHANGED vars
  <2>1. /\ dev' = dev /\ exposing' = exposing /\ conf' = conf
        /\ skips' \in Nat /\ visiting' \in 0 .. (CLOCK_IN_QUEUE + 1) /\ main' = main /\ bulb' = bulb
    BY <1>1, <1>7 DEF TickEnd, vars, PortInv
  <2> QED
    BY <1>0, <1>1, <2>1, LettingStep, LetsNothing
       DEF PortInv, LoopKnows, LightOffDuringTiming, Held, Cable
<1>8. ASSUME NEW usb \in UsbOutcomes, LightningInterrupt(usb)
      PROVE  PortInv'
  <2>1. /\ dev' = shutter_capture(dev, usb) /\ exposing' \in BOOLEAN /\ conf' = conf
        /\ skips' = skips /\ visiting' = 0 /\ main' = main /\ bulb' = bulb /\ conf.lightning
    BY <1>1, <1>8, DriveTypes DEF LightningInterrupt
  <2>2. Follows(dev, dev') /\ (dev'.shutter /\ ~PortTaken => Accounted(dev') \/ dev.shutter)
    BY <1>1, <2>1, CaptureFollows
  <2> QED
    BY <1>0, <1>1, <2>1, <2>2
       DEF PortInv, LoopKnows, LightOffDuringTiming, Held, PortTaken, Cable, Follows
<1> QED
  BY <1>2, <1>3, <1>4, <1>5, <1>6, <1>7, <1>8 DEF Tick

\* The invariant holds for every number of slots, set of settings and durations.
THEOREM PortInvariant == Spec => []PortInv
<1>1. PortInv /\ [Next]_vars => PortInv'
  BY PortMainStep, PortTickStep DEF Next
<1> QED
  BY <1>1, PortInit, PTL DEF Spec

\* Every variable has its type in every reachable state, for every number of
\* slots, counter width, setting and duration.
THEOREM PortTypeCorrect == Spec => []TypeOK
  BY PortInvariant, PortTypes, PTL

\* The light sensor is off from Clock::bulb to the tick that closes the
\* shutter, whatever ends or restarts the exposure.
THEOREM LightIsOff == Spec => []LightOffDuringTiming
<1>1. PortInv => LightOffDuringTiming
  BY DEF PortInv
<1> QED
  BY <1>1, PortInvariant, PTL

\* A press on the cable is never left without a release: whenever the shutter
\* line is open and no exposure holds it, shutter_off or shutter_half is
\* pending, unless Clock::in found no free slot for some request.
THEOREM PressesAreReleased == Spec => []ReleasePending
<1>1. PortInv => ReleasePending
  BY DEF PortInv, ReleasePending, Held, Accounted, PendingRelease
<1> QED
  BY <1>1, PortInvariant, PTL

\* Once RUN_END is through, no pending call, no interrupted exposure and no tick
\* opens the shutter line again.
THEOREM StopCloses == Spec => []ClosedAfterStop
<1>1. PortInv => ClosedAfterStop
  BY DEF PortInv, ClosedAfterStop, Quiet
<1> QED
  BY <1>1, PortInvariant, PTL
=============================================================================
