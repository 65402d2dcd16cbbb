------------------------- MODULE ShutterPortProofs -------------------------
(***************************************************************************)
(* The length of a bulb exposure for every duration, offset and setting    *)
(* that fits the counter: what the unsigned arithmetic of Clock::count     *)
(* makes of it, where it wraps as well, is what the exposure lasts, and    *)
(* neither pc-sync, a cancelled start nor a restart changes it.            *)
(***************************************************************************)
EXTENDS ShutterPort, TLAPS

\* What is left of an exposure completes its length, and a sync that is still
\* awaited leads to the length the exposure is then to have.
Counting ==
    /\ hist.asked \in Durations
    /\ hist.age + Left = Turned(ExposureLength)
    /\ bulb.bulbDurationPCsync > 0
         => bulb.bulbDurationPCsync = hist.asked - conf.bulbEndOffset

Pending ==
    /\ ~bulb.bulbRunning
    /\ hist.asked \in Durations
    /\ bulb.bulbDuration = hist.asked

\* The inductive invariant.
BulbInv ==
    /\ conf \in Configs
    /\ bulb \in Bulb
    /\ hist \in History
    /\ bulb.newBulb => Pending
    /\ bulb.bulbRunning => Counting

USE ConfigAssumption, DurationAssumption

\* A remainder is what is left of any multiple that leaves less than a turn.
LEMMA RemainderIs ==
    ASSUME NEW M \in Nat \ {0}, NEW n \in Int, NEW a \in Int,
           NEW r \in 0 .. (M - 1), n = M * a + r
    PROVE  n % M = r
<1> DEFINE b == n \div M
           s == n % M
<1>1. b \in Int /\ s \in 0 .. (M - 1) /\ n = M * b + s
  OBVIOUS
<1> HIDE DEF b, s
<1>2. M * (a - b) = s - r
  <2>1. M * (a - b) = M * a - M * b
    BY <1>1
  <2> QED
    BY <1>1, <2>1
<1>3. CASE a - b >= 1
  <2>1. M * (a - b) >= M
    BY <1>1, <1>3
  <2> QED
    BY <1>1, <1>2, <2>1
<1>4. CASE a - b <= -1
  <2>1. M * (a - b) <= -M
    BY <1>1, <1>4
  <2> QED
    BY <1>1, <1>2, <2>1
<1>5. CASE a - b = 0
  BY <1>1, <1>2, <1>5 DEF s
<1> QED
  BY <1>1, <1>3, <1>4, <1>5

\* The remainder in the counter's width.
LEMMA Turns ==
    ASSUME NEW n \in Int
    PROVE  /\ n % DurationModulus \in BulbTimes
           /\ Turned(n) = IF n % DurationModulus = 0 THEN DurationModulus
                          ELSE n % DurationModulus
<1> DEFINE M == DurationModulus
           q == n \div M
           x == n % M
<1>1. M \in Nat \ {0}
  OBVIOUS
<1>2. q \in Int /\ x \in 0 .. (M - 1) /\ n = M * q + x
  BY <1>1
<1> HIDE DEF M, q, x
<1>3. x \in BulbTimes
  BY <1>2 DEF BulbTimes, M
<1>4. CASE x = 0
  <2>1. n - 1 = M * (q - 1) + (M - 1) /\ q - 1 \in Int /\ M - 1 \in 0 .. (M - 1)
    <3>1. n = M * q
      BY <1>1, <1>2, <1>4
    <3>2. M * (q - 1) = M * q - M
      BY <1>1, <1>2
    <3> QED
      BY <1>1, <1>2, <3>1, <3>2
  <2>2. (n - 1) % M = M - 1
    <3> DEFINE m == n - 1
               a == q - 1
               r == M - 1
    <3>1. m \in Int /\ a \in Int /\ r \in 0 .. (M - 1) /\ m = M * a + r
      BY <2>1
    <3> HIDE DEF m, a, r
    <3>2. m % M = r
      BY <1>1, <3>1, RemainderIs
    <3> QED
      BY <3>2 DEF m, r
  <2> QED
    BY <1>1, <1>3, <1>4, <2>2 DEF Turned, M, x
<1>5. CASE x # 0
  <2>1. n - 1 = M * q + (x - 1) /\ x - 1 \in 0 .. (M - 1)
    BY <1>1, <1>2, <1>5
  <2>2. (n - 1) % M = x - 1
    BY <1>1, <1>2, <2>1, RemainderIs
  <2> QED
    BY <1>2, <1>3, <1>5, <2>2 DEF Turned, M, x
<1> QED
  BY <1>4, <1>5

\* The clock starts with no exposure.
LEMMA BulbInit == Init => BulbInv
<1> SUFFICES ASSUME Init PROVE BulbInv
  OBVIOUS
<1>1. 0 \in BulbTimes
  BY DEF BulbTimes
<1> QED
  BY <1>1 DEF Init, BulbInv, Bulb, History

\* Neither the main loop outside Clock nor a callback touches the exposure.
LEMMA ExposureUntouched ==
    ASSUME BulbInv, UNCHANGED <<conf, bulb, hist>>
    PROVE  BulbInv'
  BY DEF BulbInv, Counting, Pending, ExposureLength, Left, Turned

\* Clock::reset and Clock::cancelBulb leave nothing to count.
LEMMA NoExposureLeft ==
    ASSUME BulbInv, UNCHANGED <<conf, hist>>, bulb' \in Bulb,
           ~bulb'.newBulb, ~bulb'.bulbRunning
    PROVE  BulbInv'
  BY DEF BulbInv

\* Subtracting the end offset is guarded, so it stays within the duration.
LEMMA LessEndOffsetValue ==
    ASSUME NEW d \in Nat, BulbInv
    PROVE  /\ LessEndOffset(d) \in 0 .. d
           /\ LessEndOffset(d) > 0 => LessEndOffset(d) = d - conf.bulbEndOffset
<1>1. conf.bulbEndOffset \in Nat
  BY DEF BulbInv, Config
<1> QED
  BY <1>1 DEF LessEndOffset

\* The tick that opens the shutter: offset and sync wait are added in the
\* width of bulbDuration.
LEMMA StartKeepsBulbInv ==
    ASSUME BulbInv, NEW usb \in UsbOutcomes, NEW input \in BOOLEAN,
           TickBulbStart(usb, input)
    PROVE  BulbInv'
<1> DEFINE waits == conf.sync /\ ~input
           longer == IF waits /\ conf.pcSyncRequired THEN SyncWait ELSE 0
           total == hist.asked + longer + conf.bulbOffset
           awaited == IF waits THEN LessEndOffset(hist.asked) ELSE 0
<1>1. /\ conf \in Config /\ conf \in Configs /\ conf' = conf
      /\ bulb \in Bulb /\ bulb.newBulb
      /\ hist \in History /\ hist.asked \in Durations
      /\ bulb.bulbDuration = hist.asked
  BY DEF BulbInv, Pending, TickBulbStart, SkippedTick
<1>2. /\ hist.asked \in Nat /\ hist.asked \in BulbTimes
      /\ conf.bulbOffset \in Int
      /\ longer \in 0 .. SyncWait
  BY <1>1 DEF Bulb, BulbTimes, Config
<1>3. total \in Int
  BY <1>2
<1>4. /\ total % DurationModulus \in BulbTimes
      /\ Turned(total) = IF total % DurationModulus = 0 THEN DurationModulus
                         ELSE total % DurationModulus
  BY <1>3, Turns
<1>5. /\ awaited \in 0 .. (DurationModulus - 1)
      /\ awaited > 0 => awaited = hist.asked - conf.bulbEndOffset
  BY <1>2, LessEndOffsetValue DEF BulbTimes
<1>6. /\ bulb' = [bulb EXCEPT !.newBulb = FALSE, !.bulbRunning = TRUE,
                              !.bulbDuration = total % DurationModulus,
                              !.bulbDurationPCsync = awaited]
      /\ hist' = [hist EXCEPT !.age = 0, !.synced = FALSE, !.waited = (longer > 0)]
  BY <1>1 DEF TickBulbStart
<1>7. bulb' \in Bulb /\ hist' \in History
  <2>1. bulb' \in Bulb
    <3> DEFINE wrapped == total % DurationModulus
    <3>1. wrapped \in BulbTimes /\ awaited \in BulbTimes
      BY <1>4, <1>5 DEF BulbTimes
    <3>2. bulb' = [bulb EXCEPT !.newBulb = FALSE, !.bulbRunning = TRUE,
                               !.bulbDuration = wrapped, !.bulbDurationPCsync = awaited]
      BY <1>6
    <3> HIDE DEF wrapped, awaited
    <3> QED
      BY <1>1, <3>1, <3>2 DEF Bulb
  <2>2. (longer > 0) \in BOOLEAN
    OBVIOUS
  <2>3. hist' \in History
    BY <1>1, <1>6, <2>2, Zenon DEF History
  <2> QED
    BY <2>1, <2>3
<1>8. /\ bulb'.newBulb = FALSE /\ bulb'.bulbRunning = TRUE
      /\ bulb'.bulbDuration = total % DurationModulus /\ bulb'.bulbDurationPCsync = awaited
      /\ hist'.asked = hist.asked /\ hist'.age = 0
      /\ hist'.synced = FALSE /\ hist'.waited = (longer > 0)
  BY <1>1, <1>6 DEF Bulb, History
<1>9. total = hist.asked + conf.bulbOffset + (IF longer > 0 THEN SyncWait ELSE 0)
  BY <1>2
<1> HIDE DEF total, awaited, longer
<1>10. ExposureLength' = total
  BY <1>1, <1>8, <1>9 DEF ExposureLength
<1>11. Turned(ExposureLength)' = Turned(total)
  BY <1>10 DEF Turned
<1>12. Left' = Turned(total)
  BY <1>4, <1>8 DEF Left
<1>13. hist'.age + Left' = Turned(ExposureLength)'
  <2>1. Turned(total) \in Int
    BY <1>4 DEF BulbTimes
  <2> QED
    BY <1>8, <1>11, <1>12, <2>1
<1> QED
  BY <1>1, <1>5, <1>7, <1>8, <1>13 DEF BulbInv, Counting

\* The exposure is timed anew from the sync, for the length then asked for.
LEMMA SyncKeepsBulbInv ==
    ASSUME BulbInv, TickBulbSync
    PROVE  BulbInv'
<1>1. /\ conf' = conf /\ conf \in Configs /\ bulb \in Bulb /\ hist \in History
      /\ ~bulb.newBulb /\ hist.asked \in Durations
      /\ bulb.bulbDurationPCsync > 0
      /\ bulb.bulbDurationPCsync = hist.asked - conf.bulbEndOffset
  BY DEF BulbInv, Counting, TickBulbSync, SkippedTick, Ticking
<1>2. /\ bulb' = [bulb EXCEPT !.bulbDuration = bulb.bulbDurationPCsync,
                              !.bulbDurationPCsync = 0, !.usingSync = TRUE]
      /\ hist' = [hist EXCEPT !.age = 0, !.synced = TRUE]
  BY DEF TickBulbSync, Resync
<1>3. bulb' \in Bulb /\ hist' \in History
  <2>0. 0 \in BulbTimes
    BY DEF BulbTimes
  <2>1. bulb' \in Bulb
    BY <1>1, <1>2, <2>0 DEF Bulb
  <2>2. hist' \in History
    BY <1>1, <1>2 DEF History
  <2> QED
    BY <2>1, <2>2
<1>4. /\ bulb'.newBulb = FALSE
      /\ bulb'.bulbDuration = hist.asked - conf.bulbEndOffset
      /\ bulb'.bulbDuration > 0 /\ bulb'.bulbDurationPCsync = 0
      /\ hist'.asked = hist.asked /\ hist'.age = 0 /\ hist'.synced = TRUE
  BY <1>1, <1>2 DEF Bulb, History
<1>5. bulb'.bulbDuration \in Nat
  BY <1>3 DEF Bulb, BulbTimes
<1>6. ExposureLength' = bulb'.bulbDuration
  BY <1>1, <1>4 DEF ExposureLength
<1>7. bulb'.bulbDuration % DurationModulus = bulb'.bulbDuration
  BY <1>3 DEF Bulb, BulbTimes
<1>8. Turned(bulb'.bulbDuration) = bulb'.bulbDuration
  BY <1>4, <1>5, <1>7, Turns
<1>9. Turned(ExposureLength)' = bulb'.bulbDuration /\ Left' = bulb'.bulbDuration
  BY <1>4, <1>5, <1>6, <1>8 DEF Left, Turned
<1> QED
  BY <1>1, <1>3, <1>4, <1>5, <1>9 DEF BulbInv, Counting

\* A tick in the middle of the exposure takes one millisecond off it.
LEMMA CountKeepsBulbInv ==
    ASSUME BulbInv, TickStart
    PROVE  BulbInv'
<1>1. CASE ~Ticking
  BY <1>1, ExposureUntouched DEF TickStart
<1>2. CASE Ticking
  <2>1. /\ conf' = conf /\ conf \in Configs /\ bulb \in Bulb /\ hist \in History
        /\ ~bulb.newBulb /\ bulb.bulbRunning /\ Counting
        /\ Remaining # 0
        /\ bulb' = [bulb EXCEPT !.bulbDuration = Remaining]
        /\ hist' = [hist EXCEPT !.age = @ + 1]
    BY <1>2 DEF BulbInv, TickStart, Ticking
  <2>2. bulb.bulbDuration \in 0 .. (DurationModulus - 1) /\ Left \in 1 .. DurationModulus
    BY <2>1 DEF Bulb, BulbTimes, Left
  <2>3. /\ Remaining = Left - 1 /\ Remaining \in 1 .. (DurationModulus - 1)
        /\ Remaining \in BulbTimes
    <3>1. bulb.bulbDuration - 1 \in Int
      BY <2>2
    <3>2. CASE bulb.bulbDuration = 0
      <4>1. DurationModulus - 1 \in 0 .. (DurationModulus - 1) /\ -1 = DurationModulus * (-1) + (DurationModulus - 1)
        OBVIOUS
      <4>2. (-1) % DurationModulus = DurationModulus - 1
        BY <4>1
      <4> QED
        BY <2>1, <3>2, <4>2 DEF Remaining, Left, BulbTimes
    <3>3. CASE bulb.bulbDuration # 0
      BY <2>1, <2>2, <3>3 DEF Remaining, Left, BulbTimes
    <3> QED
      BY <3>2, <3>3
  <2>4. bulb' \in Bulb /\ hist' \in History
    BY <2>1, <2>3 DEF Bulb, History
  <2>5. /\ bulb'.newBulb = FALSE /\ bulb'.bulbRunning = TRUE
        /\ bulb'.bulbDuration = Left - 1 /\ bulb'.bulbDuration > 0
        /\ bulb'.bulbDurationPCsync = bulb.bulbDurationPCsync
        /\ hist'.asked = hist.asked /\ hist'.age = hist.age + 1
        /\ hist'.synced = hist.synced /\ hist'.waited = hist.waited
    BY <2>1, <2>3 DEF Bulb, History
  <2>6. Turned(ExposureLength)' = Turned(ExposureLength)
    BY <2>1, <2>5 DEF ExposureLength, Turned
  <2>7. hist.age \in Nat /\ Left' = Left - 1 /\ hist'.age + Left' = hist.age + Left
    BY <2>1, <2>2, <2>5 DEF History, Left
  <2> QED
    BY <2>1, <2>4, <2>5, <2>6, <2>7 DEF BulbInv, Counting
<1> QED
  BY <1>1, <1>2

\* Every step keeps the invariant.
LEMMA BulbStep == BulbInv /\ [Next]_vars => BulbInv'
<1> SUFFICES ASSUME BulbInv, [Next]_vars PROVE BulbInv'
  OBVIOUS
<1>0. bulb \in Bulb /\ hist \in History /\ conf \in Configs /\ 0 \in BulbTimes
  BY DEF BulbInv, BulbTimes
<1>1. CASE BeginRun
  <2>1. bulb' \in Bulb /\ ~bulb'.newBulb /\ ~bulb'.bulbRunning
    BY <1>0, <1>1 DEF BeginRun, Bulb
  <2> QED
    BY <1>1, <2>1, NoExposureLeft DEF BeginRun, MainStep
<1>2. CASE \/ GapHalf \/ GapPulse \/ Recover \/ BulbStarted
           \/ \E usb \in UsbOutcomes : Capture(usb) \/ StopRun(usb) \/ LightningInterrupt(usb)
           \/ \E mirrorUp \in BOOLEAN : BulbDone(mirrorUp)
  BY <1>2, ExposureUntouched
     DEF GapHalf, GapPulse, Recover, BulbStarted, Capture, StopRun, LightningInterrupt,
         BulbDone, MainStep
<1>3. ASSUME NEW duration \in Durations, NEW ramp \in BOOLEAN, StartBulb(duration, ramp)
      PROVE  BulbInv'
  <2>1. duration \in BulbTimes /\ duration \in Nat
    BY <1>0 DEF BulbTimes
  <2>2. /\ conf' = conf
        /\ bulb' = [bulb EXCEPT !.bulbRunning = FALSE, !.bulbDuration = duration,
                                !.newBulb = TRUE]
        /\ hist' = [hist EXCEPT !.asked = duration, !.age = 0]
    BY <1>3 DEF StartBulb, MainStep
  <2>3. bulb' \in Bulb /\ hist' \in History
    BY <1>0, <2>1, <2>2 DEF Bulb, History
  <2>4. bulb'.bulbRunning = FALSE /\ bulb'.bulbDuration = duration /\ hist'.asked = duration
    BY <1>0, <2>2 DEF Bulb, History
  <2> QED
    BY <1>0, <2>2, <2>3, <2>4 DEF BulbInv, Pending
<1>4. CASE BulbFailed
  <2>1. bulb' \in Bulb /\ ~bulb'.newBulb /\ ~bulb'.bulbRunning
    BY <1>0, <1>4 DEF BulbFailed, Bulb
  <2> QED
    BY <1>4, <2>1, NoExposureLeft DEF BulbFailed, MainStep
<1>5. ASSUME NEW usb \in UsbOutcomes, NEW input \in BOOLEAN, TickBulbStart(usb, input)
      PROVE  BulbInv'
  BY <1>5, StartKeepsBulbInv
<1>6. ASSUME NEW usb \in UsbOutcomes, TickBulbEnd(usb)
      PROVE  BulbInv'
  <2>1. conf' = conf /\ ~bulb.newBulb /\ hist' = [hist EXCEPT !.age = 0]
    BY <1>6 DEF TickBulbEnd, SkippedTick, Ticking
  <2>2. bulb' = [bulb EXCEPT !.bulbDuration = 0, !.bulbRunning = FALSE,
                             !.usingSync = @ /\ bulb.bulbDurationPCsync = 0]
    BY <1>6 DEF TickBulbEnd, Ended
  <2>3. bulb' \in Bulb /\ hist' \in History /\ ~bulb'.newBulb /\ ~bulb'.bulbRunning
    BY <1>0, <2>1, <2>2 DEF Bulb, History
  <2> QED
    BY <1>0, <2>1, <2>3 DEF BulbInv
<1>7. CASE TickBulbSync
  BY <1>7, SyncKeepsBulbInv
<1>8. CASE TickStart
  BY <1>8, CountKeepsBulbInv
<1>9. CASE TickSlot \/ TickEnd \/ UNCHANGED vars
  BY <1>9, ExposureUntouched DEF TickSlot, TickEnd, vars
<1> QED
  BY <1>1, <1>2, <1>3, <1>4, <1>5, <1>6, <1>7, <1>8, <1>9 DEF Next, Main, Tick

\* The invariant holds for every setting, duration and counter width.
THEOREM BulbInvariant == Spec => []BulbInv
  BY BulbInit, BulbStep, PTL DEF Spec

\* Clock::count times every exposure exactly: the milliseconds a bulb has run
\* and those it has left always add up to what Clock::bulb was asked for, with
\* the offsets and the sync wait that apply, taken in the width of bulbDuration
\* (so to nearly a whole turn of it when a negative offset leaves nothing),
\* whatever the main loop, the deferred calls and the stop key do in between.
THEOREM ExposuresLastAsAsked == Spec => []BulbLength
<1>1. BulbInv => BulbLength
  BY DEF BulbInv, BulbLength, Counting
<1> QED
  BY <1>1, BulbInvariant, PTL
=============================================================================
