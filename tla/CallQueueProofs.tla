-------------------------- MODULE CallQueueProofs --------------------------
(***************************************************************************)
(* The deferred-call slots for any number of slots, any counter width and  *)
(* any delays: no interleaving of the main loop's Clock::in with the       *)
(* interrupts calls an unset function or fires a half written slot, and a  *)
(* callback runs early by the ticks owed when it was armed, no more.       *)
(***************************************************************************)
EXTENDS CallQueue, TLAPS

\* The tick that may interrupt the main loop's call has its slot before it.
StillToVisit == (visiting = 0 /\ ~main.ticked) \/ visiting \in 1 .. main.slot

\* What a main-loop call of Clock::in may rely on while it is interrupted.
MainCallInv ==
    /\ main.pc # "idle" => main.func \in Callbacks
    /\ main.pc = "time" => calls[main.slot].func # Unset
    /\ (visiting # 0 /\ main.pc # "idle") => main.ticked
    /\ (HalfWritten /\ calls[main.slot].time > 0 /\ StillToVisit)
         => calls[main.slot].time >= MaxSkips + 2

\* What the type invariant says of the history variables.
HistoryType == left \in [Slots -> Int] /\ prior \in [Slots -> 0 .. (MaxSkips + 1)]

\* The inductive invariant.
QueueInv ==
    /\ TypeOK
    /\ ArmedSlotHasFunction
    /\ MainCallInv
    /\ SkipAccounting

-----------------------------------------------------------------------------
(* The operators.                                                          *)

\* `after' is `before' with calls of Clock::in by an interrupt added.
Arms(before, after) ==
    /\ after \in Calls
    /\ \A i \in Slots :
         \/ after[i] = before[i]
         \/ before[i].time = 0 /\ after[i].time >= MaxSkips + 2 /\ after[i].func \in Callbacks

USE QueueAssumption, ModulusAssumption, SkipsAssumption, DelayAssumption

\* Clock::in leaves every slot alone but a free one, which it fills.
LEMMA InArms ==
    ASSUME NEW c \in Calls, NEW t \in LongTimes, NEW f \in Callbacks
    PROVE  Arms(c, In(c, t, f))
<1>1. [time |-> t, func |-> f] \in Slot
  BY DEF Slot, Times, LongTimes
<1>2. In(c, t, f) \in Calls
  BY <1>1 DEF In, Calls
<1>3. \A i \in Slots : In(c, t, f)[i] = c[i] \/ (c[i].time = 0 /\ In(c, t, f)[i] = [time |-> t, func |-> f])
  BY DEF In, IsFirstFree
<1> QED
  BY <1>2, <1>3 DEF Arms, LongTimes

\* Two calls of Clock::in in a row arm slots too.
LEMMA ArmsTwice ==
    ASSUME NEW a \in Calls, NEW b \in Calls, NEW c \in Calls, Arms(a, b), Arms(b, c)
    PROVE  Arms(a, c)
  BY DEF Arms

\* What a callback defers only fills free slots.
LEMMA CallsInArms ==
    ASSUME NEW c \in Calls, NEW f, NEW h \in BOOLEAN
    PROVE  Arms(c, CallsIn(c, f, h))
<1> DEFINE checked == In(c, CheckDelay, "check_cable")
<1>0. CheckDelay \in LongTimes /\ HalfDelay \in LongTimes
  BY DEF LongTimes
<1>1. Arms(c, c)
  BY DEF Arms
<1>2. Arms(c, checked)
  BY <1>0, InArms DEF Callbacks
<1>3. checked \in Calls
  BY <1>2 DEF Arms
<1> HIDE DEF checked
<1>4. Arms(checked, In(checked, HalfDelay, "shutter_half_delayed"))
  BY <1>0, <1>3, InArms DEF Callbacks
<1>5. In(checked, HalfDelay, "shutter_half_delayed") \in Calls
  BY <1>4 DEF Arms
<1>6. Arms(c, In(checked, HalfDelay, "shutter_half_delayed"))
  BY <1>2, <1>3, <1>4, <1>5, ArmsTwice
<1> QED
  BY <1>1, <1>2, <1>6 DEF CallsIn, checked

\* One decrement in the width of inTime: exact, or one turn too much.
LEMMA ElapseValue ==
    ASSUME NEW t \in Times, NEW s \in 0 .. MaxSkips
    PROVE  Elapse(t, s) = IF t > s THEN t - (1 + s) ELSE t - (1 + s) + TimeModulus
<1>1. CASE t > s
  BY <1>1 DEF Elapse, Times
<1>2. CASE ~(t > s)
  BY <1>2 DEF Elapse, Times
<1> QED
  BY <1>1, <1>2

\* The idle main loop is a legal state of a call.
LEMMA IdleType == Idle \in MainCall /\ Idle.pc = "idle"
<1>1. 1 \in Slots /\ 0 \in Times
  BY DEF Slots, Times
<1> QED
  BY <1>1 DEF Idle, MainCall

-----------------------------------------------------------------------------
(* Steps.                                                                  *)

\* An interrupt between two ticks that arms slots: a bulb tick, which ages the
\* pending calls and is owed to them, or the external interrupt.
LEMMA ArmingKeepsCalls ==
    ASSUME QueueInv, visiting = 0, visiting' = visiting,
           Arms(calls, calls'),
           NEW d \in {0, 1},
           skips' = skips + d, skips' \in 0 .. MaxSkips,
           Arming(calls, calls',
                  [i \in Slots |-> IF calls[i].time > 0 THEN left[i] - d ELSE left[i]],
                  0, skips')
    PROVE  /\ calls' \in Calls
           /\ HistoryType'
           /\ ArmedSlotHasFunction'
           /\ SkipAccounting'
<1> USE DEF QueueInv, TypeOK, HistoryType, Calls, Slot, Times
<1>1. calls' \in Calls
  BY DEF Arms
<1>2. HistoryType'
  BY <1>1 DEF Arming, Owed, HistoryType
<1>3. ArmedSlotHasFunction'
  BY DEF ArmedSlotHasFunction, Arms, Callbacks, Unset
<1>4. SkipAccounting'
  BY <1>1 DEF SkipAccounting, Arms, Arming, Owed
<1> QED
  BY <1>1, <1>2, <1>3, <1>4

\* The main loop's call survives an interrupt between two ticks.
LEMMA ArmingKeepsMain ==
    ASSUME QueueInv, visiting = 0, visiting' = visiting, Arms(calls, calls'),
           main' = main \/ (main' = TickInterrupt /\ ~main.ticked)
    PROVE  main' \in MainCall /\ MainCallInv'
<1> USE DEF QueueInv, TypeOK, MainCall, TickInterrupt
<1>1. main' \in MainCall
  OBVIOUS
<1>2. /\ main'.pc = main.pc /\ main'.slot = main.slot /\ main'.func = main.func
      /\ main'.ticked \/ main'.ticked = main.ticked
  OBVIOUS
<1>3. MainCallInv'
  BY <1>1, <1>2 DEF MainCallInv, HalfWritten, StillToVisit, Arms, Unset, Callbacks
<1> QED
  BY <1>1, <1>3

\* The invariant holds when the firmware starts.
LEMMA QueueInit == Init => QueueInv
<1> SUFFICES ASSUME Init PROVE QueueInv
  OBVIOUS
<1> USE DEF Init, NoCalls, Idle
<1>1. TypeOK
  BY DEF TypeOK, Calls, Slot, Times, MainCall, Slots
<1>2. ArmedSlotHasFunction /\ SkipAccounting
  BY DEF ArmedSlotHasFunction, SkipAccounting
<1>3. MainCallInv
  BY DEF MainCallInv, HalfWritten
<1> QED
  BY <1>1, <1>2, <1>3 DEF QueueInv

\* Every step of the main loop and of the interrupts keeps the invariant.
LEMMA QueueStep == QueueInv /\ [Next]_vars => QueueInv'
<1> SUFFICES ASSUME QueueInv, [Next]_vars PROVE QueueInv'
  OBVIOUS
<1> USE RequestsAssumption, MaxLateAssumption
<1>1. CASE Main
  <2> USE DEF QueueInv, TypeOK, HistoryType, Calls, Slot, MainCall
  <2>1. ASSUME NEW request \in MainRequests, MainIn(request[1], request[2])
        PROVE  QueueInv'
    <3>1. request[1] \in Times /\ request[2] \in Callbacks
      BY DEF MainCallbacks
    <3>2. /\ main' = [pc |-> "scan", slot |-> 1, stime |-> request[1], func |-> request[2],
                      ticked |-> FALSE]
          /\ visiting = 0
          /\ UNCHANGED <<calls, skips, visiting, left, prior>>
      BY <2>1 DEF MainIn, Idle, MainMayRun, history
    <3>3. main' \in MainCall
      BY <3>1, <3>2 DEF Slots
    <3> QED
      BY <3>1, <3>2, <3>3 DEF ArmedSlotHasFunction, MainCallInv, HalfWritten, SkipAccounting
  <2>2. CASE MainScan
    <3>1. /\ main' \in MainCall
          /\ main'.pc = "func" => /\ main'.slot = main.slot /\ calls[main.slot].time = 0
                                  /\ main'.func = main.func
          /\ main'.pc = "scan" => main'.func = main.func
          /\ main'.pc \in {"idle", "scan", "func"}
          /\ main.pc # "idle"
      <4>1. CASE calls[main.slot].time = 0
        BY <2>2, <4>1 DEF MainScan, SlotIsFree
      <4>2. CASE calls[main.slot].time # 0 /\ main.slot < CLOCK_IN_QUEUE
        <5>1. main.slot + 1 \in Slots
          BY <4>2 DEF Slots
        <5> QED
          BY <2>2, <4>2, <5>1 DEF MainScan, SlotIsFree
      <4>3. CASE calls[main.slot].time # 0 /\ ~(main.slot < CLOCK_IN_QUEUE)
        <5>1. main' = Idle /\ main.pc = "scan"
          BY <2>2, <4>3 DEF MainScan, SlotIsFree
        <5> QED
          BY <5>1, IdleType
      <4> QED
        BY <4>1, <4>2, <4>3
    <3>2. visiting = 0 /\ UNCHANGED <<calls, skips, visiting, left, prior>>
      BY <2>2 DEF MainScan, MainMayRun, history
    <3> QED
      BY <3>1, <3>2 DEF ArmedSlotHasFunction, MainCallInv, HalfWritten, SkipAccounting
  <2>3. CASE MainStoreFunc
    <3>1. /\ main' \in MainCall /\ main.pc = "func" /\ main'.pc = "time"
          /\ main'.slot = main.slot /\ main'.func = main.func
          /\ main'.ticked = main.ticked
      BY <2>3 DEF MainStoreFunc
    <3>2. visiting = 0 /\ UNCHANGED <<skips, visiting, left, prior>>
      BY <2>3 DEF MainStoreFunc, MainMayRun, history
    <3>3. main.func \in Callbacks
      BY <3>1 DEF MainCallInv
    <3>4. /\ calls' \in Calls
          /\ calls'[main.slot].func = main.func
          /\ \A i \in Slots : calls'[i].time = calls[i].time
          /\ \A i \in Slots : i # main.slot => calls'[i] = calls[i]
      BY <2>3, <3>3 DEF MainStoreFunc, StoreFunc
    <3>5. main.func # Unset
      BY <3>3 DEF Callbacks, Unset
    <3>6. ArmedSlotHasFunction' /\ SkipAccounting'
      BY <3>2, <3>4, <3>5 DEF ArmedSlotHasFunction, SkipAccounting
    <3>7. MainCallInv'
      BY <3>1, <3>2, <3>3, <3>4, <3>5 DEF MainCallInv, HalfWritten, StillToVisit
    <3> QED
      BY <3>1, <3>2, <3>4, <3>6, <3>7
  <2>4. CASE MainStoreTime
    <3>1. main.pc = "time" /\ visiting = 0 /\ UNCHANGED <<skips, visiting>>
      BY <2>4 DEF MainStoreTime, MainMayRun
    <3>2. main' \in MainCall /\ main'.pc = "idle"
      BY <2>4, IdleType DEF MainStoreTime
    <3>3. /\ calls' \in Calls
          /\ calls'[main.slot].time = main.stime
          /\ \A i \in Slots : calls'[i].func = calls[i].func
          /\ \A i \in Slots : i # main.slot => /\ calls'[i] = calls[i]
                                              /\ left'[i] = left[i] /\ prior'[i] = prior[i]
      BY <2>4 DEF MainStoreTime, StoreTime
    <3>4. /\ HistoryType'
          /\ main.stime > 0 => left'[main.slot] = main.stime /\ prior'[main.slot] = skips
      BY <2>4 DEF MainStoreTime, Owed, Times, HistoryType
    <3>5. ArmedSlotHasFunction'
      BY <3>1, <3>3 DEF ArmedSlotHasFunction, MainCallInv
    <3>6. SkipAccounting'
      BY <3>1, <3>3, <3>4 DEF SkipAccounting, Owed, Times
    <3> QED
      BY <3>1, <3>2, <3>3, <3>4, <3>5, <3>6 DEF MainCallInv, HalfWritten
  <2> QED
    BY <1>1, <2>1, <2>2, <2>3, <2>4 DEF Main
<1>2. CASE BulbTick
  <2>1. PICK after : SkippedTick(after) /\ Arms(calls, after)
    <3>1. Arms(calls, calls)
      BY DEF Arms, QueueInv, TypeOK
    <3>2. ASSUME NEW request \in IsrRequests
          PROVE  Arms(calls, In(calls, request[1], request[2]))
      <4>1. request[1] \in LongTimes /\ request[2] \in Callbacks
        BY DEF BulbCallbacks, Callbacks
      <4> QED
        BY <4>1, InArms DEF QueueInv, TypeOK
    <3> QED
      BY <1>2, <3>1, <3>2 DEF BulbTick
  <2>2. /\ visiting = 0 /\ visiting' = visiting /\ Arms(calls, calls')
        /\ skips' = skips + 1 /\ skips' \in 0 .. MaxSkips
        /\ Arming(calls, calls', Aged, 0, skips')
        /\ main' = TickInterrupt /\ ~main.ticked
    BY <2>1 DEF SkippedTick, TickMayStart, QueueInv, TypeOK
  <2>3. main' \in MainCall /\ MainCallInv'
    BY <2>2, ArmingKeepsMain
  <2>4. calls' \in Calls /\ HistoryType' /\ ArmedSlotHasFunction' /\ SkipAccounting'
    BY <2>2, ArmingKeepsCalls DEF Aged
  <2> QED
    BY <2>2, <2>3, <2>4 DEF QueueInv, TypeOK, HistoryType
<1>3. CASE TickStart
  <2> USE DEF QueueInv, TypeOK, HistoryType, Calls, Slot, MainCall, Times
  <2>1. /\ visiting = 0 /\ visiting' = 1 /\ UNCHANGED <<calls, skips, prior>>
        /\ left' = Aged /\ main' = TickInterrupt /\ ~main.ticked
    BY <1>3 DEF TickStart, TickMayStart
  <2>2. HistoryType'
    BY <2>1 DEF Aged, HistoryType
  <2>3. /\ main' \in MainCall /\ main'.pc = main.pc /\ main'.slot = main.slot
        /\ main'.func = main.func
        /\ main.pc # "idle" => main'.ticked
    BY <2>1 DEF TickInterrupt
  <2>4. SkipAccounting'
    <3> SUFFICES ASSUME NEW j \in Slots, calls[j].time > 0
                 PROVE  LET real == left'[j] + Owed(j, 1, skips) - prior[j]
                        IN  calls[j].time = real \/ calls[j].time >= real + TimeModulus
      BY <2>1 DEF SkipAccounting
    <3>1. left'[j] = left[j] - 1 /\ left[j] \in Int /\ prior[j] \in Int /\ calls[j].time \in Int
      BY <2>1 DEF Aged
    <3>2. Owed(j, visiting, skips) = skips /\ Owed(j, 1, skips) = 1 + skips
      BY <2>1 DEF Owed, Slots
    <3> QED
      BY <3>1, <3>2 DEF SkipAccounting
  <2>5. MainCallInv'
    BY <2>1, <2>3 DEF MainCallInv, HalfWritten, StillToVisit, Slots
  <2>6. visiting' \in 0 .. (CLOCK_IN_QUEUE + 1) /\ ArmedSlotHasFunction'
    BY <2>1 DEF ArmedSlotHasFunction
  <2>7. TypeOK'
    BY <2>1, <2>2, <2>3, <2>6
  <2> QED
    BY <2>4, <2>5, <2>6, <2>7
<1>4. ASSUME NEW halfPress \in BOOLEAN, TickSlot(halfPress)
      PROVE  QueueInv'
  <2> DEFINE i == visiting
             counted == [calls EXCEPT ![i].time = Elapse(calls[i].time, skips)]
  <2>1. /\ i \in Slots /\ visiting' = i + 1 /\ UNCHANGED <<skips, main>>
        /\ visiting' \in 0 .. (CLOCK_IN_QUEUE + 1)
    BY <1>4 DEF TickSlot, Slots
  <2>2. CASE calls[i].time = 0
    <3>1. UNCHANGED <<calls, left, prior, skips, main>>
      BY <1>4, <2>2 DEF TickSlot, history
    <3>2. SkipAccounting'
      <4>1. \A j \in Slots : j # i => Owed(j, visiting', skips) = Owed(j, visiting, skips)
        BY <2>1 DEF Owed, Slots
      <4> QED
        BY <2>1, <2>2, <3>1, <4>1 DEF SkipAccounting, QueueInv
    <3>3. MainCallInv'
      BY <2>1, <2>2, <3>1, SMTT(30) DEF MainCallInv, HalfWritten, StillToVisit, QueueInv, TypeOK, MainCall, Slots
    <3> QED
      BY <2>1, <3>1, <3>2, <3>3 DEF QueueInv, TypeOK, ArmedSlotHasFunction, HalfWritten
  <2>3. CASE calls[i].time # 0
    <3> USE DEF QueueInv, TypeOK, HistoryType
    <3>1. /\ calls[i].time \in Times /\ calls[i].time > 0
          /\ skips \in 0 .. MaxSkips
      BY <2>1, <2>3 DEF Calls, Slot, Times
    <3>2. /\ counted \in Calls
          /\ counted[i].time = IF calls[i].time > skips THEN calls[i].time - (1 + skips)
                               ELSE calls[i].time - (1 + skips) + TimeModulus
          /\ counted[i].func = calls[i].func
          /\ \A j \in Slots : j # i => counted[j] = calls[j]
      <4>1. Elapse(calls[i].time, skips) \in Times
        BY <3>1, ElapseValue DEF Times
      <4> QED
        BY <2>1, <3>1, <4>1, ElapseValue DEF Calls, Slot
    <3> HIDE DEF counted
    <3>3. Arms(counted, calls')
      <4>1. Arms(counted, counted)
        BY <3>2 DEF Arms
      <4>2. Arms(counted, CallsIn(counted, calls[i].func, halfPress))
        BY <3>2, CallsInArms
      <4> QED
        BY <1>4, <2>3, <4>1, <4>2 DEF TickSlot, counted
    <3>4. Arming(counted, calls', left, visiting', skips)
      BY <1>4, <2>3 DEF TickSlot, counted
    <3>5. calls' \in Calls /\ HistoryType'
      <4>1. calls' \in Calls
        BY <3>3 DEF Arms
      <4>2. \A j \in Slots : Owed(j, visiting', skips) \in 0 .. (MaxSkips + 1) /\ calls'[j].time \in Int
        BY <3>1, <4>1 DEF Owed, Calls, Slot, Times
      <4> QED
        BY <3>4, <4>1, <4>2 DEF Arming, HistoryType
    <3>6. ArmedSlotHasFunction'
      BY <2>1, <3>1, <3>2, <3>3 DEF ArmedSlotHasFunction, Arms, Callbacks, Unset
    <3>7. SkipAccounting'
      <4> SUFFICES ASSUME NEW j \in Slots, calls'[j].time > 0
                   PROVE  LET real == left'[j] + Owed(j, visiting', skips) - prior'[j]
                          IN  calls'[j].time = real \/ calls'[j].time >= real + TimeModulus
        BY <2>1 DEF SkipAccounting
      <4>0. /\ calls'[j].time \in Int /\ counted[j].time \in Int /\ calls[j].time \in Int
            /\ left[j] \in Int /\ left'[j] \in Int /\ prior[j] \in Int /\ prior'[j] \in Int
            /\ counted[j].time = 0 => /\ left'[j] = calls'[j].time
                                      /\ prior'[j] = Owed(j, visiting', skips)
            /\ counted[j].time # 0 => left'[j] = left[j] /\ prior'[j] = prior[j]
            /\ Owed(j, visiting', skips) = IF j <= i THEN 0 ELSE 1 + skips
            /\ Owed(j, visiting, skips) = IF j < i THEN 0 ELSE 1 + skips
        <5>1. /\ calls'[j].time \in Int /\ counted[j].time \in Int /\ calls[j].time \in Int
              /\ left[j] \in Int /\ left'[j] \in Int /\ prior[j] \in Int /\ prior'[j] \in Int
          BY <3>2, <3>5 DEF Calls, Slot, Times, HistoryType
        <5>2. /\ counted[j].time = 0 => /\ left'[j] = calls'[j].time
                                        /\ prior'[j] = Owed(j, visiting', skips)
              /\ counted[j].time # 0 => left'[j] = left[j] /\ prior'[j] = prior[j]
          BY <3>4, <5>1 DEF Arming
        <5>3. /\ Owed(j, visiting', skips) = IF j <= i THEN 0 ELSE 1 + skips
              /\ Owed(j, visiting, skips) = IF j < i THEN 0 ELSE 1 + skips
          BY <2>1 DEF Owed, Slots
        <5> QED
          BY <5>1, <5>2, <5>3
      <4>00. calls[j].time > 0 =>
               LET real == left[j] + Owed(j, visiting, skips) - prior[j]
               IN  calls[j].time = real \/ calls[j].time >= real + TimeModulus
        BY DEF SkipAccounting
      <4> HIDE DEF i
      <4>1. CASE calls'[j] # counted[j]
        <5>1. counted[j].time = 0
          BY <3>3, <4>1 DEF Arms
        <5> QED
          BY <3>1, <4>0, <5>1
      <4>2. CASE calls'[j] = counted[j] /\ j = i
        <5>1. j \in Int /\ skips \in Int /\ TimeModulus \in Nat
          BY <3>1 DEF Slots
        <5>2. /\ left'[j] = left[j] /\ prior'[j] = prior[j] /\ Owed(j, visiting', skips) = 0
              /\ Owed(j, visiting, skips) = 1 + skips
          BY <4>0, <4>2, <5>1
        <5>3. calls[j].time > 0
          BY <3>1, <4>2
        <5>4. \/ calls'[j].time = calls[j].time - (1 + skips)
              \/ calls'[j].time = calls[j].time - (1 + skips) + TimeModulus
          BY <3>2, <4>2
        <5> QED
          BY <4>0, <4>00, <5>1, <5>2, <5>3, <5>4
      <4>3. CASE calls'[j] = counted[j] /\ j # i
        <5>1. counted[j] = calls[j] /\ i \in Int /\ j \in Int
          BY <2>1, <3>2, <4>3 DEF Slots
        <5> QED
          BY <3>1, <4>0, <4>00, <4>3, <5>1
      <4> QED
        BY <4>1, <4>2, <4>3
    <3>8. MainCallInv'
      <4>1. main.pc # "idle" => main.ticked
        BY <2>1 DEF MainCallInv, Slots
      <4>2. main.slot \in Slots /\ main.func \in Callbacks \cup {Unset}
        BY DEF MainCall
      <4>3. main.pc = "time" => calls'[main.slot].func # Unset
        BY <3>2, <3>3, <4>2 DEF MainCallInv, Arms, Callbacks, Unset
      <4>4. (HalfWritten /\ calls'[main.slot].time > 0 /\ visiting' \in 1 .. main.slot)
               => calls'[main.slot].time >= MaxSkips + 2
        <5> SUFFICES ASSUME HalfWritten, calls'[main.slot].time > 0, visiting' \in 1 .. main.slot
                     PROVE  calls'[main.slot].time >= MaxSkips + 2
          OBVIOUS
        <5>1. main.slot # i /\ visiting \in 1 .. main.slot
          BY <2>1, <4>2 DEF Slots
        <5>2. counted[main.slot] = calls[main.slot]
          BY <3>2, <4>2, <5>1
        <5>3. calls[main.slot].time > 0 => calls[main.slot].time >= MaxSkips + 2
          BY <5>1 DEF MainCallInv, StillToVisit
        <5> QED
          BY <3>3, <4>2, <5>2, <5>3 DEF Arms
      <4> QED
        BY <2>1, <4>1, <4>2, <4>3, <4>4 DEF MainCallInv, HalfWritten, StillToVisit, Slots
    <3> QED
      BY <2>1, <3>1, <3>5, <3>6, <3>7, <3>8
  <2> QED
    BY <2>2, <2>3
<1>5. CASE TickEnd
  <2> USE DEF QueueInv, TypeOK, HistoryType
  <2>1. visiting = CLOCK_IN_QUEUE + 1 /\ visiting' = 0 /\ skips' = 0 /\ UNCHANGED <<calls, main, left, prior>>
    BY <1>5 DEF TickEnd, history
  <2>2. SkipAccounting'
    <3>1. \A j \in Slots : Owed(j, visiting', skips') = 0 /\ Owed(j, visiting, skips) = 0
      BY <2>1 DEF Owed, Slots
    <3>2. \A j \in Slots : calls'[j] = calls[j] /\ left'[j] = left[j] /\ prior'[j] = prior[j]
      BY <2>1
    <3> QED
      BY <3>1, <3>2 DEF SkipAccounting
  <2>3. MainCallInv'
    BY <2>1 DEF MainCallInv, HalfWritten, StillToVisit
  <2> QED
    BY <2>1, <2>2, <2>3 DEF ArmedSlotHasFunction, HalfWritten
<1>6. ASSUME NEW stime \in CaptureTimes, LightningInterrupt(stime)
      PROVE  QueueInv'
  <2>1. Arms(calls, In(calls, stime, "shutter_off"))
    BY InArms DEF QueueInv, TypeOK, Callbacks
  <2>2. /\ visiting = 0 /\ visiting' = visiting /\ Arms(calls, calls')
        /\ skips' = skips /\ main' = main
        /\ Arming(calls, calls', left, 0, skips')
    BY <1>6, <2>1 DEF LightningInterrupt
  <2>3. left = [i \in Slots |-> IF calls[i].time > 0 THEN left[i] - 0 ELSE left[i]]
    BY DEF QueueInv, TypeOK
  <2>4. calls' \in Calls /\ HistoryType' /\ ArmedSlotHasFunction' /\ SkipAccounting'
    BY <2>2, <2>3, ArmingKeepsCalls DEF QueueInv, TypeOK
  <2>5. main' \in MainCall /\ MainCallInv'
    BY <2>2, ArmingKeepsMain
  <2> QED
    BY <2>2, <2>4, <2>5 DEF QueueInv, TypeOK, HistoryType
<1>7. CASE UNCHANGED vars
  BY <1>7 DEF vars, history, HistoryType, QueueInv, TypeOK, ArmedSlotHasFunction, MainCallInv,
              HalfWritten, StillToVisit, SkipAccounting
<1> QED
  BY <1>1, <1>2, <1>3, <1>4, <1>5, <1>6, <1>7 DEF Next

-----------------------------------------------------------------------------
(* Theorems.                                                               *)

\* The inductive invariant is an invariant of the clock's slots.
THEOREM QueueInvariant == Spec => []QueueInv
<1>1. Init => QueueInv
  BY QueueInit
<1>2. QueueInv /\ [Next]_vars => QueueInv'
  BY QueueStep
<1> QED
  BY <1>1, <1>2, PTL DEF Spec

\* inTime, skips and the loop counter stay in their ranges: the unsigned
\* decrement of Clock::count keeps every counter within its width.
THEOREM CountersInRange == Spec => []TypeOK
<1>1. QueueInv => TypeOK
  BY DEF QueueInv
<1> QED
  BY <1>1, QueueInvariant, PTL

\* The skips variable of Clock::count charges each slot once for every tick that
\* returned before the loop over the slots, those before its arming included.
THEOREM SkippedTicksAreCharged == Spec => []SkipAccounting
<1>1. QueueInv => SkipAccounting
  BY DEF QueueInv
<1> QED
  BY <1>1, QueueInvariant, PTL

\* Clock::count never calls through an unset pointer, however Clock::in and the
\* interrupts interleave.
THEOREM NeverCallsUnset == Spec => []ArmedSlotHasFunction
<1>1. QueueInv => ArmedSlotHasFunction
  BY DEF QueueInv
<1> QED
  BY <1>1, QueueInvariant, PTL

\* A slot the main loop has half written does not fire.
THEOREM HalfWrittenSlotNeverFires == Spec => []NoFireIntoHalfWrittenSlot
<1>1. QueueInv => NoFireIntoHalfWrittenSlot
  <2> SUFFICES ASSUME QueueInv, HalfWritten, AboutToFire(main.slot) PROVE FALSE
    BY DEF NoFireIntoHalfWrittenSlot
  <2>1. /\ visiting = main.slot /\ main.slot \in Slots /\ skips \in 0 .. MaxSkips
        /\ calls[main.slot].time \in Times /\ calls[main.slot].time > 0
        /\ Elapse(calls[main.slot].time, skips) = 0
    BY DEF AboutToFire, QueueInv, TypeOK, MainCall, Calls, Slot
  <2>2. calls[main.slot].time >= MaxSkips + 2
    BY <2>1 DEF QueueInv, MainCallInv, StillToVisit, Slots
  <2> QED
    BY <2>1, <2>2, ElapseValue DEF Times
<1> QED
  BY <1>1, QueueInvariant, PTL

\* A callback runs early by exactly the ticks Clock::count owed the slots when
\* it was armed, or else late by a whole turn of the 16 bit counter less those.
THEOREM CallbacksFireWhenDue == Spec => []FiresWhenDue
<1>1. QueueInv => FiresWhenDue
  <2> SUFFICES ASSUME QueueInv, NEW i \in Slots, AboutToFire(i)
               PROVE  left[i] = prior[i] \/ left[i] <= prior[i] - TimeModulus
    BY DEF FiresWhenDue
  <2>1. /\ visiting = i /\ skips \in 0 .. MaxSkips /\ left[i] \in Int /\ prior[i] \in Int
        /\ calls[i].time \in Times /\ calls[i].time > 0
        /\ Elapse(calls[i].time, skips) = 0
    BY DEF AboutToFire, QueueInv, TypeOK, Calls, Slot
  <2>2. calls[i].time = 1 + skips
    BY <2>1, ElapseValue DEF Times
  <2>3. Owed(i, visiting, skips) = 1 + skips
    BY <2>1 DEF Owed, Slots
  <2> QED
    BY <2>1, <2>2, <2>3 DEF QueueInv, SkipAccounting, Times
<1> QED
  BY <1>1, QueueInvariant, PTL
=============================================================================
