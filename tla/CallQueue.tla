----------------------------- MODULE CallQueue -----------------------------
(***************************************************************************)
(* Clock::in raced by the millisecond interrupt.                           *)
(*                                                                         *)
(* The main loop calls Clock::in with interrupts enabled, so its scan, its *)
(* store of inFunction and its store of inTime are three steps.  The timer *)
(* interrupt (Clock::count) is one atomic burst with respect to the main   *)
(* loop, but its loop over the slots runs callbacks that call Clock::in    *)
(* themselves; `visiting' is the loop counter of that burst.  A call of    *)
(* Clock::in takes microseconds and a tick comes every millisecond: at     *)
(* most one tick interrupts a call.  The external interrupt INT6 calls     *)
(* shutter_capture, hence Clock::in, at any moment.                        *)
(*                                                                         *)
(* Two history variables say what inTime is meant to follow and how far it *)
(* goes wrong.  left[i] is the milliseconds until slot i is due: its delay *)
(* at arming, one less with every tick.  prior[i] is the number of ticks   *)
(* slot i will be charged for although they passed before it was armed:    *)
(* the loop over the slots subtracts 1 + skips from every armed slot, also *)
(* from one armed during or after the skipped ticks.                       *)
(***************************************************************************)
EXTENDS DeferredCalls

CONSTANTS
    MainRequests,       \* <<stime, func>> the main loop asks for
    IsrRequests,        \* <<stime, func>> the bulb code of the tick asks for
    CaptureTimes,       \* stime of the release shutter_capture asks for
    MaxLate             \* bound: how far behind a slot may run in the model

\* What main-loop code and what the bulb code of the interrupt defer.
MainCallbacks == Callbacks \ {"shutter_half"}
BulbCallbacks == {"shutter_off", "shutter_half", "check_cable"}
LongTimes == (MaxSkips + 2) .. (TimeModulus - 1)

ASSUME RequestsAssumption ==
    /\ MainRequests \subseteq Times \X MainCallbacks
    /\ IsrRequests \subseteq LongTimes \X BulbCallbacks
    /\ CaptureTimes \subseteq LongTimes
ASSUME MaxLateAssumption == MaxLate \in Nat

VARIABLES
    calls,              \* inTime and inFunction
    skips,              \* ticks that returned before the loop over the slots
    visiting,           \* 0 between ticks, else the slot the loop looks at
    main,               \* the main loop's call of Clock::in
    left,               \* history: milliseconds until slot i is due
    prior               \* history: ticks before its arming slot i is charged for

history == <<left, prior>>
vars == <<calls, skips, visiting, main, history>>

Idle == [pc |-> "idle", slot |-> 1, stime |-> 0, func |-> Unset,
         ticked |-> FALSE]

MainCall == [pc : {"idle", "scan", "func", "time"}, slot : Slots, stime : Times,
             func : Callbacks \cup {Unset}, ticked : BOOLEAN]

\* The main loop runs only between interrupts.
MainMayRun == visiting = 0

\* What the next loop over the slots takes from slot i for ticks already begun.
Owed(i, visited, skipped) ==
    IF visited = 0 THEN skipped
    ELSE IF i < visited THEN 0
    ELSE 1 + skipped

\* History update: a slot armed between `before' and `after' is due its delay
\* from now on, but what is owed at that moment will be taken from it too.
Arming(before, after, aged, visited, skipped) ==
    LET kept(i, old, new) == IF after[i].time = 0 THEN 0
                             ELSE IF before[i].time = 0 THEN new
                             ELSE old
    IN  /\ left' = [i \in Slots |-> kept(i, aged[i], after[i].time)]
        /\ prior' = [i \in Slots |-> kept(i, prior[i], Owed(i, visited, skipped))]

TypeOK ==
    /\ calls \in Calls
    /\ skips \in 0 .. MaxSkips
    /\ visiting \in 0 .. (CLOCK_IN_QUEUE + 1)
    /\ main \in MainCall
    /\ left \in [Slots -> Int]
    /\ prior \in [Slots -> 0 .. (MaxSkips + 1)]

Init ==
    /\ calls = NoCalls
    /\ skips = 0
    /\ visiting = 0
    /\ main = Idle
    /\ left = [i \in Slots |-> 0]
    /\ prior = [i \in Slots |-> 0]

-----------------------------------------------------------------------------
(* The main loop: for(i...) if(inTime[i] <= 0) { func; time; break; }      *)

MainIn(stime, func) ==
    /\ MainMayRun
    /\ main.pc = "idle"
    /\ main' = [Idle EXCEPT !.pc = "scan", !.stime = stime, !.func = func]
    /\ UNCHANGED <<calls, skips, visiting, history>>

\* Fault for mutation: a slot in its last millisecond counts as free.
FaultySlotIsFree(time) == time <= 1
SlotIsFree(time) == time = 0

MainScan ==
    /\ MainMayRun
    /\ main.pc = "scan"
    /\ IF SlotIsFree(calls[main.slot].time) THEN main' = [main EXCEPT !.pc = "func"]
       ELSE IF main.slot < CLOCK_IN_QUEUE THEN main' = [main EXCEPT !.slot = @ + 1]
       ELSE main' = Idle                        \* no slot: the call is dropped
    /\ UNCHANGED <<calls, skips, visiting, history>>

\* Fault for mutation: the time is stored first, the function never.
FaultyStoreFunc(slot, m) == [slot EXCEPT !.time = m.stime]
StoreFunc(slot, m) == [slot EXCEPT !.func = m.func]
StoreTime(slot, m) == [slot EXCEPT !.time = m.stime]

MainStoreFunc ==
    /\ MainMayRun
    /\ main.pc = "func"
    /\ calls' = [calls EXCEPT ![main.slot] = StoreFunc(@, main)]
    /\ main' = [main EXCEPT !.pc = "time"]
    /\ UNCHANGED <<skips, visiting, history>>

MainStoreTime ==
    /\ MainMayRun
    /\ main.pc = "time"
    /\ calls' = [calls EXCEPT ![main.slot] = StoreTime(@, main)]
    /\ left' = [left EXCEPT ![main.slot] = main.stime]
    /\ prior' = [prior EXCEPT ![main.slot] =
                    IF main.stime = 0 THEN 0 ELSE Owed(main.slot, 0, skips)]
    /\ main' = Idle
    /\ UNCHANGED <<skips, visiting>>

-----------------------------------------------------------------------------
(* The interrupts.                                                         *)

TickInterrupt == [main EXCEPT !.ticked = (main.pc # "idle")]

TickMayStart ==
    /\ visiting = 0
    /\ ~main.ticked
    /\ \A i \in Slots : left[i] > -MaxLate

\* A millisecond passes for every pending call, counted or not.
Aged == [i \in Slots |-> IF calls[i].time > 0 THEN left[i] - 1 ELSE left[i]]

\* A tick that starts, ends or re-times a bulb exposure returns before the
\* loop over the slots; starting and ending one may call Clock::in.
SkippedTick(after) ==
    /\ TickMayStart
    /\ skips < MaxSkips
    /\ calls' = after
    /\ skips' = skips + 1
    /\ Arming(calls, calls', Aged, 0, skips')
    /\ main' = TickInterrupt
    /\ UNCHANGED visiting

BulbTick ==
    \/ SkippedTick(calls)
    \/ \E request \in IsrRequests : SkippedTick(In(calls, request[1], request[2]))

TickStart ==
    /\ TickMayStart
    /\ visiting' = 1
    /\ left' = Aged
    /\ main' = TickInterrupt
    /\ UNCHANGED <<calls, skips, prior>>

\* One iteration of the loop over the slots; halfPress is conf.camera.halfPress.
TickSlot(halfPress) ==
    /\ visiting \in Slots
    /\ visiting' = visiting + 1
    /\ LET i == visiting
           counted == [calls EXCEPT ![i].time = Elapse(@, skips)]
           after == IF calls[i].time = 0 THEN calls
                    ELSE IF counted[i].time > 0 THEN counted
                    ELSE CallsIn(counted, calls[i].func, halfPress)
       IN  /\ calls' = after
           /\ IF calls[i].time = 0 THEN UNCHANGED history
              ELSE Arming(counted, after, left, visiting', skips)
    /\ UNCHANGED <<skips, main>>

TickEnd ==
    /\ visiting = CLOCK_IN_QUEUE + 1
    /\ visiting' = 0
    /\ skips' = 0
    /\ UNCHANGED <<calls, main, history>>

\* INT6: the lightning trigger calls shutter_capture.
LightningInterrupt(stime) ==
    /\ visiting = 0
    /\ calls' = In(calls, stime, "shutter_off")
    /\ Arming(calls, calls', left, 0, skips)
    /\ UNCHANGED <<skips, visiting, main>>

Main ==
    \/ \E request \in MainRequests : MainIn(request[1], request[2])
    \/ MainScan
    \/ MainStoreFunc
    \/ MainStoreTime

Next ==
    \/ Main
    \/ BulbTick
    \/ TickStart
    \/ \E halfPress \in BOOLEAN : TickSlot(halfPress)
    \/ TickEnd
    \/ \E stime \in CaptureTimes : LightningInterrupt(stime)

Spec == Init /\ [][Next]_vars

-----------------------------------------------------------------------------
(* Properties.                                                             *)

\* The interrupt never calls through a pointer that was not stored: Clock::in
\* stores inFunction before inTime, whatever interrupts it in between.
ArmedSlotHasFunction ==
    \A i \in Slots : calls[i].time > 0 => calls[i].func # Unset

\* A slot of which the main loop has stored one half never fires.
AboutToFire(i) ==
    /\ visiting = i
    /\ calls[i].time > 0
    /\ Elapse(calls[i].time, skips) = 0
HalfWritten == main.pc \in {"func", "time"}
NoFireIntoHalfWrittenSlot == HalfWritten => ~AboutToFire(main.slot)

\* The skips counter charges every slot once for each tick it missed, and for
\* the ticks skipped before it was armed as well (inTime[i] -= 1 + skips asks
\* no slot since when it waits): a slot's time is what is left of its delay
\* plus what it still owes less that surplus, unless the unsigned counter was
\* carried past zero and is a turn or more behind.
SkipAccounting ==
    \A i \in Slots : calls[i].time > 0 =>
        LET real == left[i] + Owed(i, visiting, skips) - prior[i]
        IN  calls[i].time = real \/ calls[i].time >= real + TimeModulus

\* A callback runs early by exactly the ticks that were owed when it was armed
\* (in its millisecond when none were, up to MaxSkips + 1 early otherwise), and
\* late only by a whole turn of the counter less that: a slot that ran out in a
\* skipped tick wraps.
FiresWhenDue ==
    \A i \in Slots : AboutToFire(i) =>
        left[i] = prior[i] \/ left[i] <= prior[i] - TimeModulus
=============================================================================
