--------------------------- MODULE DeferredCalls ---------------------------
(***************************************************************************)
(* The deferred-call slots of the clock (src/src/clock.h, clock.cpp): the  *)
(* arrays inTime and inFunction, Clock::in, and the countdown of one slot. *)
(* A slot is free when its time is zero.  Time is unsigned, TimeModulus    *)
(* stands for the 2^16 of uint16_t.                                        *)
(***************************************************************************)
EXTENDS Integers

CONSTANTS
    CLOCK_IN_QUEUE,     \* number of slots, 3 in the firmware
    TimeModulus,        \* 2^16 in the firmware
    CheckDelay,         \* shutter_off samples the cable 20 ms later
    HalfDelay,          \* shutter_half presses half way 30 ms later
    MaxSkips            \* longest run of ticks that leave the slots alone

ASSUME QueueAssumption == CLOCK_IN_QUEUE \in Nat \ {0}
ASSUME ModulusAssumption == TimeModulus \in Nat \ {0}
ASSUME SkipsAssumption == MaxSkips \in Nat
\* The delays a callback asks for outlast any run of skipped ticks.
ASSUME DelayAssumption ==
    /\ CheckDelay \in (MaxSkips + 2) .. (TimeModulus - 1)
    /\ HalfDelay  \in (MaxSkips + 2) .. (TimeModulus - 1)

Slots == 1 .. CLOCK_IN_QUEUE
Times == 0 .. (TimeModulus - 1)

\* Every function the firmware hands to Clock::in.
Callbacks == {"shutter_off", "shutter_half", "shutter_half_delayed",
              "check_cable", "aux1_off", "aux2_off"}
Unset == "unset"

Slot == [time : Times, func : Callbacks \cup {Unset}]
Calls == [Slots -> Slot]
NoCalls == [i \in Slots |-> [time |-> 0, func |-> Unset]]

IsFirstFree(calls, i) ==
    /\ calls[i].time = 0
    /\ \A j \in Slots : j < i => calls[j].time > 0

\* Clock::in as an interrupt runs it: the first free slot, or nothing at all.
In(calls, stime, func) ==
    [i \in Slots |->
        IF IsFirstFree(calls, i) THEN [time |-> stime, func |-> func] ELSE calls[i]]

\* Faults for mutation: a signed counter; the skipped ticks are forgotten.
SignedElapse(time, skips) == time - (1 + skips)
FaultyElapse(time, skips) == (time - 1) % TimeModulus

\* inTime[i] -= 1 + skips, in the width of inTime.
Elapse(time, skips) == (time - (1 + skips)) % TimeModulus

\* What a callback asks Clock::in for while it runs.
CallsIn(calls, func, halfPress) ==
    LET released == In(calls, CheckDelay, "check_cable")
    IN  IF func = "shutter_half" /\ halfPress
        THEN In(released, HalfDelay, "shutter_half_delayed")
        ELSE IF func \in {"shutter_off", "shutter_half"} THEN released
        ELSE calls
=============================================================================
