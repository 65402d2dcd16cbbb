--------------------------- MODULE Intervalometer ---------------------------
(***************************************************************************)
(* What an intervalometer promises, without cameras, passes or screens: a  *)
(* run is checked, started, takes photos one at a time while it is wanted  *)
(* and not held, and ends.  `same' is FALSE once the program of a run was  *)
(* replaced on the way, which ends the promises about its length.          *)
(***************************************************************************)
EXTENDS Integers

CONSTANT Modulus        \* of the photo counter

VARIABLES
    mode,               \* "off", "checking" or "running"
    wanted,             \* the user has started the run and not stopped it
    held,               \* the run is paused
    count,              \* photos taken
    least,              \* a run that ends by itself has taken this many
    most,               \* no run takes more; 0: no limit
    same                \* the run still has the program it was started with

vars == <<mode, wanted, held, count, least, most, same>>

Init ==
    /\ mode = "off"
    /\ wanted = FALSE /\ held = FALSE /\ count = 0 /\ same = TRUE
    /\ most \in 0 .. (Modulus - 1)
    /\ least \in 0 .. most

\* The user starts, stops, pauses or resumes, or replaces the program; time passes.
Wait ==
    /\ UNCHANGED <<mode, count>>
    /\ {wanted', held', same'} \subseteq BOOLEAN
    /\ most' \in 0 .. (Modulus - 1)
    /\ least' \in 0 .. most'
    /\ mode = "running" /\ same' => same /\ UNCHANGED <<least, most>>

\* A run that is wanted is checked, and starts.
Check ==
    /\ mode = "off" /\ wanted
    /\ mode' = "checking"
    /\ held' = FALSE
    /\ UNCHANGED <<wanted, count, least, most, same>>

Start ==
    /\ mode \in {"off", "checking"} /\ wanted
    /\ mode' = "running"
    /\ held' = FALSE
    /\ count' = 0
    /\ same' = TRUE
    /\ UNCHANGED <<wanted, least, most>>

\* One photo.  A pause may begin or end with it.
Shoot ==
    /\ mode = "running" /\ wanted
    /\ ~(held /\ held')
    /\ held' \in BOOLEAN
    /\ same /\ most > 0 => count < most
    /\ count' = (count + 1) % Modulus
    /\ UNCHANGED <<mode, wanted, least, most, same>>

Ends == mode' = "off" /\ wanted' = FALSE /\ held' = FALSE /\ UNCHANGED <<least, most, same>>

\* The run has its last photo, or ends between two, or the user has stopped it.
LastPhoto ==
    /\ mode = "running" /\ wanted
    /\ count' = (count + 1) % Modulus
    /\ same => count' >= least /\ (most > 0 => count < most)
    /\ Ends

Finish ==
    /\ mode # "off"
    /\ wanted => mode = "running" /\ (same => count >= least)
    /\ count' = count
    /\ Ends

Next == Wait \/ Check \/ Start \/ Shoot \/ LastPhoto \/ Finish

Spec == Init /\ [][Next]_vars
=============================================================================
