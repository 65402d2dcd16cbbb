------------------------ MODULE IntervalometerProofs ------------------------
(***************************************************************************)
(* What follows from the promise of an intervalometer alone, for every     *)
(* width of its photo counter.                                             *)
(***************************************************************************)
EXTENDS Intervalometer, TLAPS

\* The counters keep their types, and the limits of a program fit the counter.
Typed ==
    /\ mode \in {"off", "checking", "running"}
    /\ count \in Nat /\ least \in Nat /\ most \in Nat
    /\ most < Modulus /\ least <= most

\* The count of a run under its own program is within the limit.
Within == mode = "running" /\ same /\ most > 0 => count <= most

\* A run that ends by itself has taken its photos: the step that takes a run
\* that is wanted from "running" to "off" leaves between least and most photos.
EndsWithItsPhotos ==
    mode = "running" /\ mode' = "off" /\ wanted /\ same
      => count' >= least /\ (most > 0 => count' <= most)

\* The counter advances in steps of one photo or starts over with a run, and it
\* never advances while the run is stopped, or paused throughout the step.
CountsSingly ==
    count' # count =>
      \/ mode # "running" /\ mode' = "running" /\ count' = 0
      \/ /\ mode = "running" /\ wanted /\ ~(held /\ held')
         /\ count' = (count + 1) % Modulus

Inv == Typed /\ Within

LEMMA InitInv == ASSUME Modulus \in Nat \ {0}, Init PROVE Inv
BY DEF Init, Inv, Typed, Within

\* One photo keeps the count within the width of the counter, and adds one below it.
LEMMA OnePhoto ==
    ASSUME Modulus \in Nat \ {0}, NEW n \in Nat
    PROVE  /\ (n + 1) % Modulus \in Nat
           /\ n + 1 < Modulus => (n + 1) % Modulus = n + 1
OBVIOUS

LEMMA NextInv == ASSUME Modulus \in Nat \ {0}, Inv, [Next]_vars PROVE Inv'
<1>. USE DEF Inv, Typed, Within
<1>1. CASE Wait
  BY <1>1 DEF Wait
<1>2. CASE Check
  BY <1>2 DEF Check
<1>3. CASE Start
  BY <1>3 DEF Start
<1>4. CASE Shoot
  <2>1. count' \in Nat /\ (count + 1 < Modulus => count' = count + 1)
    BY <1>4, OnePhoto DEF Shoot
  <2>. QED
    BY <1>4, <2>1 DEF Shoot
<1>5. CASE LastPhoto
  <2>1. count' \in Nat
    BY <1>5, OnePhoto DEF LastPhoto
  <2>. QED
    BY <1>5, <2>1 DEF LastPhoto, Ends
<1>6. CASE Finish
  BY <1>6 DEF Finish, Ends
<1>7. CASE UNCHANGED vars
  BY <1>7 DEF vars
<1>. QED
  BY <1>1, <1>2, <1>3, <1>4, <1>5, <1>6, <1>7 DEF Next

\* The invariant of the promise.
THEOREM PromiseInvariant ==
    ASSUME Modulus \in Nat \ {0} PROVE Spec => []Inv
<1>1. Init => Inv
  BY InitInv
<1>2. Inv /\ [Next]_vars => Inv'
  BY NextInv
<1>. QED
  BY <1>1, <1>2, PTL DEF Spec

\* No run takes more photos than its program asks for.
THEOREM NeverTooMany ==
    ASSUME Modulus \in Nat \ {0} PROVE Spec => []Within
<1>1. Inv => Within
  BY DEF Inv
<1>. QED
  BY <1>1, PromiseInvariant, PTL

\* A run that ends by itself has the photos its program asks for.
THEOREM RunsEndComplete ==
    ASSUME Modulus \in Nat \ {0} PROVE Spec => [][EndsWithItsPhotos]_vars
<1>1. ASSUME Inv, [Next]_vars PROVE [EndsWithItsPhotos]_vars
  <2>1. CASE LastPhoto
    <3>1. count + 1 < Modulus => count' = count + 1
      BY <1>1, <2>1, OnePhoto DEF LastPhoto, Inv, Typed
    <3>. QED
      BY <1>1, <2>1, <3>1 DEF LastPhoto, Ends, EndsWithItsPhotos, Inv, Typed
  <2>2. CASE Finish
    BY <1>1, <2>2 DEF Finish, Ends, EndsWithItsPhotos, Inv, Typed, Within
  <2>3. CASE Wait \/ Check \/ Start \/ Shoot
    BY <2>3 DEF Wait, Check, Start, Shoot, EndsWithItsPhotos
  <2>. QED
    BY <1>1, <2>1, <2>2, <2>3 DEF Next
<1>. QED
  BY <1>1, PromiseInvariant, PTL DEF Spec

\* Photos are counted one at a time, never in a run that is stopped or paused.
THEOREM PhotosAreCountedSingly ==
    ASSUME Modulus \in Nat \ {0} PROVE Spec => [][CountsSingly]_vars
<1>1. ASSUME [Next]_vars PROVE [CountsSingly]_vars
  BY <1>1 DEF Next, Wait, Check, Start, Shoot, LastPhoto, Finish, Ends, CountsSingly
<1>. QED
  BY <1>1, PTL DEF Spec
=============================================================================
