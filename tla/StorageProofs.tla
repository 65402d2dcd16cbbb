--------------------------- MODULE StorageProofs ---------------------------
(***************************************************************************)
(* The EEPROM keeps its promises for every number of slots, programs and   *)
(* serial numbers.  The invariant says of each step a handler has still to *)
(* do what is true when it is reached: a camera's record is written first  *)
(* of all, the settings only after everything else is whole, and a load    *)
(* follows whatever parts conf from its record.                            *)
(***************************************************************************)
EXTENDS Storage, TLAPS, SequenceTheorems, FiniteSetTheorems, WellFoundedInduction

\* A program as it is written.
WriteProg(j, p) == <<"write", <<"progs", j>>, p>>

\* Everything a script may hold.
Steps ==
    {WriteConf(c) : c \in Conf}
      \cup {WriteCam(x[1], x[2]) : x \in Slots \X Camera}
      \cup {WriteProg(x[1], x[2]) : x \in (0 .. MaxStored) \X Program}
      \cup {<<"conf", c>> : c \in Conf}
      \cup {<<"index", i>> : i \in 0 .. MaxCameras}
      \cup {<<"current", "program">>, <<"load">>, <<"restore">>, <<"init">>, <<"main">>,
            <<"wiped">>}

\* The step writes this record.
Puts(x, record) == x[1] = "write" /\ x[2] = record

\* The script has this step, or one that changes the index.
Has(q, x) == \E k \in 1 .. Len(q) : q[k] = x
Hops(q) == \E k \in 1 .. Len(q) : q[k][1] = "index"

\* A load comes after the step, a write of the record before it.
LoadsAfter(q, k) == \E n \in 1 .. Len(q) : n > k /\ q[n] = <<"load">>
Before(q, k, record) == \E n \in 1 .. Len(q) : n < k /\ Puts(q[n], record)

-----------------------------------------------------------------------------
(* Whose records these are.                                                *)

\* The record that conf is loaded from.
Home == IF index > 0 THEN ee.cams[index] ELSE ee.conf.cam

\* A serial number is in one slot.
Once ==
    \A i, j \in Slots :
       ee.cams[i].serial = ee.cams[j].serial /\ ee.cams[i].serial \in Serials => i = j

\* The record may go to the slot: it is the slot in use, of the camera that is there, or
\* a new camera's, in an empty slot or when there is none, and will be the one in use.
Fits(i, v) ==
    /\ \A j \in Slots : v.serial \in Serials /\ ee.cams[j].serial = v.serial => j = i
    /\ IF ee.cams[i].serial = v.serial
       THEN i = index /\ (v.serial \in Serials => seen = v.serial \/ hist.mixed)
       ELSE /\ v.serial \in Serials /\ Hops(todo)
            /\ ee.cams[i].serial = "" \/ Known("") = {}

\* A record with a serial number is written first of all.
CamWrites ==
    \A k \in 1 .. Len(todo), i \in Slots :
       Puts(todo[k], <<"cams", i>>) =>
          \/ todo[k][3].serial = "" /\ (Has(todo, <<"wiped">>) \/ Has(todo, <<"main">>))
          \/ k = 1 /\ Fits(i, todo[k][3])

\* Settings that become those in use have no serial number, and are loaded anew unless
\* nothing is and they are the default camera's own.
Keeps(k, c) ==
    /\ c.cam.serial \notin Serials
    /\ \/ LoadsAfter(todo, k)
       \/ ~Has(todo, <<"load">>) /\ index = 0 /\ c.cam.serial = conf.cam.serial

\* Settings are saved for the default camera, and change it only if it is in use.
ConfSteps ==
    \A k \in 1 .. Len(todo) :
       /\ todo[k][1] = "conf" => Keeps(k, todo[k][2])
       /\ Puts(todo[k], <<"conf">>) =>
            Keeps(k, todo[k][3]) /\ (index = 0 \/ todo[k][3].cam.val = ee.conf.cam.val)
       /\ \A i \in Slots : Puts(todo[k], <<"cams", i>>) => LoadsAfter(todo, k)

DefaultNameless == ee.conf.cam.serial \notin Serials

\* conf is of the record in use, or will be loaded from it.
Matched == conf.cam.serial = Home.serial \/ Has(todo, <<"load">>)

\* What is done before settings_init.
Starting(x) ==
    \/ x[1] \in {"current", "restore", "load", "init", "main"}
    \/ \E j \in 0 .. MaxStored : Puts(x, <<"progs", j>>)

\* The start: settings_init is the last but one, right after a load, and no camera is
\* known of before the end.
Boots ==
    /\ \A k \in 1 .. Len(todo) : todo[k] \in {<<"main">>, <<"wiped">>} => k = Len(todo)
    /\ \A k \in 1 .. Len(todo) :
          todo[k] = <<"init">> =>
             /\ k = Len(todo) - 1 /\ todo[Len(todo)] = <<"main">>
             /\ IF k = 1 THEN conf = ee.conf ELSE todo[k - 1] = <<"load">>
    /\ Has(todo, <<"init">>) => \A k \in 1 .. Len(todo) : Starting(todo[k])
    /\ Has(todo, <<"restore">>) => Has(todo, <<"init">>)
    /\ Has(todo, <<"main">>) => index = 0 /\ seen = "none" /\ ~Hops(todo)

\* A change of the index: to the slot of the camera that came, or to none.
Hop ==
    Hops(todo) =>
      \E i \in 0 .. MaxCameras :
         \/ /\ todo = <<<<"index", i>>, <<"load">>>>
            /\ IF i = 0 THEN seen = "none" ELSE seen \in Serials /\ ee.cams[i].serial = seen
         \/ /\ i # 0 /\ seen \in Serials
            /\ \E v \in Camera :
                  v.serial = seen /\ todo = <<WriteCam(i, v), <<"index", i>>, <<"load">>>>

\* The slot in use is that of the camera that is there.
InUse ==
    ~Hops(todo) =>
      /\ seen = "none" => index = 0
      /\ seen \in Serials => index > 0
      /\ index > 0 /\ ee.cams[index].serial \in Serials
            => seen = ee.cams[index].serial \/ hist.mixed
      /\ seen \in Serials /\ ~hist.reset /\ ~Has(todo, <<"wiped">>)
            => ee.cams[index].serial = seen

SlotInv ==
    Once /\ CamWrites /\ ConfSteps /\ DefaultNameless /\ Matched /\ Boots /\ Hop /\ InUse

-----------------------------------------------------------------------------
(* What is in them, while no record was torn and no test failed.           *)

ConfClean(c) == c.sys # "junk" /\ c.cam.val # "junk" /\ ~c.cam.auto
CamClean(v) == v.serial # "junk" /\ v.val # "junk"
ProgClean(j, p) == (p.name = "used" \/ j \in 0 .. 2 \/ j = MaxStored) => p.body = "program"

\* The record says the followed camera was tested only if it was.
Honest(v) == v.serial = Followed /\ v.auto => hist.tested

\* What a step writes is clean.
CleanStep(x) ==
    /\ x[1] = "conf" => ConfClean(x[2])
    /\ Puts(x, <<"conf">>) => ConfClean(x[3])
    /\ \A i \in Slots : Puts(x, <<"cams", i>>) => CamClean(x[3]) /\ Honest(x[3])
    /\ \A j \in 0 .. MaxStored : Puts(x, <<"progs", j>>) => ProgClean(j, x[3])

\* Slots and programs, and the settings, are clean when step k is reached.
Whole(k) ==
    /\ \A i \in Slots : CamClean(ee.cams[i]) \/ Before(todo, k, <<"cams", i>>)
    /\ \A j \in 0 .. MaxStored :
          ProgClean(j, ee.progs[j]) \/ Before(todo, k, <<"progs", j>>)
ConfWhole(k) == ConfClean(ee.conf) \/ Before(todo, k, <<"conf">>)

\* They are when they are loaded and at the end of the script, and all but the settings
\* when the settings are written: from then on the version is in force.
Wholes ==
    /\ Whole(Len(todo) + 1) /\ ConfWhole(Len(todo) + 1)
    /\ \A k \in 1 .. Len(todo) :
          /\ todo[k] = <<"load">> => Whole(k) /\ ConfWhole(k)
          /\ Puts(todo[k], <<"conf">>) => Whole(k)

\* Versions that are in force tell the truth.
Versions ==
    /\ ee.conf.sver => ConfClean(ee.conf) /\ \A i \in Slots : CamClean(ee.cams[i])
    /\ ee.conf.pver => \A j \in 0 .. MaxStored : ProgClean(j, ee.progs[j])

TimerClean ==
    \/ timer = "program" \/ Has(todo, <<"current", "program">>) \/ Has(todo, <<"restore">>)
    \/ Has(todo, <<"init">>) /\ ~ee.conf.pver

RamClean ==
    \/ conf.sys # "junk" /\ conf.cam.val # "junk"
    \/ Has(todo, <<"load">>) \/ Has(todo, <<"init">>)
    \/ \E k \in 1 .. Len(todo) : todo[k][1] = "conf"

CleanInv ==
    /\ \A k \in 1 .. Len(todo) : CleanStep(todo[k])
    /\ Versions
    /\ (\A i \in Slots : Honest(ee.cams[i])) /\ Honest(conf.cam)
    /\ ~Has(todo, <<"init">>) => Wholes
    /\ TimerClean
    /\ RamClean

\* The inductive invariant.
StoreInv ==
    /\ TypeOK /\ todo \in Seq(Steps)
    /\ SlotInv
    /\ ~hist.junk => CleanInv

-----------------------------------------------------------------------------
(* Scripts as sequences.                                                   *)

\* The constructors, taken apart.
LEMMA Parts ==
    /\ \A c : /\ WriteConf(c)[1] = "write" /\ WriteConf(c)[2] = <<"conf">>
              /\ WriteConf(c)[3] = c
    /\ \A i, v : /\ WriteCam(i, v)[1] = "write" /\ WriteCam(i, v)[2] = <<"cams", i>>
                 /\ WriteCam(i, v)[3] = v
    /\ \A j, p : /\ WriteProg(j, p)[1] = "write" /\ WriteProg(j, p)[2] = <<"progs", j>>
                 /\ WriteProg(j, p)[3] = p
  BY DEF WriteConf, WriteCam, WriteProg

\* What the steps write.
LEMMA PutsWhat ==
    /\ \A c : /\ Puts(WriteConf(c), <<"conf">>)
              /\ \A i : ~Puts(WriteConf(c), <<"cams", i>>)
              /\ \A i : ~Puts(WriteConf(c), <<"progs", i>>)
    /\ \A i, v : /\ ~Puts(WriteCam(i, v), <<"conf">>)
                 /\ \A j : Puts(WriteCam(i, v), <<"cams", j>>) <=> j = i
                 /\ \A j : ~Puts(WriteCam(i, v), <<"progs", j>>)
    /\ \A i, v : /\ ~Puts(WriteProg(i, v), <<"conf">>)
                 /\ \A j : ~Puts(WriteProg(i, v), <<"cams", j>>)
                 /\ \A j : Puts(WriteProg(i, v), <<"progs", j>>) <=> j = i
  BY DEF WriteConf, WriteCam, WriteProg, Puts

\* A step is of one of these forms.
LEMMA Forms ==
    ASSUME NEW x \in Steps
    PROVE  \/ \E c \in Conf : x = WriteConf(c)
           \/ \E i \in Slots, v \in Camera : x = WriteCam(i, v)
           \/ \E j \in 0 .. MaxStored, p \in Program : x = WriteProg(j, p)
           \/ \E c \in Conf : x = <<"conf", c>>
           \/ \E i \in 0 .. MaxCameras : x = <<"index", i>>
           \/ x \in {<<"current", "program">>, <<"load">>, <<"restore">>, <<"init">>,
                     <<"main">>, <<"wiped">>}
<1>1. CASE \E y \in Slots \X Camera : x = WriteCam(y[1], y[2])
  <2>1. PICK y \in Slots \X Camera : x = WriteCam(y[1], y[2])
    BY <1>1
  <2>2. y[1] \in Slots /\ y[2] \in Camera
    OBVIOUS
  <2> QED
    BY <2>1, <2>2
<1>2. CASE \E y \in (0 .. MaxStored) \X Program : x = WriteProg(y[1], y[2])
  <2>1. PICK y \in (0 .. MaxStored) \X Program : x = WriteProg(y[1], y[2])
    BY <1>2
  <2>2. y[1] \in 0 .. MaxStored /\ y[2] \in Program
    OBVIOUS
  <2> QED
    BY <2>1, <2>2
<1> QED
  BY <1>1, <1>2, Zenon DEF Steps

\* And each of these forms is a step.
LEMMA AreSteps ==
    /\ \A c \in Conf : WriteConf(c) \in Steps /\ <<"conf", c>> \in Steps
    /\ \A i \in Slots, v \in Camera : WriteCam(i, v) \in Steps
    /\ \A j \in 0 .. MaxStored, p \in Program : WriteProg(j, p) \in Steps
    /\ \A i \in 0 .. MaxCameras : <<"index", i>> \in Steps
    /\ <<"current", "program">> \in Steps /\ <<"load">> \in Steps /\ <<"restore">> \in Steps
    /\ <<"init">> \in Steps /\ <<"main">> \in Steps /\ <<"wiped">> \in Steps
<1>1. \A c \in Conf : WriteConf(c) \in Steps /\ <<"conf", c>> \in Steps
  BY Zenon DEF Steps
<1>2. ASSUME NEW i \in Slots, NEW v \in Camera
      PROVE  WriteCam(i, v) \in Steps
  <2>1. <<i, v>> \in Slots \X Camera /\ <<i, v>>[1] = i /\ <<i, v>>[2] = v
    OBVIOUS
  <2>2. \A y \in Slots \X Camera : WriteCam(y[1], y[2]) \in Steps
    BY Zenon DEF Steps
  <2> QED
    BY <2>1, <2>2
<1>3. ASSUME NEW j \in 0 .. MaxStored, NEW p \in Program
      PROVE  WriteProg(j, p) \in Steps
  <2>1. <<j, p>> \in (0 .. MaxStored) \X Program /\ <<j, p>>[1] = j /\ <<j, p>>[2] = p
    OBVIOUS
  <2>2. \A y \in (0 .. MaxStored) \X Program : WriteProg(y[1], y[2]) \in Steps
    BY Zenon DEF Steps
  <2> QED
    BY <2>1, <2>2
<1>4. \A i \in 0 .. MaxCameras : <<"index", i>> \in Steps
  BY Zenon DEF Steps
<1>5. /\ <<"current", "program">> \in Steps /\ <<"load">> \in Steps /\ <<"restore">> \in Steps
      /\ <<"init">> \in Steps /\ <<"main">> \in Steps /\ <<"wiped">> \in Steps
  BY Zenon DEF Steps
<1> QED
  BY <1>1, <1>2, <1>3, <1>4, <1>5

\* The first component says which of them a step is.
LEMMA Kinds ==
    ASSUME NEW x \in Steps
    PROVE  /\ x[1] = "load" => x = <<"load">>
           /\ x[1] = "restore" => x = <<"restore">>
           /\ x[1] = "init" => x = <<"init">>
           /\ x[1] = "main" => x = <<"main">>
           /\ x[1] = "wiped" => x = <<"wiped">>
           /\ x[1] = "current" => x = <<"current", "program">> /\ x[2] = "program"
           /\ x[1] = "index" => x[2] \in 0 .. MaxCameras /\ x = <<"index", x[2]>>
           /\ x[1] = "conf" => x[2] \in Conf /\ x = <<"conf", x[2]>>
           /\ x[1] = "write" =>
                \/ \E c \in Conf : x = WriteConf(c)
                \/ \E i \in Slots, v \in Camera : x = WriteCam(i, v)
                \/ \E j \in 0 .. MaxStored, p \in Program : x = WriteProg(j, p)
  BY Forms, Parts

\* What is left once the first step is done.
LEMMA Shift ==
    ASSUME NEW q \in Seq(Steps), q # <<>>
    PROVE  /\ Len(q) \in Nat \ {0} /\ Head(q) = q[1] /\ q[1] \in Steps
           /\ Tail(q) \in Seq(Steps) /\ Len(Tail(q)) = Len(q) - 1
           /\ \A k \in 1 .. Len(Tail(q)) : k + 1 \in 1 .. Len(q) /\ Tail(q)[k] = q[k + 1]
           /\ \A k \in 1 .. Len(q) : k # 1 => k - 1 \in 1 .. Len(Tail(q))
                                             /\ q[k] = Tail(q)[k - 1]
           /\ 1 \in 1 .. Len(q)
  BY HeadTailProperties

\* The predicates on scripts, once the first step is done.
LEMMA ShiftHas ==
    ASSUME NEW q \in Seq(Steps), q # <<>>, NEW r, r = Tail(q)
    PROVE  /\ \A x : Has(q, x) <=> (q[1] = x \/ Has(r, x))
           /\ Hops(q) <=> (q[1][1] = "index" \/ Hops(r))
           /\ \A k \in 1 .. Len(r) : LoadsAfter(q, k + 1) => LoadsAfter(r, k)
           /\ LoadsAfter(q, 1) => Has(r, <<"load">>)
           /\ \A k \in 1 .. Len(r) + 1 : \A record :
                 Before(q, k + 1, record) => Puts(q[1], record) \/ Before(r, k, record)
<1>1. /\ Len(q) \in Nat \ {0} /\ r \in Seq(Steps) /\ Len(r) = Len(q) - 1
      /\ \A k \in 1 .. Len(r) : k + 1 \in 1 .. Len(q) /\ r[k] = q[k + 1]
      /\ \A k \in 1 .. Len(q) : k # 1 => k - 1 \in 1 .. Len(r) /\ q[k] = r[k - 1]
      /\ 1 \in 1 .. Len(q)
  BY Shift
<1>2. \A x : Has(q, x) <=> (q[1] = x \/ Has(r, x))
  BY <1>1 DEF Has
<1>3. Hops(q) <=> (q[1][1] = "index" \/ Hops(r))
  BY <1>1 DEF Hops
<1>4. \A k \in 1 .. Len(r) : LoadsAfter(q, k + 1) => LoadsAfter(r, k)
  <2> SUFFICES ASSUME NEW k \in 1 .. Len(r), LoadsAfter(q, k + 1)
               PROVE  LoadsAfter(r, k)
    OBVIOUS
  <2>1. PICK n \in 1 .. Len(q) : n > k + 1 /\ q[n] = <<"load">>
    BY DEF LoadsAfter
  <2>2. n - 1 \in 1 .. Len(r) /\ r[n - 1] = <<"load">> /\ n - 1 > k
    BY <1>1, <2>1
  <2> QED
    BY <2>2 DEF LoadsAfter
<1>5. ASSUME LoadsAfter(q, 1)
      PROVE  Has(r, <<"load">>)
  <2>1. PICK n \in 1 .. Len(q) : n > 1 /\ q[n] = <<"load">>
    BY <1>5 DEF LoadsAfter
  <2>2. n - 1 \in 1 .. Len(r) /\ r[n - 1] = <<"load">>
    BY <1>1, <2>1
  <2> QED
    BY <2>2 DEF Has
<1>6. ASSUME NEW k \in 1 .. Len(r) + 1, NEW record, Before(q, k + 1, record)
      PROVE  Puts(q[1], record) \/ Before(r, k, record)
  <2>1. PICK n \in 1 .. Len(q) : n < k + 1 /\ Puts(q[n], record)
    BY <1>6 DEF Before
  <2>2. CASE n = 1
    BY <2>1, <2>2
  <2>3. CASE n # 1
    <3>1. n - 1 \in 1 .. Len(r) /\ Puts(r[n - 1], record) /\ n - 1 < k
      BY <1>1, <2>1, <2>3
    <3> QED
      BY <3>1 DEF Before
  <2> QED
    BY <2>2, <2>3
<1> QED
  BY <1>2, <1>3, <1>4, <1>5, <1>6

-----------------------------------------------------------------------------
(* The scripts.                                                            *)

\* A step that sets a program, in RAM or in the EEPROM.
Base(x) ==
    \/ x = <<"current", "program">>
    \/ \E j \in 0 .. MaxStored, p \in Program : x = WriteProg(j, p) /\ ProgClean(j, p)

\* Two scripts one after the other.
LEMMA Joined ==
    ASSUME NEW q \in Seq(Steps), NEW r \in Seq(Steps)
    PROVE  /\ q \o r \in Seq(Steps) /\ Len(q \o r) = Len(q) + Len(r)
           /\ Len(q) \in Nat /\ Len(r) \in Nat
           /\ \A k \in 1 .. Len(q) : k \in 1 .. Len(q \o r) /\ (q \o r)[k] = q[k]
           /\ \A k \in 1 .. Len(r) : Len(q) + k \in 1 .. Len(q \o r)
                                     /\ (q \o r)[Len(q) + k] = r[k]
           /\ \A k \in 1 .. Len(q \o r) :
                 \/ k \in 1 .. Len(q) /\ (q \o r)[k] = q[k]
                 \/ k > Len(q) /\ k - Len(q) \in 1 .. Len(r) /\ (q \o r)[k] = r[k - Len(q)]
  BY ConcatProperties

\* setDefault sets the program in use, and writes every program.
LEMMA DefaultPrograms ==
    ASSUME NEW e \in Eeprom
    PROVE  /\ setDefault(e) \in Seq(Steps)
           /\ \A k \in 1 .. Len(setDefault(e)) : Base(setDefault(e)[k])
           /\ Has(setDefault(e), <<"current", "program">>)
           /\ \A j \in 0 .. MaxStored :
                 \E n \in 1 .. Len(setDefault(e)) : Puts(setDefault(e)[n], <<"progs", j>>)
<1> DEFINE whole == [name |-> "used", body |-> "program"]
           free(j) == [e.progs[j] EXCEPT !.name = "free"]
           a == <<<<"current", "program">>, WriteProg(1, whole), WriteProg(2, whole),
                  WriteProg(0, whole)>>
           b == [j \in 1 .. MaxStored - 3 |-> WriteProg(j + 2, free(j + 2))]
           c == <<WriteProg(MaxStored, whole)>>
<1>1. setDefault(e) = (a \o b) \o c
  BY DEF setDefault, WriteProgram, NameProgram, WriteProg
<1>2. MaxStored \in Nat /\ MaxStored >= 3
  BY StoredAssumption
<1>3. whole \in Program /\ whole.body = "program" /\ \A j \in 0 .. MaxStored : ProgClean(j, whole)
  BY DEF Program, ProgClean
<1>4. \A j \in 3 .. MaxStored - 1 : free(j) \in Program /\ ProgClean(j, free(j))
  BY <1>2 DEF Eeprom, Program, ProgClean
<1> HIDE DEF whole, free
<1>5. /\ a \in Seq(Steps) /\ Len(a) = 4 /\ a[1] = <<"current", "program">>
      /\ a[2] = WriteProg(1, whole) /\ a[3] = WriteProg(2, whole) /\ a[4] = WriteProg(0, whole)
  <2>1. /\ <<"current", "program">> \in Steps /\ WriteProg(1, whole) \in Steps
        /\ WriteProg(2, whole) \in Steps /\ WriteProg(0, whole) \in Steps
    BY <1>2, <1>3, AreSteps
  <2> HIDE DEF whole
  <2> QED
    BY <2>1
<1>6. /\ b \in Seq(Steps) /\ Len(b) = MaxStored - 3
      /\ \A j \in 1 .. MaxStored - 3 : b[j] = WriteProg(j + 2, free(j + 2)) /\ j + 2 \in 3 .. MaxStored - 1
  <2>1. \A j \in 1 .. MaxStored - 3 : WriteProg(j + 2, free(j + 2)) \in Steps /\ j + 2 \in 3 .. MaxStored - 1
    BY <1>2, <1>4, AreSteps
  <2>2. b \in [1 .. MaxStored - 3 -> Steps]
    BY <2>1
  <2>3. /\ b \in Seq(Steps) /\ Len(b) = MaxStored - 3
    BY <1>2, <2>2
  <2> QED
    BY <2>1, <2>3
<1>7. /\ c \in Seq(Steps) /\ Len(c) = 1 /\ c[1] = WriteProg(MaxStored, whole)
  <2>1. WriteProg(MaxStored, whole) \in Steps
    BY <1>2, <1>3, AreSteps
  <2> QED
    BY <2>1
<1> HIDE DEF a, b, c
<1> DEFINE ab == a \o b
<1>8. /\ ab \in Seq(Steps) /\ Len(ab) = MaxStored + 1
      /\ \A k \in 1 .. 4 : ab[k] = a[k]
      /\ \A k \in 1 .. MaxStored - 3 : ab[4 + k] = b[k]
  <2>1. /\ ab \in Seq(Steps) /\ Len(ab) = Len(a) + Len(b)
        /\ \A k \in 1 .. Len(a) : ab[k] = a[k]
        /\ \A k \in 1 .. Len(b) : ab[Len(a) + k] = b[k]
    BY <1>5, <1>6, Joined
  <2> HIDE DEF ab
  <2> QED
    BY <1>2, <1>5, <1>6, <2>1
<1> HIDE DEF ab
<1>9. /\ setDefault(e) \in Seq(Steps) /\ Len(setDefault(e)) = MaxStored + 2
      /\ \A k \in 1 .. 4 : setDefault(e)[k] = a[k]
      /\ \A k \in 1 .. MaxStored - 3 : setDefault(e)[4 + k] = b[k]
      /\ setDefault(e)[MaxStored + 2] = WriteProg(MaxStored, whole)
  <2> DEFINE q == ab \o c
  <2>1. /\ q \in Seq(Steps) /\ Len(q) = Len(ab) + Len(c)
        /\ \A k \in 1 .. Len(ab) : q[k] = ab[k]
        /\ \A k \in 1 .. Len(c) : q[Len(ab) + k] = c[k]
    BY <1>7, <1>8, Joined
  <2>2. setDefault(e) = q
    BY <1>1 DEF ab
  <2> HIDE DEF q
  <2>3. /\ Len(q) = MaxStored + 2 /\ q[MaxStored + 2] = WriteProg(MaxStored, whole)
        /\ \A k \in 1 .. MaxStored + 1 : q[k] = ab[k]
    BY <1>2, <1>7, <1>8, <2>1
  <2>4. /\ \A k \in 1 .. 4 : q[k] = a[k]
        /\ \A k \in 1 .. MaxStored - 3 : q[4 + k] = b[k]
    BY <1>2, <1>8, <2>3
  <2> QED
    BY <2>1, <2>2, <2>3, <2>4
<1>10. ASSUME NEW k \in 1 .. Len(setDefault(e))
       PROVE  Base(setDefault(e)[k])
  <2>1. k \in 1 .. 4 \/ k - 4 \in 1 .. MaxStored - 3 \/ k = MaxStored + 2
    BY <1>2, <1>9
  <2>2. CASE k \in 1 .. 4
    <3>1. k = 1 \/ k = 2 \/ k = 3 \/ k = 4
      BY <2>2
    <3> QED
      BY <1>2, <1>3, <1>5, <1>9, <2>2, <3>1 DEF Base
  <2>3. CASE k - 4 \in 1 .. MaxStored - 3
    <3>1. setDefault(e)[k] = WriteProg(k - 2, free(k - 2)) /\ k - 2 \in 3 .. MaxStored - 1
      BY <1>2, <1>6, <1>9, <2>3
    <3>2. k - 2 \in 0 .. MaxStored
      BY <1>2, <3>1
    <3> QED
      BY <1>4, <3>1, <3>2 DEF Base
  <2>4. CASE k = MaxStored + 2
    BY <1>2, <1>3, <1>9, <2>4 DEF Base
  <2> QED
    BY <2>1, <2>2, <2>3, <2>4
<1>11. Has(setDefault(e), <<"current", "program">>)
  BY <1>2, <1>5, <1>9 DEF Has
<1>12. ASSUME NEW j \in 0 .. MaxStored
       PROVE  \E n \in 1 .. Len(setDefault(e)) : Puts(setDefault(e)[n], <<"progs", j>>)
  <2>1. j = 0 \/ j = 1 \/ j = 2 \/ j \in 3 .. MaxStored - 1 \/ j = MaxStored
    BY <1>2
  <2>2. CASE j \in 0 .. 2
    <3>1. /\ 2 \in 1 .. Len(setDefault(e)) /\ setDefault(e)[2] = WriteProg(1, whole)
          /\ 3 \in 1 .. Len(setDefault(e)) /\ setDefault(e)[3] = WriteProg(2, whole)
          /\ 4 \in 1 .. Len(setDefault(e)) /\ setDefault(e)[4] = WriteProg(0, whole)
      BY <1>2, <1>5, <1>9
    <3> QED
      BY <2>2, <3>1, PutsWhat
  <2>3. CASE j \in 3 .. MaxStored - 1
    <3>1. /\ j - 2 \in 1 .. MaxStored - 3 /\ (j - 2) + 2 = j /\ 4 + (j - 2) = j + 2
          /\ j + 2 \in 1 .. MaxStored + 2
      BY <1>2, <2>3
    <3>2. j + 2 \in 1 .. Len(setDefault(e)) /\ setDefault(e)[j + 2] = b[j - 2]
      BY <1>9, <3>1
    <3>3. b[j - 2] = WriteProg(j, free(j))
      BY <1>6, <3>1
    <3> QED
      BY <3>2, <3>3, PutsWhat
  <2>4. CASE j = MaxStored
    <3>1. MaxStored + 2 \in 1 .. Len(setDefault(e))
      BY <1>2, <1>9
    <3> QED
      BY <1>9, <2>4, <3>1, PutsWhat
  <2> QED
    BY <2>1, <2>2, <2>3, <2>4
<1> QED
  BY <1>9, <1>10, <1>11, <1>12

\* What settings_save leaves in conf and in the EEPROM.
Saved(c) == [c EXCEPT !.cam = ClearsAuto(DefaultOf(c))]

\* It is well formed, and its camera is the default one, untested.
LEMMA SavedIs ==
    ASSUME ee \in Eeprom, NEW c \in Conf
    PROVE  /\ Saved(c) \in Conf /\ Saved(c).sys = c.sys /\ ~Saved(c).cam.auto
           /\ Saved(c).cam.serial = (IF index > 0 THEN ee.conf.cam.serial ELSE c.cam.serial)
           /\ Saved(c).cam.val = (IF index > 0 THEN ee.conf.cam.val ELSE c.cam.val)
<1> DEFINE d == DefaultOf(c)
<1>1. d \in Camera /\ d = (IF index > 0 THEN ee.conf.cam ELSE c.cam)
  BY DEF DefaultOf, Eeprom, Conf
<1>2. Saved(c) = [c EXCEPT !.cam = ClearsAuto(d)]
  BY DEF Saved
<1> HIDE DEF d
<1> DEFINE v == ClearsAuto(d)
<1>3. v \in Camera /\ v.serial = d.serial /\ v.val = d.val /\ v.auto = FALSE
  BY <1>1 DEF ClearsAuto, Camera
<1> HIDE DEF v
<1>4. /\ Saved(c) \in Conf /\ Saved(c).sys = c.sys /\ Saved(c).cam = v
  BY <1>2, <1>3 DEF Conf, v
<1> QED
  BY <1>1, <1>3, <1>4

\* Short scripts one after the other.
LEMMA Joined1x2 ==
    ASSUME NEW w, NEW x, NEW y
    PROVE  <<w>> \o <<x, y>> = <<w, x, y>>
<1> DEFINE S == {w, x, y}
           q == <<w>> \o <<x, y>>
<1>1. <<w>> \in Seq(S) /\ <<x, y>> \in Seq(S) /\ <<w, x, y>> \in Seq(S)
  OBVIOUS
<1>2. q \in Seq(S) /\ Len(q) = 3 /\ q[1] = w /\ q[2] = x /\ q[3] = y
  BY <1>1, ConcatProperties
<1> HIDE DEF q, S
<1>3. \A i \in 1 .. 3 : i = 1 \/ i = 2 \/ i = 3
  OBVIOUS
<1>4. q = <<w, x, y>>
  BY <1>1, <1>2, <1>3, SeqEqual
<1> QED
  BY <1>4 DEF q

\* Two steps and one.
LEMMA Joined2x1 ==
    ASSUME NEW x, NEW y, NEW z
    PROVE  <<x, y>> \o <<z>> = <<x, y, z>> /\ <<>> \o <<x, y>> = <<x, y>>
<1> DEFINE S == {x, y, z}
           q == <<x, y>> \o <<z>>
<1>1. /\ <<x, y>> \in Seq(S) /\ <<z>> \in Seq(S) /\ <<x, y, z>> \in Seq(S)
      /\ <<x, y>> \in Seq({x, y})
  OBVIOUS
<1>2. q \in Seq(S) /\ Len(q) = 3 /\ q[1] = x /\ q[2] = y /\ q[3] = z
  BY <1>1, ConcatProperties
<1> HIDE DEF q, S
<1>3. \A i \in 1 .. 3 : i = 1 \/ i = 2 \/ i = 3
  OBVIOUS
<1>4. q = <<x, y, z>>
  BY <1>1, <1>2, <1>3, SeqEqual
<1>5. <<>> \o <<x, y>> = <<x, y>>
  BY <1>1, ConcatEmptySeq
<1> QED
  BY <1>4, <1>5 DEF q

\* Three steps and one.
LEMMA Joined3x1 ==
    ASSUME NEW w, NEW x, NEW y, NEW z
    PROVE  <<w, x, y>> \o <<z>> = <<w, x, y, z>>
<1> DEFINE S == {w, x, y, z}
           q == <<w, x, y>> \o <<z>>
<1>1. <<w, x, y>> \in Seq(S) /\ <<z>> \in Seq(S) /\ <<w, x, y, z>> \in Seq(S)
  OBVIOUS
<1>2. q \in Seq(S) /\ Len(q) = 4 /\ q[1] = w /\ q[2] = x /\ q[3] = y /\ q[4] = z
  BY <1>1, ConcatProperties
<1> HIDE DEF q, S
<1>3. \A i \in 1 .. 4 : i = 1 \/ i = 2 \/ i = 3 \/ i = 4
  OBVIOUS
<1>4. q = <<w, x, y, z>>
  BY <1>1, <1>2, <1>3, SeqEqual
<1> QED
  BY <1>4 DEF q

\* settings_save and settings_update, step by step.
LEMMA SaveIs ==
    ASSUME NEW c
    PROVE  /\ index > 0 =>
                /\ settings_save(c) = <<WriteCam(index, c.cam), <<"conf", Saved(c)>>,
                                        WriteConf(Saved(c))>>
                /\ settings_update(c) = <<WriteCam(index, c.cam), <<"conf", Saved(c)>>,
                                          WriteConf(Saved(c)), <<"load">>>>
           /\ ~(index > 0) =>
                /\ settings_save(c) = <<<<"conf", Saved(c)>>, WriteConf(Saved(c))>>
                /\ settings_update(c) = <<<<"conf", Saved(c)>>, WriteConf(Saved(c)),
                                          <<"load">>>>
<1> DEFINE s == Saved(c)
           b == <<<<"conf", s>>, WriteConf(s)>>
<1>1. settings_save(c) = (IF index > 0 THEN <<WriteCam(index, c.cam)>> ELSE <<>>) \o b
  BY DEF settings_save, Saved
<1>2. settings_update(c) = settings_save(c) \o <<<<"load">>>>
  BY DEF settings_update
<1> HIDE DEF s
<1> DEFINE w == WriteCam(index, c.cam)
           x == <<"conf", s>>
           y == WriteConf(s)
           z == <<"load">>
<1>3. CASE index > 0
  <2>1. settings_save(c) = <<w>> \o <<x, y>>
    BY <1>1, <1>3
  <2>2. settings_update(c) = settings_save(c) \o <<z>>
    BY <1>2
  <2> HIDE DEF w, x, y, z
  <2>3. <<w>> \o <<x, y>> = <<w, x, y>> /\ <<w, x, y>> \o <<z>> = <<w, x, y, z>>
    BY Joined1x2, Joined3x1
  <2>4. settings_save(c) = <<w, x, y>> /\ settings_update(c) = <<w, x, y, z>>
    BY <2>1, <2>2, <2>3, Zenon
  <2> QED
    BY <1>3, <2>3, <2>4 DEF s, w, x, y, z
<1>4. CASE ~(index > 0)
  <2>1. settings_save(c) = <<>> \o <<x, y>>
    BY <1>1, <1>4
  <2>2. settings_update(c) = settings_save(c) \o <<z>>
    BY <1>2
  <2> HIDE DEF w, x, y, z
  <2>3. <<>> \o <<x, y>> = <<x, y>> /\ <<x, y>> \o <<z>> = <<x, y, z>>
    BY Joined2x1
  <2>4. settings_save(c) = <<x, y>> /\ settings_update(c) = <<x, y, z>>
    BY <2>1, <2>2, <2>3, Zenon
  <2> QED
    BY <1>4, <2>3, <2>4 DEF s, w, x, y, z
<1> QED
  BY <1>3, <1>4

\* A step of a reset before its load.
ResetStep(x) ==
    \/ Base(x)
    \/ x = <<"conf", FactoryConf>>
    \/ x = <<"conf", Saved(FactoryConf)>>
    \/ \E i \in Slots : x = WriteCam(i, Zeros)
    \/ index > 0 /\ x = WriteCam(index, FactoryCamera)

\* The end of a start or of a reset.
Ends(x) == x \in {<<"main">>, <<"wiped">>}

\* The script resets everything: programs and slots are written before the settings,
\* the settings before the load at l, and after that only programs and the end.
Resets(q, l) ==
    /\ q \in Seq(Steps)
    /\ l \in 3 .. Len(q)
    /\ q[l] = <<"load">>
    /\ q[l - 1] = WriteConf(Saved(FactoryConf))
    /\ \A k \in 1 .. l - 2 : ResetStep(q[k])
    /\ \A i \in Slots : \E n \in 1 .. l - 2 : Puts(q[n], <<"cams", i>>)
    /\ \A j \in 0 .. MaxStored : \E n \in 1 .. l - 2 : Puts(q[n], <<"progs", j>>)
    /\ \E n \in 1 .. l - 2 : q[n] = <<"current", "program">>
    /\ \A k \in l + 1 .. Len(q) : Base(q[k]) \/ (k = Len(q) /\ Ends(q[k]))

\* The factory's settings.
LEMMA FactoryFacts ==
    /\ FactoryConf \in Conf /\ FactoryConf.cam = FactoryCamera /\ FactoryConf.sys = "factory"
    /\ FactoryCamera \in Camera /\ FactoryCamera.serial = "" /\ FactoryCamera.val = "factory"
    /\ FactoryCamera.auto = FALSE
    /\ Zeros \in Camera /\ Zeros.serial = "" /\ Zeros.val = "zero" /\ Zeros.auto = FALSE
<1>1. /\ FactoryCamera \in Camera /\ FactoryCamera.serial = ""
      /\ FactoryCamera.val = "factory" /\ FactoryCamera.auto = FALSE
  BY DEF FactoryCamera, Camera, Values
<1>2. Zeros \in Camera /\ Zeros.serial = "" /\ Zeros.val = "zero" /\ Zeros.auto = FALSE
  BY DEF Zeros, Camera, Values
<1>3. FactoryConf \in Conf /\ FactoryConf.cam = FactoryCamera /\ FactoryConf.sys = "factory"
  BY <1>1 DEF FactoryConf, Conf
<1> QED
  BY <1>1, <1>2, <1>3

\* settings_default is such a script.
LEMMA DefaultResets ==
    ASSUME ee \in Eeprom, index \in 0 .. MaxCameras
    PROVE  Resets(settings_default, Len(settings_default))
<1> DEFINE a == setDefault(ee)
           b == <<<<"conf", FactoryConf>>>>
           c == [i \in Slots |-> WriteCam(i, Zeros)]
           s == Saved(FactoryConf)
           d == settings_update(FactoryConf)
           m == MaxCameras
<1>1. settings_default = ((a \o b) \o c) \o d
  BY DEF settings_default
<1>2. m \in Nat \ {0} /\ Slots = 1 .. m
  BY StoredAssumption DEF Slots
<1>3. /\ a \in Seq(Steps) /\ \A k \in 1 .. Len(a) : Base(a[k])
      /\ \E n \in 1 .. Len(a) : a[n] = <<"current", "program">>
      /\ \A j \in 0 .. MaxStored : \E n \in 1 .. Len(a) : Puts(a[n], <<"progs", j>>)
  BY DefaultPrograms DEF Has
<1>4. b \in Seq(Steps) /\ Len(b) = 1 /\ b[1] = <<"conf", FactoryConf>>
  <2>1. <<"conf", FactoryConf>> \in Steps
    BY FactoryFacts, AreSteps
  <2> QED
    BY <2>1
<1>5. c \in Seq(Steps) /\ Len(c) = m /\ \A i \in 1 .. m : c[i] = WriteCam(i, Zeros)
  <2>1. \A i \in Slots : WriteCam(i, Zeros) \in Steps
    BY FactoryFacts, AreSteps
  <2>2. c \in [1 .. m -> Steps]
    BY <1>2, <2>1
  <2>3. c \in Seq(Steps) /\ Len(c) = m
    BY <1>2, <2>2
  <2> QED
    BY <1>2, <2>3
<1>6. /\ d \in Seq(Steps) /\ Len(d) \in {3, 4}
      /\ d[Len(d)] = <<"load">> /\ d[Len(d) - 1] = WriteConf(s)
      /\ \A k \in 1 .. Len(d) - 2 : ResetStep(d[k])
  <2>1. s \in Conf
    BY FactoryFacts, SavedIs
  <2>2. <<"conf", s>> \in Steps /\ WriteConf(s) \in Steps /\ <<"load">> \in Steps
    BY <2>1, AreSteps
  <2> HIDE DEF s
  <2>3. CASE index > 0
    <3>1. d = <<WriteCam(index, FactoryCamera), <<"conf", s>>, WriteConf(s), <<"load">>>>
      BY <2>3, SaveIs, FactoryFacts DEF s
    <3>2. index \in Slots
      BY <1>2, <2>3
    <3>3. WriteCam(index, FactoryCamera) \in Steps
      BY <3>2, FactoryFacts, AreSteps
    <3> HIDE DEF d
    <3>4. /\ d \in Seq(Steps) /\ Len(d) = 4 /\ d[4] = <<"load">> /\ d[3] = WriteConf(s)
          /\ d[1] = WriteCam(index, FactoryCamera) /\ d[2] = <<"conf", s>>
      BY <2>2, <3>1, <3>3
    <3>5. \A k \in 1 .. 2 : k = 1 \/ k = 2
      OBVIOUS
    <3> QED
      BY <2>3, <3>4, <3>5 DEF ResetStep, s
  <2>4. CASE ~(index > 0)
    <3>1. d = <<<<"conf", s>>, WriteConf(s), <<"load">>>>
      BY <2>4, SaveIs DEF s
    <3> HIDE DEF d
    <3>4. /\ d \in Seq(Steps) /\ Len(d) = 3 /\ d[3] = <<"load">> /\ d[2] = WriteConf(s)
          /\ d[1] = <<"conf", s>>
      BY <2>2, <3>1
    <3>5. \A k \in 1 .. 1 : k = 1
      OBVIOUS
    <3> QED
      BY <3>4, <3>5 DEF ResetStep, s
  <2> QED
    BY <2>3, <2>4
<1> HIDE DEF a, b, c, d, m
<1> DEFINE ab == a \o b
           abc == ab \o c
           q == abc \o d
           na == Len(a)
<1>7. /\ na \in Nat /\ ab \in Seq(Steps) /\ Len(ab) = na + 1
      /\ \A k \in 1 .. na : ab[k] = a[k]
      /\ ab[na + 1] = <<"conf", FactoryConf>>
  <2>1. /\ na \in Nat /\ ab \in Seq(Steps) /\ Len(ab) = Len(a) + Len(b)
        /\ \A k \in 1 .. Len(a) : ab[k] = a[k]
        /\ \A k \in 1 .. Len(b) : ab[Len(a) + k] = b[k]
    BY <1>3, <1>4, Joined, ZenonT(60)
  <2> HIDE DEF ab
  <2> QED
    BY <1>4, <2>1
<1> HIDE DEF ab, na
<1>8. /\ abc \in Seq(Steps) /\ Len(abc) = na + 1 + m
      /\ \A k \in 1 .. na + 1 : abc[k] = ab[k]
      /\ \A k \in 1 .. m : abc[na + 1 + k] = WriteCam(k, Zeros)
  <2>1. /\ abc \in Seq(Steps) /\ Len(abc) = Len(ab) + Len(c)
        /\ \A k \in 1 .. Len(ab) : abc[k] = ab[k]
        /\ \A k \in 1 .. Len(c) : abc[Len(ab) + k] = c[k]
    BY <1>7, <1>5, Joined
  <2> HIDE DEF abc
  <2> QED
    BY <1>2, <1>5, <1>7, <2>1
<1> HIDE DEF abc
<1>9. /\ q \in Seq(Steps) /\ Len(q) = na + 1 + m + Len(d)
      /\ \A k \in 1 .. na + 1 + m : q[k] = abc[k]
      /\ \A k \in 1 .. Len(d) : q[na + 1 + m + k] = d[k]
  <2>1. /\ q \in Seq(Steps) /\ Len(q) = Len(abc) + Len(d)
        /\ \A k \in 1 .. Len(abc) : q[k] = abc[k]
        /\ \A k \in 1 .. Len(d) : q[Len(abc) + k] = d[k]
    BY <1>8, <1>6, Joined, ZenonT(60)
  <2> HIDE DEF q
  <2> QED
    BY <1>8, <2>1
<1>10. settings_default = q
  BY <1>1 DEF ab, abc
<1> HIDE DEF q
<1> DEFINE l == Len(q)
<1> DEFINE ld == Len(d)
<1>61. ld \in Nat /\ ld >= 3 /\ ld \in 1 .. ld /\ ld - 1 \in 1 .. ld
  <2>1. ld = 3 \/ ld = 4
    BY <1>6
  <2> HIDE DEF ld
  <2> QED
    BY <2>1
<1>91. l = na + 1 + m + ld /\ \A k \in na + 1 + m + 1 .. l : q[k] = d[k - (na + 1 + m)]
  <2>1. /\ Len(q) = na + 1 + m + ld
        /\ \A k \in 1 .. ld : q[na + 1 + m + k] = d[k]
    BY <1>9
  <2> HIDE DEF ld, q, d
  <2>2. ASSUME NEW k \in na + 1 + m + 1 .. na + 1 + m + ld
        PROVE  q[k] = d[k - (na + 1 + m)]
    <3> DEFINE i == k - (na + 1 + m)
    <3>1. i \in 1 .. ld /\ na + 1 + m + i = k
      BY <1>2, <1>7, <1>61
    <3> HIDE DEF i
    <3>2. q[na + 1 + m + i] = d[i]
      BY <2>1, <3>1
    <3> QED
      BY <3>1, <3>2 DEF i
  <2> QED
    BY <2>1, <2>2
<1> HIDE DEF ld
<1>11. l \in 3 .. Len(q) /\ na + 1 + m <= l - 2 /\ l \in Nat
  <2> HIDE DEF l
  <2>1. l = Len(q)
    BY DEF l
  <2> QED
    BY <1>2, <1>7, <1>61, <1>91, <2>1
<1>12. q[l] = <<"load">> /\ q[l - 1] = WriteConf(s)
  <2> HIDE DEF l
  <2>1. l \in na + 1 + m + 1 .. l /\ l - 1 \in na + 1 + m + 1 .. l
        /\ l - (na + 1 + m) = ld /\ (l - 1) - (na + 1 + m) = ld - 1
    BY <1>2, <1>7, <1>61, <1>91
  <2>2. q[l] = d[ld] /\ q[l - 1] = d[ld - 1]
    BY <1>91, <2>1
  <2> QED
    BY <1>6, <2>2 DEF ld
<1>13. ASSUME NEW k \in 1 .. l - 2
       PROVE  ResetStep(q[k])
  <2>1. \/ k \in 1 .. na \/ k = na + 1 \/ k - (na + 1) \in 1 .. m
        \/ k - (na + 1 + m) \in 1 .. Len(d) - 2
    BY <1>2, <1>6, <1>7, <1>9
  <2>2. CASE k \in 1 .. na
    <3>1. q[k] = a[k]
      BY <1>2, <1>7, <1>8, <1>9, <2>2
    <3> QED
      BY <1>3, <2>2, <3>1 DEF ResetStep, na
  <2>3. CASE k = na + 1
    <3>1. q[k] = <<"conf", FactoryConf>>
      BY <1>2, <1>7, <1>8, <1>9, <2>3
    <3> QED
      BY <3>1 DEF ResetStep
  <2>4. CASE k - (na + 1) \in 1 .. m
    <3>1. q[k] = WriteCam(k - (na + 1), Zeros)
      BY <1>2, <1>7, <1>8, <1>9, <2>4
    <3> QED
      BY <1>2, <2>4, <3>1 DEF ResetStep
  <2>5. CASE k - (na + 1 + m) \in 1 .. Len(d) - 2
    <3>1. k \in na + 1 + m + 1 .. l
      BY <1>2, <1>7, <1>11, <2>5
    <3>2. q[k] = d[k - (na + 1 + m)]
      BY <1>91, <3>1
    <3> QED
      BY <1>6, <2>5, <3>2
  <2> QED
    BY <2>1, <2>2, <2>3, <2>4, <2>5
<1>14. ASSUME NEW i \in Slots
       PROVE  \E n \in 1 .. l - 2 : Puts(q[n], <<"cams", i>>)
  <2>1. na + 1 + i \in 1 .. l - 2 /\ q[na + 1 + i] = WriteCam(i, Zeros)
    BY <1>2, <1>7, <1>8, <1>9, <1>11
  <2> QED
    BY <2>1, PutsWhat
<1>15. ASSUME NEW n \in 1 .. na
       PROVE  n \in 1 .. l - 2 /\ q[n] = a[n]
  BY <1>2, <1>7, <1>8, <1>9, <1>11, SMTT(60)
<1>16. /\ \A j \in 0 .. MaxStored : \E n \in 1 .. l - 2 : Puts(q[n], <<"progs", j>>)
       /\ \E n \in 1 .. l - 2 : q[n] = <<"current", "program">>
  BY <1>3, <1>15 DEF na
<1>17. \A k \in l + 1 .. Len(q) : FALSE
  BY <1>11
<1> QED
  BY <1>9, <1>10, <1>11, <1>12, <1>13, <1>14, <1>16, <1>17 DEF Resets

\* It stays one with more programs before it, and more or the end after it.
LEMMA ResetsMore ==
    ASSUME NEW q, NEW l, Resets(q, l), NEW p \in Seq(Steps),
           \A k \in 1 .. Len(p) : Base(p[k])
    PROVE  Resets(p \o q, Len(p) + l)
<1> DEFINE r == p \o q
           n == Len(p)
<1>1. /\ q \in Seq(Steps) /\ l \in 3 .. Len(q)
      /\ q[l] = <<"load">> /\ q[l - 1] = WriteConf(Saved(FactoryConf))
      /\ \A k \in 1 .. l - 2 : ResetStep(q[k])
      /\ \A k \in l + 1 .. Len(q) : Base(q[k]) \/ (k = Len(q) /\ Ends(q[k]))
  BY DEF Resets
<1>2. /\ r \in Seq(Steps) /\ Len(r) = n + Len(q) /\ n \in Nat /\ Len(q) \in Nat
      /\ \A k \in 1 .. n : r[k] = p[k]
      /\ \A k \in 1 .. Len(q) : n + k \in 1 .. Len(r) /\ r[n + k] = q[k]
      /\ \A k \in 1 .. Len(r) : k > n => k - n \in 1 .. Len(q) /\ r[k] = q[k - n]
  BY <1>1, Joined
<1> HIDE DEF r, n
<1> DEFINE m == n + l
<1>20. m \in Nat /\ m \in 3 .. Len(r) /\ m > n /\ m - 1 > n /\ m - n = l /\ (m - 1) - n = l - 1
       /\ m - 1 \in 1 .. Len(r)
  BY <1>1, <1>2
<1> HIDE DEF m
<1>3. r[m] = <<"load">> /\ r[m - 1] = WriteConf(Saved(FactoryConf))
  <2>1. r[m] = q[m - n] /\ r[m - 1] = q[(m - 1) - n]
    BY <1>2, <1>20
  <2> QED
    BY <1>1, <1>20, <2>1
<1>4. ASSUME NEW k \in 1 .. m - 2
      PROVE  ResetStep(r[k])
  <2>1. CASE k <= n
    BY <1>2, <2>1 DEF ResetStep, n
  <2>2. CASE k > n
    <3>1. k - n \in 1 .. l - 2 /\ k \in 1 .. Len(r)
      BY <1>1, <1>2, <1>20, <2>2
    <3>2. r[k] = q[k - n]
      BY <1>2, <2>2, <3>1
    <3> QED
      BY <1>1, <3>1, <3>2
  <2> QED
    BY <1>2, <1>20, <2>1, <2>2
<1>5. ASSUME NEW k \in m + 1 .. Len(r)
      PROVE  Base(r[k]) \/ (k = Len(r) /\ Ends(r[k]))
  <2>1. k - n \in l + 1 .. Len(q) /\ k > n /\ k \in 1 .. Len(r)
        /\ (k - n = Len(q) => k = Len(r))
    <3>1. m = n + l
      BY DEF m
    <3>2. l \in Nat /\ n \in Nat /\ Len(q) \in Nat /\ Len(r) = n + Len(q)
      BY <1>1, <1>2
    <3> QED
      BY <3>1, <3>2
  <2>2. r[k] = q[k - n]
    BY <1>2, <2>1
  <2> QED
    BY <1>1, <2>1, <2>2
<1>6. ASSUME NEW k \in 1 .. l - 2
      PROVE  n + k \in 1 .. m - 2 /\ r[n + k] = q[k]
  <2>1. l \in Nat /\ n \in Nat /\ m = n + l /\ k \in 1 .. Len(q)
    BY <1>1, <1>2 DEF m
  <2>2. n + k \in 1 .. m - 2
    BY <2>1
  <2> QED
    BY <1>2, <2>1, <2>2
<1>7. /\ \A i \in Slots : \E k \in 1 .. m - 2 : Puts(r[k], <<"cams", i>>)
      /\ \A j \in 0 .. MaxStored : \E k \in 1 .. m - 2 : Puts(r[k], <<"progs", j>>)
      /\ \E k \in 1 .. m - 2 : r[k] = <<"current", "program">>
  BY <1>6 DEF Resets
<1>8. Resets(r, m)
  BY <1>2, <1>20, <1>3, <1>4, <1>5, <1>7 DEF Resets
<1> QED
  BY <1>8 DEF r, m, n

\* A reset with programs, or the end of a script, after it.
LEMMA ResetsEnd ==
    ASSUME NEW q, NEW l, Resets(q, l), \A k \in l + 1 .. Len(q) : Base(q[k]),
           NEW p \in Seq(Steps), \A k \in 1 .. Len(p) : Base(p[k]) \/ (k = Len(p) /\ Ends(p[k]))
    PROVE  /\ Resets(q \o p, l)
           /\ (\A k \in 1 .. Len(p) : Base(p[k]))
                 => \A k \in l + 1 .. Len(q \o p) : Base((q \o p)[k])
<1> DEFINE r == q \o p
           n == Len(q)
<1>1. /\ q \in Seq(Steps) /\ l \in 3 .. n
      /\ q[l] = <<"load">> /\ q[l - 1] = WriteConf(Saved(FactoryConf))
      /\ \A k \in 1 .. l - 2 : ResetStep(q[k])
      /\ \A k \in l + 1 .. n : Base(q[k])
  BY DEF Resets
<1>2. /\ r \in Seq(Steps) /\ Len(r) = n + Len(p) /\ n \in Nat /\ Len(p) \in Nat
      /\ \A k \in 1 .. n : r[k] = q[k]
      /\ \A k \in 1 .. Len(p) : r[n + k] = p[k]
  BY <1>1, Joined
<1> HIDE DEF r, n
<1>3. l \in 3 .. Len(r) /\ r[l] = <<"load">> /\ r[l - 1] = WriteConf(Saved(FactoryConf))
  BY <1>1, <1>2
<1>4. \A k \in 1 .. l - 2 : ResetStep(r[k])
  BY <1>1, <1>2
<1>5. ASSUME NEW k \in l + 1 .. Len(r)
      PROVE  /\ Base(r[k]) \/ (k = Len(r) /\ Ends(r[k]))
             /\ (\A i \in 1 .. Len(p) : Base(p[i])) => Base(r[k])
  <2>1. CASE k <= n
    BY <1>1, <1>2, <2>1
  <2>2. CASE k > n
    <3>1. l \in Nat /\ n \in Nat /\ Len(p) \in Nat /\ Len(r) = n + Len(p)
      BY <1>1, <1>2
    <3>2. k - n \in 1 .. Len(p) /\ n + (k - n) = k /\ (k - n = Len(p) => k = Len(r))
      BY <2>2, <3>1
    <3>3. r[n + (k - n)] = p[k - n]
      BY <1>2, <3>2
    <3> QED
      BY <3>2, <3>3
  <2> QED
    BY <1>1, <1>2, <2>1, <2>2
<1>6. \A k \in 1 .. l - 2 : r[k] = q[k]
  BY <1>1, <1>2
<1>7. /\ \A i \in Slots : \E k \in 1 .. l - 2 : Puts(r[k], <<"cams", i>>)
      /\ \A j \in 0 .. MaxStored : \E k \in 1 .. l - 2 : Puts(r[k], <<"progs", j>>)
      /\ \E k \in 1 .. l - 2 : r[k] = <<"current", "program">>
  BY <1>6 DEF Resets
<1>8. Resets(r, l)
  BY <1>2, <1>3, <1>4, <1>5, <1>7 DEF Resets
<1> QED
  BY <1>5, <1>8 DEF r
-----------------------------------------------------------------------------
(* The state.                                                              *)

\* The parts of a state that is well typed.
LEMMA TypeFacts ==
    ASSUME TypeOK
    PROVE  /\ ee \in Eeprom /\ ee.conf \in Conf /\ ee.conf.cam \in Camera
           /\ ee.cams \in [Slots -> Camera] /\ ee.progs \in [0 .. MaxStored -> Program]
           /\ conf \in Conf /\ conf.cam \in Camera
           /\ index \in 0 .. MaxCameras /\ (index > 0 => index \in Slots)
           /\ timer \in {"program", "junk"}
           /\ hist.junk \in BOOLEAN /\ hist.mixed \in BOOLEAN /\ hist.tested \in BOOLEAN
           /\ hist.reset \in BOOLEAN
<1>1. ee.conf \in Conf /\ ee.cams \in [Slots -> Camera] /\ ee.progs \in [0 .. MaxStored -> Program]
  BY DEF TypeOK, Eeprom
<1>2. ee.conf.cam \in Camera /\ conf.cam \in Camera
  BY <1>1 DEF TypeOK, Conf
<1>3. index > 0 => index \in Slots
  <2>1. index \in 0 .. MaxCameras
    BY DEF TypeOK
  <2> QED
    BY <2>1, StoredAssumption DEF Slots
<1> QED
  BY <1>1, <1>2, <1>3 DEF TypeOK

\* A write of one record leaves the others alone.
LEMMA WrittenFacts ==
    ASSUME ee \in Eeprom
    PROVE  /\ \A c \in Conf :
                LET e == Written(<<"conf">>, c)
                IN  e \in Eeprom /\ e.conf = c /\ e.cams = ee.cams /\ e.progs = ee.progs
           /\ \A i \in Slots, v \in Camera :
                LET e == Written(<<"cams", i>>, v)
                IN  /\ e \in Eeprom /\ e.conf = ee.conf /\ e.progs = ee.progs
                    /\ e.cams[i] = v /\ \A j \in Slots : j # i => e.cams[j] = ee.cams[j]
           /\ \A i \in 0 .. MaxStored, p \in Program :
                LET e == Written(<<"progs", i>>, p)
                IN  /\ e \in Eeprom /\ e.conf = ee.conf /\ e.cams = ee.cams
                    /\ e.progs[i] = p
                    /\ \A j \in 0 .. MaxStored : j # i => e.progs[j] = ee.progs[j]
<1>1. ASSUME NEW c \in Conf, NEW e, e = Written(<<"conf">>, c)
      PROVE  e \in Eeprom /\ e.conf = c /\ e.cams = ee.cams /\ e.progs = ee.progs
  <2>1. e = [ee EXCEPT !.conf = c]
    BY <1>1 DEF Written
  <2> QED
    BY <2>1 DEF Eeprom
<1>2. ASSUME NEW i \in Slots, NEW v \in Camera, NEW e, e = Written(<<"cams", i>>, v)
      PROVE  /\ e \in Eeprom /\ e.conf = ee.conf /\ e.progs = ee.progs
             /\ e.cams[i] = v /\ \A j \in Slots : j # i => e.cams[j] = ee.cams[j]
  <2>1. e = [ee EXCEPT !.cams[i] = v]
    BY <1>2 DEF Written
  <2> QED
    BY <2>1 DEF Eeprom
<1>3. ASSUME NEW i \in 0 .. MaxStored, NEW p \in Program, NEW e, e = Written(<<"progs", i>>, p)
      PROVE  /\ e \in Eeprom /\ e.conf = ee.conf /\ e.cams = ee.cams
             /\ e.progs[i] = p
             /\ \A j \in 0 .. MaxStored : j # i => e.progs[j] = ee.progs[j]
  <2>1. e = [ee EXCEPT !.progs[i] = p]
    BY <1>3 DEF Written
  <2> QED
    BY <2>1 DEF Eeprom
<1> QED
  BY <1>1, <1>2, <1>3

\* One step done: how the script's parts of the invariant are left.
LEMMA RestFacts ==
    ASSUME todo \in Seq(Steps), todo # <<>>, Rest
    PROVE  /\ todo[1] \in Steps /\ Head(todo) = todo[1] /\ todo' \in Seq(Steps)
           /\ Len(todo) \in Nat /\ Len(todo') = Len(todo) - 1 /\ 1 \in 1 .. Len(todo)
           /\ \A k \in 1 .. Len(todo') : k + 1 \in 1 .. Len(todo) /\ todo'[k] = todo[k + 1]
           /\ \A x : Has(todo, x) <=> (todo[1] = x \/ Has(todo', x))
           /\ Hops(todo) <=> (todo[1][1] = "index" \/ Hops(todo'))
           /\ \A k \in 1 .. Len(todo') : LoadsAfter(todo, k + 1) => LoadsAfter(todo', k)
           /\ LoadsAfter(todo, 1) => Has(todo', <<"load">>)
           /\ \A k \in 1 .. Len(todo') + 1 : \A record :
                 Before(todo, k + 1, record) => Puts(todo[1], record) \/ Before(todo', k, record)
<1>1. todo' = Tail(todo)
  BY DEF Rest
<1>2. /\ Len(todo) \in Nat \ {0} /\ Head(todo) = todo[1] /\ todo[1] \in Steps
      /\ todo' \in Seq(Steps) /\ Len(todo') = Len(todo) - 1
      /\ \A k \in 1 .. Len(todo') : k + 1 \in 1 .. Len(todo) /\ todo'[k] = todo[k + 1]
      /\ 1 \in 1 .. Len(todo)
  BY <1>1, Shift
<1>3. /\ \A x : Has(todo, x) <=> (todo[1] = x \/ Has(todo', x))
      /\ Hops(todo) <=> (todo[1][1] = "index" \/ Hops(todo'))
      /\ \A k \in 1 .. Len(todo') : LoadsAfter(todo, k + 1) => LoadsAfter(todo', k)
      /\ LoadsAfter(todo, 1) => Has(todo', <<"load">>)
      /\ \A k \in 1 .. Len(todo') + 1 : \A record :
            Before(todo, k + 1, record) => Puts(todo[1], record) \/ Before(todo', k, record)
  BY <1>1, ShiftHas
<1> QED
  BY <1>2, <1>3

\* A camera's record with a serial number comes first or not at all.
LEMMA RestCamWrites ==
    ASSUME todo \in Seq(Steps), todo # <<>>, Rest, CamWrites, Boots
    PROVE  CamWrites'
<1> SUFFICES ASSUME NEW k \in 1 .. Len(todo'), NEW i \in Slots, Puts(todo'[k], <<"cams", i>>)
             PROVE  /\ todo'[k][3].serial = ""
                    /\ Has(todo', <<"wiped">>) \/ Has(todo', <<"main">>)
  BY DEF CamWrites, Puts
<1>1. k + 1 \in 1 .. Len(todo) /\ todo'[k] = todo[k + 1] /\ k + 1 # 1 /\ Len(todo) # 1
      /\ 1 \in 1 .. Len(todo)
  BY RestFacts
<1>2. todo[k + 1][3].serial = "" /\ (Has(todo, <<"wiped">>) \/ Has(todo, <<"main">>))
  BY <1>1 DEF CamWrites
<1>3. todo[1] # <<"wiped">> /\ todo[1] # <<"main">>
  BY <1>1 DEF Boots
<1> QED
  BY <1>1, <1>2, <1>3, RestFacts

\* Settings that are saved are still loaded anew.
LEMMA RestConfSteps ==
    ASSUME todo \in Seq(Steps), todo # <<>>, Rest, ConfSteps, todo[1][1] # "index",
           index' = index, ee'.conf.cam.val = ee.conf.cam.val \/ index = 0,
           Has(todo, <<"load">>) \/ conf'.cam.serial = conf.cam.serial
    PROVE  ConfSteps'
<1> DEFINE r == todo'
           Kept(k, c) ==
              /\ c.cam.serial \notin Serials
              /\ \/ LoadsAfter(r, k)
                 \/ ~Has(r, <<"load">>) /\ index' = 0 /\ c.cam.serial = conf'.cam.serial
<1>1. ASSUME NEW k \in 1 .. Len(r), NEW c, Keeps(k + 1, c)
      PROVE  Kept(k, c)
  <2>1. c.cam.serial \notin Serials
    BY <1>1 DEF Keeps
  <2>2. CASE LoadsAfter(todo, k + 1)
    <3>1. LoadsAfter(r, k)
      BY <2>2, RestFacts
    <3> QED
      BY <2>1, <3>1
  <2>3. CASE ~Has(todo, <<"load">>) /\ index = 0 /\ c.cam.serial = conf.cam.serial
    <3>1. ~Has(r, <<"load">>)
      BY <2>3, RestFacts
    <3> QED
      BY <2>1, <2>3, <3>1
  <2> QED
    BY <1>1, <2>2, <2>3 DEF Keeps
<1> HIDE DEF Kept
<1>2. ASSUME NEW k \in 1 .. Len(r), NEW x, x = r[k]
      PROVE  /\ x[1] = "conf" => Kept(k, x[2])
             /\ Puts(x, <<"conf">>) =>
                  Kept(k, x[3]) /\ (index' = 0 \/ x[3].cam.val = ee'.conf.cam.val)
             /\ \A i \in Slots : Puts(x, <<"cams", i>>) => LoadsAfter(r, k)
  <2>1. k + 1 \in 1 .. Len(todo) /\ x = todo[k + 1]
    BY <1>2, RestFacts
  <2>2. /\ x[1] = "conf" => Keeps(k + 1, x[2])
        /\ Puts(x, <<"conf">>) =>
             Keeps(k + 1, x[3]) /\ (index = 0 \/ x[3].cam.val = ee.conf.cam.val)
        /\ \A i \in Slots : Puts(x, <<"cams", i>>) => LoadsAfter(todo, k + 1)
    BY <2>1 DEF ConfSteps
  <2>3. LoadsAfter(todo, k + 1) => LoadsAfter(r, k)
    BY RestFacts
  <2> QED
    BY <1>1, <2>2, <2>3
<1>3. ASSUME NEW k \in 1 .. Len(r)
      PROVE  /\ r[k][1] = "conf" => Kept(k, r[k][2])
             /\ Puts(r[k], <<"conf">>) =>
                  Kept(k, r[k][3]) /\ (index' = 0 \/ r[k][3].cam.val = ee'.conf.cam.val)
             /\ \A i \in Slots : Puts(r[k], <<"cams", i>>) => LoadsAfter(r, k)
  BY <1>2
<1> QED
  BY <1>3 DEF ConfSteps, Puts, Keeps, Kept, LoadsAfter, Has

\* The order of a start.
LEMMA RestBoots ==
    ASSUME todo \in Seq(Steps), todo # <<>>, Rest, Boots, todo[1][1] # "init",
           Has(todo, <<"main">>) => index' = index /\ seen' = seen,
           Has(todo, <<"init">>) /\ todo[1] = <<"load">> => conf' = ee'.conf
    PROVE  Boots'
<1> DEFINE r == todo'
<1>1. /\ Len(todo) \in Nat /\ Len(r) = Len(todo) - 1
      /\ \A k \in 1 .. Len(r) : k + 1 \in 1 .. Len(todo) /\ r[k] = todo[k + 1]
      /\ \A x : Has(r, x) => Has(todo, x)
      /\ Hops(r) => Hops(todo)
      /\ \A x : Has(todo, x) => todo[1] = x \/ Has(r, x)
  BY RestFacts
<1> HIDE DEF r
<1>2. \A k \in 1 .. Len(r) : r[k] \in {<<"main">>, <<"wiped">>} => k = Len(r)
  <2>1. \A k \in 1 .. Len(todo) : todo[k] \in {<<"main">>, <<"wiped">>} => k = Len(todo)
    BY DEF Boots
  <2> QED
    BY <1>1, <2>1
<1>3. ASSUME NEW k \in 1 .. Len(r), r[k] = <<"init">>
      PROVE  /\ k = Len(r) - 1 /\ r[Len(r)] = <<"main">>
             /\ IF k = 1 THEN conf' = ee'.conf ELSE r[k - 1] = <<"load">>
  <2>1. k + 1 \in 1 .. Len(todo) /\ todo[k + 1] = <<"init">>
    BY <1>1, <1>3
  <2>0. \A n \in 1 .. Len(todo) :
           todo[n] = <<"init">> =>
             /\ n = Len(todo) - 1 /\ todo[Len(todo)] = <<"main">>
             /\ n # 1 => todo[n - 1] = <<"load">>
    BY DEF Boots
  <2>2. /\ k + 1 = Len(todo) - 1 /\ todo[Len(todo)] = <<"main">>
        /\ todo[k] = <<"load">> /\ Has(todo, <<"init">>)
    <3>1. k + 1 # 1 /\ (k + 1) - 1 = k
      BY <1>1
    <3>2. todo[(k + 1) - 1] = <<"load">>
      BY <2>0, <2>1, <3>1
    <3>3. Has(todo, <<"init">>)
      BY <2>1 DEF Has
    <3> QED
      BY <2>0, <2>1, <3>1, <3>2, <3>3
  <2>3. k = Len(r) - 1 /\ Len(r) + 1 = Len(todo) /\ Len(r) \in 1 .. Len(r)
    BY <1>1, <2>2
  <2>4. r[Len(r)] = <<"main">>
    BY <1>1, <2>2, <2>3
  <2>5. CASE k = 1
    <3>1. conf' = ee'.conf
      BY <2>2, <2>5
    <3> QED
      BY <2>3, <2>4, <2>5, <3>1
  <2>6. CASE k # 1
    <3>1. k - 1 \in 1 .. Len(r) /\ (k - 1) + 1 = k
      BY <1>1, <2>6
    <3>2. r[k - 1] = todo[k]
      BY <1>1, <3>1
    <3> QED
      BY <2>2, <2>3, <2>4, <2>6, <3>2
  <2> QED
    BY <2>3, <2>4, <2>5, <2>6
<1>4. Has(r, <<"init">>) => \A k \in 1 .. Len(r) : Starting(r[k])
  BY <1>1 DEF Boots
<1>5. Has(r, <<"restore">>) => Has(r, <<"init">>)
  <2>1. todo[1] # <<"init">>
    OBVIOUS
  <2> QED
    BY <1>1, <2>1 DEF Boots
<1>6. Has(r, <<"main">>) => index' = 0 /\ seen' = "none" /\ ~Hops(r)
  BY <1>1 DEF Boots
<1> QED
  BY <1>2, <1>3, <1>4, <1>5, <1>6 DEF Boots, r, Starting, Puts

\* A change of the index is left only when the new camera's record has been written.
LEMMA RestHop ==
    ASSUME todo \in Seq(Steps), todo # <<>>, Rest, Hop, Hops(todo')
    PROVE  \E i \in Slots, v \in Camera :
              /\ todo[1] = WriteCam(i, v) /\ v.serial = seen /\ seen \in Serials
              /\ todo' = <<<<"index", i>>, <<"load">>>>
<1>1. Hops(todo) /\ todo' = Tail(todo)
  BY RestFacts DEF Rest
<1>2. PICK i \in 0 .. MaxCameras :
         \/ todo = <<<<"index", i>>, <<"load">>>>
         \/ /\ i # 0 /\ seen \in Serials
            /\ \E v \in Camera :
                  v.serial = seen /\ todo = <<WriteCam(i, v), <<"index", i>>, <<"load">>>>
  BY <1>1 DEF Hop
<1>3. CASE todo = <<<<"index", i>>, <<"load">>>>
  <2>1. Tail(todo) = <<<<"load">>>>
    BY <1>3
  <2>2. ~Hops(<<<<"load">>>>)
    BY DEF Hops
  <2> QED
    BY <1>1, <2>1, <2>2
<1>4. CASE /\ i # 0 /\ seen \in Serials
           /\ \E v \in Camera :
                 v.serial = seen /\ todo = <<WriteCam(i, v), <<"index", i>>, <<"load">>>>
  <2>1. PICK v \in Camera : v.serial = seen /\ todo = <<WriteCam(i, v), <<"index", i>>, <<"load">>>>
    BY <1>4
  <2>2. todo[1] = WriteCam(i, v) /\ Tail(todo) = <<<<"index", i>>, <<"load">>>>
    BY <2>1
  <2>3. i \in Slots
    BY <1>4, StoredAssumption DEF Slots
  <2> QED
    BY <1>1, <1>4, <2>1, <2>2, <2>3
<1> QED
  BY <1>2, <1>3, <1>4

\* What was whole later is whole one step sooner, if the step wrote what it should.
LEMMA RestWholes ==
    ASSUME todo \in Seq(Steps), todo # <<>>, Rest, Wholes,
           \A i \in Slots : CamClean(ee.cams[i]) \/ Puts(todo[1], <<"cams", i>>)
                              => CamClean(ee'.cams[i]),
           \A j \in 0 .. MaxStored : ProgClean(j, ee.progs[j]) \/ Puts(todo[1], <<"progs", j>>)
                              => ProgClean(j, ee'.progs[j]),
           ConfClean(ee.conf) \/ Puts(todo[1], <<"conf">>) => ConfClean(ee'.conf)
    PROVE  Wholes'
<1> DEFINE r == todo'
<1>1. /\ Len(todo) \in Nat /\ Len(r) = Len(todo) - 1 /\ 1 \in 1 .. Len(todo)
      /\ \A k \in 1 .. Len(r) : k + 1 \in 1 .. Len(todo) /\ r[k] = todo[k + 1]
      /\ \A k \in 1 .. Len(r) + 1 : \A record :
            Before(todo, k + 1, record) => Puts(todo[1], record) \/ Before(r, k, record)
  BY RestFacts
<1> HIDE DEF r
<1> DEFINE W(k) ==
              /\ \A i \in Slots : CamClean(ee'.cams[i]) \/ Before(r, k, <<"cams", i>>)
              /\ \A j \in 0 .. MaxStored :
                    ProgClean(j, ee'.progs[j]) \/ Before(r, k, <<"progs", j>>)
           C(k) == ConfClean(ee'.conf) \/ Before(r, k, <<"conf">>)
<1>2. ASSUME NEW k \in 1 .. Len(r) + 1, Whole(k + 1)
      PROVE  W(k)
  BY <1>1, <1>2 DEF Whole
<1>3. ASSUME NEW k \in 1 .. Len(r) + 1, ConfWhole(k + 1)
      PROVE  C(k)
  BY <1>1, <1>3 DEF ConfWhole
<1> HIDE DEF W, C
<1>4. W(Len(r) + 1) /\ C(Len(r) + 1)
  <2>1. Len(r) + 1 \in 1 .. Len(r) + 1 /\ (Len(r) + 1) + 1 = Len(todo) + 1
    BY <1>1
  <2>2. Whole((Len(r) + 1) + 1) /\ ConfWhole((Len(r) + 1) + 1)
    BY <2>1 DEF Wholes
  <2> QED
    BY <1>2, <1>3, <2>1, <2>2
<1>5. ASSUME NEW k \in 1 .. Len(r)
      PROVE  /\ r[k] = <<"load">> => W(k) /\ C(k)
             /\ Puts(r[k], <<"conf">>) => W(k)
  <2>1. k + 1 \in 1 .. Len(todo) /\ r[k] = todo[k + 1] /\ k \in 1 .. Len(r) + 1
    BY <1>1
  <2>2. /\ r[k] = <<"load">> => Whole(k + 1) /\ ConfWhole(k + 1)
        /\ Puts(r[k], <<"conf">>) => Whole(k + 1)
    BY <2>1 DEF Wholes
  <2> QED
    BY <1>2, <1>3, <2>1, <2>2
<1> QED
  BY <1>4, <1>5 DEF Wholes, W, C, r, Puts, Whole, ConfWhole, CamClean, ProgClean, ConfClean,
                    Before

-----------------------------------------------------------------------------
(* The steps of a script keep the invariant.                               *)

\* A step that leaves the serial numbers of the slots and the index alone.
LEMMA RestSlots ==
    ASSUME StoreInv, todo # <<>>, Rest, todo[1][1] # "init", todo[1][1] # "index",
           \A i \in Slots, v \in Camera : todo[1] # WriteCam(i, v),
           index' = index, seen' = seen, hist'.mixed = hist.mixed,
           \A i \in Slots : ee'.cams[i].serial = ee.cams[i].serial,
           DefaultNameless', Matched',
           ee'.conf.cam.val = ee.conf.cam.val \/ index = 0,
           Has(todo, <<"load">>) \/ conf'.cam.serial = conf.cam.serial,
           Has(todo, <<"init">>) /\ todo[1] = <<"load">> => conf' = ee'.conf,
           hist'.reset = IF todo[1] = <<"wiped">> THEN index > 0 ELSE hist.reset
    PROVE  SlotInv'
<1>1. todo \in Seq(Steps) /\ Once /\ CamWrites /\ ConfSteps /\ Boots /\ Hop /\ InUse /\ TypeOK
  BY DEF StoreInv, SlotInv
<1>2. ~Hops(todo') /\ ~Hops(todo)
  BY <1>1, RestHop, RestFacts
<1>3. Once'
  BY <1>1 DEF Once
<1>4. CamWrites'
  BY <1>1, RestCamWrites
<1>5. ConfSteps'
  BY <1>1, RestConfSteps
<1>6. Boots'
  BY <1>1, RestBoots
<1>7. Hop'
  BY <1>2 DEF Hop, Hops
<1>8. InUse'
  <2>1. /\ seen = "none" => index = 0
        /\ seen \in Serials => index > 0
        /\ index > 0 /\ ee.cams[index].serial \in Serials
              => seen = ee.cams[index].serial \/ hist.mixed
        /\ seen \in Serials /\ ~hist.reset /\ ~Has(todo, <<"wiped">>)
              => ee.cams[index].serial = seen
    BY <1>1, <1>2 DEF InUse
  <2>2. index > 0 => ee'.cams[index].serial = ee.cams[index].serial
    BY <1>1, TypeFacts
  <2>3. Has(todo, <<"wiped">>) => todo[1] = <<"wiped">> \/ Has(todo', <<"wiped">>)
    BY <1>1, RestFacts
  <2>4. seen \in Serials /\ ~hist'.reset /\ ~Has(todo', <<"wiped">>)
              => ee'.cams[index].serial = seen
    <3> SUFFICES ASSUME seen \in Serials, ~hist'.reset, ~Has(todo', <<"wiped">>)
                 PROVE  ee'.cams[index].serial = seen
      OBVIOUS
    <3>1. todo[1] # <<"wiped">> /\ hist'.reset = hist.reset
      BY <2>1
    <3> QED
      BY <2>1, <2>2, <2>3, <3>1
  <2>5. index > 0 /\ ee'.cams[index].serial \in Serials
              => seen = ee'.cams[index].serial \/ hist'.mixed
    BY <2>1, <2>2
  <2> QED
    BY <2>1, <2>4, <2>5 DEF InUse, Has
<1> QED
  BY <1>3, <1>4, <1>5, <1>6, <1>7, <1>8 DEF SlotInv

\* A step that writes what it should.
LEMMA RestClean ==
    ASSUME StoreInv, ~hist.junk, todo # <<>>, Rest, todo[1][1] # "init",
           hist'.tested = hist.tested,
           \A i \in Slots : CamClean(ee.cams[i]) \/ Puts(todo[1], <<"cams", i>>)
                              => CamClean(ee'.cams[i]),
           \A j \in 0 .. MaxStored : ProgClean(j, ee.progs[j]) \/ Puts(todo[1], <<"progs", j>>)
                              => ProgClean(j, ee'.progs[j]),
           ConfClean(ee.conf) \/ Puts(todo[1], <<"conf">>) => ConfClean(ee'.conf),
           Versions', \A i \in Slots : Honest(ee.cams[i])', Honest(conf.cam)', TimerClean',
           RamClean'
    PROVE  CleanInv'
<1>1. todo \in Seq(Steps) /\ CleanInv
  BY DEF StoreInv
<1>2. ASSUME NEW k \in 1 .. Len(todo'), NEW x, x = todo'[k]
      PROVE  /\ x[1] = "conf" => ConfClean(x[2])
             /\ Puts(x, <<"conf">>) => ConfClean(x[3])
             /\ \A i \in Slots : Puts(x, <<"cams", i>>) =>
                   CamClean(x[3]) /\ (x[3].serial = Followed /\ x[3].auto => hist'.tested)
             /\ \A j \in 0 .. MaxStored : Puts(x, <<"progs", j>>) => ProgClean(j, x[3])
  <2>1. k + 1 \in 1 .. Len(todo) /\ x = todo[k + 1]
    BY <1>1, <1>2, RestFacts
  <2>2. CleanStep(x)
    BY <1>1, <2>1 DEF CleanInv
  <2> QED
    BY <2>2 DEF CleanStep, Honest
<1>3. \A k \in 1 .. Len(todo') : CleanStep(todo[k])'
  BY <1>2 DEF CleanStep, Honest, Puts, ConfClean, CamClean, ProgClean
<1>4. ASSUME ~Has(todo, <<"init">>)'
      PROVE  Wholes'
  <2>1. ~Has(todo, <<"init">>)
    <3>1. todo[1] # <<"init">>
      OBVIOUS
    <3> QED
      BY <1>1, <1>4, <3>1, RestFacts DEF Has
  <2>2. Wholes
    BY <1>1, <2>1 DEF CleanInv
  <2> QED
    BY <1>1, <2>2, RestWholes
<1> QED
  BY <1>3, <1>4 DEF CleanInv

\* Steps that do not concern a part of the invariant leave it alone.
LEMMA RestMatched ==
    ASSUME todo \in Seq(Steps), todo # <<>>, Rest, Matched, todo[1] # <<"load">>,
           conf'.cam.serial = conf.cam.serial, Home'.serial = Home.serial
    PROVE  Matched'
  BY RestFacts DEF Matched, Has

\* The program in use.
LEMMA RestTimer ==
    ASSUME todo \in Seq(Steps), todo # <<>>, Rest, TimerClean, todo[1][1] # "current",
           todo[1][1] # "restore", todo[1][1] # "init", timer' = timer,
           Has(todo, <<"init">>) => ee'.conf = ee.conf
    PROVE  TimerClean'
<1>1. todo[1] # <<"current", "program">> /\ todo[1] # <<"restore">> /\ todo[1] # <<"init">>
  OBVIOUS
<1>2. /\ Has(todo, <<"current", "program">>) => Has(todo', <<"current", "program">>)
      /\ Has(todo, <<"restore">>) => Has(todo', <<"restore">>)
      /\ Has(todo, <<"init">>) => Has(todo', <<"init">>)
  BY <1>1, RestFacts
<1> QED
  BY <1>2 DEF TimerClean, Has

\* The settings in RAM.
LEMMA RestRam ==
    ASSUME todo \in Seq(Steps), todo # <<>>, Rest, RamClean, todo[1][1] # "conf",
           todo[1][1] # "load", todo[1][1] # "init", conf' = conf
    PROVE  RamClean'
<1>1. todo[1] # <<"load">> /\ todo[1] # <<"init">>
  OBVIOUS
<1>2. /\ Has(todo, <<"load">>) => Has(todo', <<"load">>)
      /\ Has(todo, <<"init">>) => Has(todo', <<"init">>)
  BY <1>1, RestFacts
<1>3. ASSUME NEW k \in 1 .. Len(todo), todo[k][1] = "conf"
      PROVE  \E n \in 1 .. Len(todo') : todo'[n][1] = "conf"
  <2>1. k # 1 /\ k - 1 \in 1 .. Len(todo') /\ (k - 1) + 1 = k
    BY <1>3, RestFacts
  <2>2. todo'[k - 1] = todo[k]
    BY <2>1, RestFacts
  <2> QED
    BY <1>3, <2>1, <2>2
<1> QED
  BY <1>2, <1>3 DEF RamClean, Has

\* The step at the head of the script.
LEMMA DoingFacts ==
    ASSUME StoreInv, NEW what, Doing(what)
    PROVE  /\ todo \in Seq(Steps) /\ todo # <<>> /\ todo[1] \in Steps
           /\ Head(todo) = todo[1] /\ todo[1][1] = what /\ 1 \in 1 .. Len(todo)
           /\ TypeOK /\ SlotInv /\ (~hist.junk => CleanInv)
           /\ ~hist.junk => CleanStep(todo[1])
<1>1. todo \in Seq(Steps) /\ todo # <<>> /\ Head(todo)[1] = what
  BY DEF StoreInv, Doing
<1>2. Head(todo) = todo[1] /\ todo[1] \in Steps /\ 1 \in 1 .. Len(todo)
  BY <1>1, Shift
<1> QED
  BY <1>1, <1>2 DEF StoreInv, CleanInv

\* SetProgram.
LEMMA SetProgramKeeps ==
    ASSUME StoreInv, SetProgram
    PROVE  StoreInv'
<1>1. /\ todo \in Seq(Steps) /\ todo # <<>> /\ todo[1][1] = "current" /\ TypeOK /\ SlotInv
      /\ ~hist.junk => CleanInv
      /\ todo[1] = <<"current", "program">> /\ timer' = "program"
      /\ Rest /\ UNCHANGED <<ee, conf, index, seen, hist>>
  <2>1. Doing("current") /\ Rest /\ timer' = Head(todo)[2] /\ UNCHANGED <<ee, conf, index, seen, hist>>
    BY DEF SetProgram
  <2> QED
    BY <2>1, DoingFacts, Kinds
<1>2. \A i \in Slots, v \in Camera : todo[1] # WriteCam(i, v)
  BY <1>1, Parts
<1>3. TypeOK' /\ todo' \in Seq(Steps)
  BY <1>1, RestFacts DEF TypeOK
<1>4. SlotInv'
  <2>1. Matched'
    BY <1>1, RestMatched DEF SlotInv, Home
  <2>2. DefaultNameless'
    BY <1>1 DEF SlotInv, DefaultNameless
  <2> QED
    BY <1>1, <1>2, <2>1, <2>2, RestSlots
<1>5. ASSUME ~hist'.junk
      PROVE  CleanInv'
  <2>1. CleanInv
    BY <1>1, <1>5
  <2>2. /\ Versions' /\ (\A i \in Slots : Honest(ee.cams[i])') /\ Honest(conf.cam)'
    BY <1>1, <2>1 DEF CleanInv, Versions, Honest
  <2>3. TimerClean'
    BY <1>1 DEF TimerClean
  <2>4. RamClean'
    BY <1>1, <2>1, RestRam DEF CleanInv
  <2>5. /\ \A i : ~Puts(todo[1], <<"cams", i>>) /\ ~Puts(todo[1], <<"progs", i>>)
        /\ ~Puts(todo[1], <<"conf">>)
    BY <1>1 DEF Puts
  <2> QED
    BY <1>1, <1>5, <2>2, <2>3, <2>4, <2>5, RestClean
<1> QED
  BY <1>3, <1>4, <1>5 DEF StoreInv

\* restoreCurrent.
LEMMA RestoreKeeps ==
    ASSUME StoreInv, restoreCurrent
    PROVE  StoreInv'
<1>1. /\ todo \in Seq(Steps) /\ todo # <<>> /\ todo[1][1] = "restore" /\ TypeOK /\ SlotInv
      /\ ~hist.junk => CleanInv
      /\ todo[1] = <<"restore">> /\ timer' = ee.progs[MaxStored].body
      /\ Rest /\ UNCHANGED <<ee, conf, index, seen, hist>>
  <2>1. /\ Doing("restore") /\ Rest /\ timer' = ee.progs[MaxStored].body
        /\ UNCHANGED <<ee, conf, index, seen, hist>>
    BY DEF restoreCurrent
  <2> QED
    BY <2>1, DoingFacts, Kinds
<1>2. \A i \in Slots, v \in Camera : todo[1] # WriteCam(i, v)
  BY <1>1, Parts
<1>20. MaxStored \in 0 .. MaxStored
  BY StoredAssumption
<1>3. TypeOK' /\ todo' \in Seq(Steps)
  <2>1. ee.progs[MaxStored].body \in {"program", "junk"}
    BY <1>1, <1>20, TypeFacts DEF Program
  <2> QED
    BY <1>1, <2>1, RestFacts DEF TypeOK
<1>4. SlotInv'
  <2>1. Matched'
    BY <1>1, RestMatched DEF SlotInv, Home
  <2>2. DefaultNameless'
    BY <1>1 DEF SlotInv, DefaultNameless
  <2> QED
    BY <1>1, <1>2, <2>1, <2>2, RestSlots
<1>5. ASSUME ~hist'.junk
      PROVE  CleanInv'
  <2>1. CleanInv
    BY <1>1, <1>5
  <2>2. /\ Versions' /\ (\A i \in Slots : Honest(ee.cams[i])') /\ Honest(conf.cam)'
    BY <1>1, <2>1 DEF CleanInv, Versions, Honest
  <2>3. TimerClean'
    <3>1. Has(todo, <<"init">>) /\ Has(todo', <<"init">>)
      <4>1. Has(todo, <<"restore">>)
        BY <1>1, RestFacts
      <4>2. Has(todo, <<"init">>)
        BY <1>1, <4>1 DEF SlotInv, Boots
      <4> QED
        BY <1>1, <4>2, RestFacts
    <3>2. ee.conf.pver => ee.progs[MaxStored].body = "program"
      BY <1>20, <2>1 DEF CleanInv, Versions, ProgClean
    <3> QED
      BY <1>1, <3>1, <3>2 DEF TimerClean, Has
  <2>4. RamClean'
    BY <1>1, <2>1, RestRam DEF CleanInv
  <2>5. /\ \A i : ~Puts(todo[1], <<"cams", i>>) /\ ~Puts(todo[1], <<"progs", i>>)
        /\ ~Puts(todo[1], <<"conf">>)
    BY <1>1 DEF Puts
  <2> QED
    BY <1>1, <1>5, <2>2, <2>3, <2>4, <2>5, RestClean
<1> QED
  BY <1>3, <1>4, <1>5 DEF StoreInv

\* Wiped.
LEMMA WipedKeeps ==
    ASSUME StoreInv, Wiped
    PROVE  StoreInv'
<1>1. /\ todo \in Seq(Steps) /\ todo # <<>> /\ todo[1][1] = "wiped" /\ TypeOK /\ SlotInv
      /\ ~hist.junk => CleanInv
      /\ todo[1] = <<"wiped">> /\ hist' = [hist EXCEPT !.wiped = TRUE, !.reset = index > 0]
      /\ Rest /\ UNCHANGED <<ee, conf, index, timer, seen>>
  <2>1. /\ Doing("wiped") /\ Rest /\ hist' = [hist EXCEPT !.wiped = TRUE, !.reset = index > 0]
        /\ UNCHANGED <<ee, conf, index, timer, seen>>
    BY DEF Wiped
  <2> QED
    BY <2>1, DoingFacts, Kinds
<1>2. \A i \in Slots, v \in Camera : todo[1] # WriteCam(i, v)
  BY <1>1, Parts
<1>20. /\ hist'.junk = hist.junk /\ hist'.mixed = hist.mixed /\ hist'.tested = hist.tested
       /\ hist'.reset = (index > 0)
       /\ hist' \in [junk : BOOLEAN, reset : BOOLEAN, mixed : BOOLEAN, wiped : BOOLEAN,
                     tested : BOOLEAN]
  <2>1. hist \in [junk : BOOLEAN, reset : BOOLEAN, mixed : BOOLEAN, wiped : BOOLEAN,
                  tested : BOOLEAN]
    BY <1>1 DEF TypeOK
  <2> DEFINE b == index > 0
  <2>2. b \in BOOLEAN /\ hist' = [hist EXCEPT !.wiped = TRUE, !.reset = b]
    BY <1>1
  <2> HIDE DEF b
  <2>3. /\ hist'.junk = hist.junk /\ hist'.mixed = hist.mixed /\ hist'.tested = hist.tested
        /\ hist'.reset = b
        /\ hist' \in [junk : BOOLEAN, reset : BOOLEAN, mixed : BOOLEAN, wiped : BOOLEAN,
                      tested : BOOLEAN]
    BY <2>1, <2>2
  <2> QED
    BY <2>3 DEF b
<1>3. TypeOK' /\ todo' \in Seq(Steps)
  BY <1>1, <1>20, RestFacts DEF TypeOK
<1>4. SlotInv'
  <2>1. Matched'
    BY <1>1, RestMatched DEF SlotInv, Home
  <2>2. DefaultNameless'
    BY <1>1 DEF SlotInv, DefaultNameless
  <2> QED
    BY <1>1, <1>2, <1>20, <2>1, <2>2, RestSlots
<1>5. ASSUME ~hist'.junk
      PROVE  CleanInv'
  <2>1. CleanInv /\ ~hist.junk
    BY <1>1, <1>5, <1>20
  <2>2. /\ Versions' /\ (\A i \in Slots : Honest(ee.cams[i])') /\ Honest(conf.cam)'
    BY <1>1, <1>20, <2>1 DEF CleanInv, Versions, Honest
  <2>3. TimerClean'
    BY <1>1, <2>1, RestTimer DEF CleanInv
  <2>4. RamClean'
    BY <1>1, <2>1, RestRam DEF CleanInv
  <2>5. /\ \A i : ~Puts(todo[1], <<"cams", i>>) /\ ~Puts(todo[1], <<"progs", i>>)
        /\ ~Puts(todo[1], <<"conf">>)
    BY <1>1 DEF Puts
  <2> QED
    BY <1>1, <1>20, <2>1, <2>2, <2>3, <2>4, <2>5, RestClean
<1> QED
  BY <1>3, <1>4, <1>5 DEF StoreInv

\* SetConf: what is not the default camera's own is loaded anew.
LEMMA SetConfKeeps ==
    ASSUME StoreInv, SetConf
    PROVE  StoreInv'
<1>1. /\ todo \in Seq(Steps) /\ todo # <<>> /\ todo[1][1] = "conf" /\ TypeOK /\ SlotInv
      /\ ~hist.junk => CleanInv /\ CleanStep(todo[1])
      /\ conf' = todo[1][2] /\ todo[1][2] \in Conf /\ 1 \in 1 .. Len(todo)
      /\ Rest /\ UNCHANGED <<ee, index, timer, seen, hist>>
  <2>1. Doing("conf") /\ Rest /\ conf' = Head(todo)[2] /\ UNCHANGED <<ee, index, timer, seen, hist>>
    BY DEF SetConf
  <2> QED
    BY <2>1, DoingFacts, Kinds
<1>2. \A i \in Slots, v \in Camera : todo[1] # WriteCam(i, v)
  BY <1>1, Parts
<1>3. TypeOK' /\ todo' \in Seq(Steps)
  BY <1>1, RestFacts DEF TypeOK
<1>4. SlotInv'
  <2>1. Keeps(1, conf')
    BY <1>1 DEF SlotInv, ConfSteps
  <2>2. Has(todo, <<"load">>) \/ conf'.cam.serial = conf.cam.serial
    BY <1>1, <2>1, RestFacts DEF Keeps
  <2>3. Matched'
    <3>1. CASE Has(todo, <<"load">>)
      <4>1. todo[1] # <<"load">>
        BY <1>1
      <4>2. Has(todo', <<"load">>)
        BY <1>1, <3>1, <4>1, RestFacts
      <4> QED
        BY <4>2 DEF Matched, Has
    <3>2. CASE ~Has(todo, <<"load">>)
      <4>1. conf'.cam.serial = conf.cam.serial
        BY <2>2, <3>2
      <4>2. Home' = Home
        BY <1>1 DEF Home
      <4> QED
        BY <1>1, <4>1, <4>2, RestMatched DEF SlotInv
    <3> QED
      BY <3>1, <3>2
  <2>4. DefaultNameless'
    BY <1>1 DEF SlotInv, DefaultNameless
  <2> QED
    BY <1>1, <1>2, <2>2, <2>3, <2>4, RestSlots
<1>5. ASSUME ~hist'.junk
      PROVE  CleanInv'
  <2>1. CleanInv /\ ConfClean(conf')
    BY <1>1, <1>5 DEF CleanStep
  <2>2. /\ Versions' /\ \A i \in Slots : Honest(ee.cams[i])'
    BY <1>1, <2>1 DEF CleanInv, Versions, Honest
  <2>3. Honest(conf.cam)' /\ RamClean'
    BY <2>1 DEF ConfClean, Honest, RamClean
  <2>4. TimerClean'
    BY <1>1, <2>1, RestTimer DEF CleanInv
  <2>5. /\ \A i : ~Puts(todo[1], <<"cams", i>>) /\ ~Puts(todo[1], <<"progs", i>>)
        /\ ~Puts(todo[1], <<"conf">>)
    BY <1>1 DEF Puts
  <2> QED
    BY <1>1, <1>5, <2>2, <2>3, <2>4, <2>5, RestClean
<1> QED
  BY <1>3, <1>4, <1>5 DEF StoreInv

\* settings_load.
LEMMA LoadKeeps ==
    ASSUME StoreInv, settings_load
    PROVE  StoreInv'
<1>1. /\ todo \in Seq(Steps) /\ todo # <<>> /\ todo[1][1] = "load" /\ TypeOK /\ SlotInv
      /\ ~hist.junk => CleanInv
      /\ todo[1] = <<"load">> /\ 1 \in 1 .. Len(todo)
      /\ conf' = IF index > 0 THEN [ee.conf EXCEPT !.cam = ee.cams[index]] ELSE ee.conf
      /\ Rest /\ UNCHANGED <<ee, index, timer, seen, hist>>
  <2>1. /\ Doing("load") /\ Rest
        /\ conf' = IF index > 0 THEN [ee.conf EXCEPT !.cam = ee.cams[index]] ELSE ee.conf
        /\ UNCHANGED <<ee, index, timer, seen, hist>>
    BY DEF settings_load
  <2>2. todo \in Seq(Steps) /\ todo # <<>> /\ todo[1][1] = "load" /\ TypeOK /\ SlotInv
        /\ (~hist.junk => CleanInv) /\ 1 \in 1 .. Len(todo) /\ todo[1] \in Steps
    BY <2>1, DoingFacts
  <2>3. todo[1] = <<"load">>
    BY <2>2, Kinds
  <2> QED
    BY <2>1, <2>2, <2>3
<1>2. \A i \in Slots, v \in Camera : todo[1] # WriteCam(i, v)
  BY <1>1, Parts
<1>20. /\ conf' \in Conf /\ conf'.cam = Home /\ conf'.sys = ee.conf.sys
       /\ Home' = Home /\ (index = 0 => conf' = ee'.conf)
  <2>1. ee.conf \in Conf /\ (index > 0 => ee.cams[index] \in Camera) /\ index \in 0 .. MaxCameras
    BY <1>1, TypeFacts
  <2>2. CASE index > 0
    <3>1. conf' = [ee.conf EXCEPT !.cam = ee.cams[index]] /\ Home = ee.cams[index] /\ Home' = Home
      BY <1>1, <2>2 DEF Home
    <3>2. conf' \in Conf /\ conf'.cam = ee.cams[index] /\ conf'.sys = ee.conf.sys
      BY <2>1, <2>2, <3>1 DEF Conf
    <3> QED
      BY <2>2, <3>1, <3>2
  <2>3. CASE ~(index > 0)
    BY <1>1, <2>1, <2>3 DEF Home
  <2> QED
    BY <2>2, <2>3
<1>3. TypeOK' /\ todo' \in Seq(Steps)
  BY <1>1, <1>20, RestFacts DEF TypeOK
<1>4. SlotInv'
  <2>1. Matched'
    BY <1>20 DEF Matched
  <2>2. DefaultNameless'
    BY <1>1 DEF SlotInv, DefaultNameless
  <2>3. Has(todo, <<"load">>)
    BY <1>1, RestFacts
  <2>4. Has(todo, <<"init">>) => index = 0
    <3>1. ASSUME NEW k \in 1 .. Len(todo), todo[k] = <<"init">>
          PROVE  Has(todo, <<"main">>)
      <4>1. k = Len(todo) - 1 /\ todo[Len(todo)] = <<"main">>
        BY <1>1, <3>1 DEF SlotInv, Boots
      <4>2. Len(todo) \in 1 .. Len(todo)
        BY <1>1
      <4> QED
        BY <4>1, <4>2 DEF Has
    <3>2. Has(todo, <<"main">>) => index = 0
      BY <1>1 DEF SlotInv, Boots
    <3> QED
      BY <3>1, <3>2 DEF Has
  <2> QED
    BY <1>1, <1>2, <1>20, <2>1, <2>2, <2>3, <2>4, RestSlots
<1>5. ASSUME ~hist'.junk
      PROVE  CleanInv'
  <2>1. CleanInv
    BY <1>1, <1>5
  <2>2. /\ Versions' /\ \A i \in Slots : Honest(ee.cams[i])'
    BY <1>1, <2>1 DEF CleanInv, Versions, Honest
  <2>3. Honest(conf.cam)'
    <3>1. CASE index > 0
      <4>1. conf'.cam = ee.cams[index] /\ index \in Slots
        BY <1>1, <1>20, <3>1, TypeFacts DEF Home
      <4> QED
        BY <1>1, <2>1, <4>1 DEF CleanInv, Honest
    <3>2. CASE ~(index > 0)
      <4>1. conf'.cam.serial \notin Serials
        BY <1>1, <1>20, <3>2 DEF Home, SlotInv, DefaultNameless
      <4> QED
        BY <4>1, SerialsAssumption DEF Honest
    <3> QED
      BY <3>1, <3>2
  <2>4. TimerClean'
    BY <1>1, <2>1, RestTimer DEF CleanInv
  <2>5. RamClean'
    <3>1. CASE Has(todo, <<"init">>)
      <4>1. Has(todo', <<"init">>)
        BY <1>1, <3>1, RestFacts
      <4> QED
        BY <4>1 DEF RamClean, Has
    <3>2. CASE ~Has(todo, <<"init">>)
      <4>1. Whole(1) /\ ConfWhole(1)
        BY <1>1, <2>1, <3>2 DEF CleanInv, Wholes
      <4>2. \A record : ~Before(todo, 1, record)
        BY DEF Before
      <4>3. ConfClean(ee.conf) /\ \A i \in Slots : CamClean(ee.cams[i])
        BY <4>1, <4>2 DEF Whole, ConfWhole
      <4>4. conf'.sys # "junk" /\ conf'.cam.val # "junk"
        BY <1>1, <1>20, <4>3, TypeFacts DEF Home, ConfClean, CamClean
      <4> QED
        BY <4>4 DEF RamClean
    <3> QED
      BY <3>1, <3>2
  <2>6. /\ \A i : ~Puts(todo[1], <<"cams", i>>) /\ ~Puts(todo[1], <<"progs", i>>)
        /\ ~Puts(todo[1], <<"conf">>)
    BY <1>1 DEF Puts
  <2> QED
    BY <1>1, <1>5, <2>2, <2>3, <2>4, <2>5, <2>6, RestClean
<1> QED
  BY <1>3, <1>4, <1>5 DEF StoreInv

\* The three kinds of WriteRecord.
LEMMA WriteIs ==
    ASSUME StoreInv, WriteRecord
    PROVE  /\ todo \in Seq(Steps) /\ todo # <<>> /\ todo[1][1] = "write" /\ TypeOK /\ SlotInv
           /\ ~hist.junk => CleanInv /\ CleanStep(todo[1])
           /\ 1 \in 1 .. Len(todo) /\ Rest /\ UNCHANGED <<conf, index, timer, seen, hist>>
           /\ \/ \E c \in Conf : todo[1] = WriteConf(c) /\ ee' = Written(<<"conf">>, c)
              \/ \E i \in Slots, v \in Camera :
                    todo[1] = WriteCam(i, v) /\ ee' = Written(<<"cams", i>>, v)
              \/ \E j \in 0 .. MaxStored, p \in Program :
                    todo[1] = WriteProg(j, p) /\ ee' = Written(<<"progs", j>>, p)
<1>1. /\ Doing("write") /\ Rest /\ ee' = Written(Head(todo)[2], Head(todo)[3])
      /\ UNCHANGED <<conf, index, timer, seen, hist>>
  BY DEF WriteRecord
<1>2. /\ todo \in Seq(Steps) /\ todo # <<>> /\ todo[1][1] = "write" /\ TypeOK /\ SlotInv
      /\ ~hist.junk => CleanInv /\ CleanStep(todo[1])
      /\ 1 \in 1 .. Len(todo) /\ todo[1] \in Steps /\ Head(todo) = todo[1]
  BY <1>1, DoingFacts
<1>3. ee' = Written(todo[1][2], todo[1][3])
  BY <1>1, <1>2
<1>4. \/ \E c \in Conf : todo[1] = WriteConf(c)
      \/ \E i \in Slots, v \in Camera : todo[1] = WriteCam(i, v)
      \/ \E j \in 0 .. MaxStored, p \in Program : todo[1] = WriteProg(j, p)
  BY <1>2, Kinds
<1>5. CASE \E c \in Conf : todo[1] = WriteConf(c)
  <2>1. PICK c \in Conf : todo[1] = WriteConf(c)
    BY <1>5
  <2>2. todo[1][2] = <<"conf">> /\ todo[1][3] = c
    BY <2>1, Parts
  <2>3. ee' = Written(<<"conf">>, c)
    BY <1>3, <2>2
  <2> QED
    BY <1>1, <1>2, <2>1, <2>3
<1>6. CASE \E i \in Slots, v \in Camera : todo[1] = WriteCam(i, v)
  <2>1. PICK i \in Slots, v \in Camera : todo[1] = WriteCam(i, v)
    BY <1>6
  <2>2. todo[1][2] = <<"cams", i>> /\ todo[1][3] = v
    BY <2>1, Parts
  <2>3. ee' = Written(<<"cams", i>>, v)
    BY <1>3, <2>2
  <2> QED
    BY <1>1, <1>2, <2>1, <2>3
<1>7. CASE \E j \in 0 .. MaxStored, p \in Program : todo[1] = WriteProg(j, p)
  <2>1. PICK j \in 0 .. MaxStored, p \in Program : todo[1] = WriteProg(j, p)
    BY <1>7
  <2>2. todo[1][2] = <<"progs", j>> /\ todo[1][3] = p
    BY <2>1, Parts
  <2>3. ee' = Written(<<"progs", j>>, p)
    BY <1>3, <2>2
  <2> QED
    BY <1>1, <1>2, <2>1, <2>3
<1> QED
  BY <1>4, <1>5, <1>6, <1>7

\* A program is written.
LEMMA WriteProgKeeps ==
    ASSUME StoreInv, WriteRecord, NEW j \in 0 .. MaxStored, NEW p \in Program,
           todo[1] = WriteProg(j, p), ee' = Written(<<"progs", j>>, p)
    PROVE  StoreInv'
<1>1. /\ todo \in Seq(Steps) /\ todo # <<>> /\ todo[1][1] = "write" /\ TypeOK /\ SlotInv
      /\ ~hist.junk => CleanInv /\ CleanStep(todo[1])
      /\ 1 \in 1 .. Len(todo) /\ Rest /\ UNCHANGED <<conf, index, timer, seen, hist>>
  BY WriteIs
<1>2. \A i \in Slots, v \in Camera : todo[1] # WriteCam(i, v)
  BY PutsWhat
<1>20. /\ ee' \in Eeprom /\ ee'.conf = ee.conf /\ ee'.cams = ee.cams /\ ee'.progs[j] = p
       /\ \A i \in 0 .. MaxStored : i # j => ee'.progs[i] = ee.progs[i]
  BY <1>1, WrittenFacts, TypeFacts
<1>3. TypeOK' /\ todo' \in Seq(Steps)
  BY <1>1, <1>20, RestFacts DEF TypeOK
<1>4. SlotInv'
  <2>1. Matched'
    BY <1>1, <1>20, RestMatched DEF SlotInv, Home
  <2>2. DefaultNameless'
    BY <1>1, <1>20 DEF SlotInv, DefaultNameless
  <2> QED
    BY <1>1, <1>2, <1>20, <2>1, <2>2, RestSlots
<1>5. ASSUME ~hist'.junk
      PROVE  CleanInv'
  <2>1. CleanInv /\ ProgClean(j, p)
    <3>1. Puts(todo[1], <<"progs", j>>) /\ todo[1][3] = p
      BY PutsWhat, Parts
    <3> QED
      BY <1>1, <1>5, <3>1 DEF CleanStep
  <2>2. /\ \A i \in 0 .. MaxStored : ProgClean(i, ee.progs[i]) => ProgClean(i, ee'.progs[i])
        /\ ProgClean(j, ee'.progs[j])
    BY <1>20, <2>1
  <2>3. /\ Versions' /\ (\A i \in Slots : Honest(ee.cams[i])') /\ Honest(conf.cam)'
    BY <1>1, <1>20, <2>1, <2>2 DEF CleanInv, Versions, Honest, ProgClean, ConfClean, CamClean
  <2>4. TimerClean'
    BY <1>1, <1>20, <2>1, RestTimer DEF CleanInv
  <2>5. RamClean'
    BY <1>1, <2>1, RestRam DEF CleanInv
  <2>6. /\ \A i : ~Puts(todo[1], <<"cams", i>>)
        /\ \A i : Puts(todo[1], <<"progs", i>>) <=> i = j
        /\ ~Puts(todo[1], <<"conf">>)
    BY PutsWhat
  <2> QED
    BY <1>1, <1>5, <1>20, <2>2, <2>3, <2>4, <2>5, <2>6, RestClean
<1> QED
  BY <1>3, <1>4, <1>5 DEF StoreInv

\* The settings are written: all else is whole by then.
LEMMA WriteConfKeeps ==
    ASSUME StoreInv, WriteRecord, NEW c \in Conf,
           todo[1] = WriteConf(c), ee' = Written(<<"conf">>, c)
    PROVE  StoreInv'
<1>1. /\ todo \in Seq(Steps) /\ todo # <<>> /\ todo[1][1] = "write" /\ TypeOK /\ SlotInv
      /\ ~hist.junk => CleanInv /\ CleanStep(todo[1])
      /\ 1 \in 1 .. Len(todo) /\ Rest /\ UNCHANGED <<conf, index, timer, seen, hist>>
  BY WriteIs
<1>2. /\ \A i \in Slots, v \in Camera : todo[1] # WriteCam(i, v)
      /\ \A i : ~Puts(todo[1], <<"cams", i>>)
      /\ \A i : ~Puts(todo[1], <<"progs", i>>)
      /\ Puts(todo[1], <<"conf">>) /\ todo[1][3] = c
  BY PutsWhat, Parts
<1>20. ee' \in Eeprom /\ ee'.conf = c /\ ee'.cams = ee.cams /\ ee'.progs = ee.progs
  BY <1>1, WrittenFacts, TypeFacts
<1>21. ~Has(todo, <<"init">>)
  <2>1. ~Starting(todo[1])
    BY <1>1, <1>2 DEF Starting
  <2> QED
    BY <1>1, <2>1 DEF SlotInv, Boots
<1>3. TypeOK' /\ todo' \in Seq(Steps)
  BY <1>1, <1>20, RestFacts DEF TypeOK
<1>4. SlotInv'
  <2>1. Keeps(1, c) /\ (index = 0 \/ c.cam.val = ee.conf.cam.val)
    BY <1>1, <1>2 DEF SlotInv, ConfSteps
  <2>2. DefaultNameless'
    BY <1>20, <2>1 DEF Keeps, DefaultNameless
  <2>3. Matched'
    <3>1. CASE Has(todo, <<"load">>)
      <4>1. todo[1] # <<"load">>
        BY <1>1
      <4>2. Has(todo', <<"load">>)
        BY <1>1, <3>1, <4>1, RestFacts
      <4> QED
        BY <4>2 DEF Matched, Has
    <3>2. CASE ~Has(todo, <<"load">>)
      <4>1. index = 0 /\ c.cam.serial = conf.cam.serial
        BY <1>1, <2>1, <3>2, RestFacts DEF Keeps
      <4>2. conf'.cam.serial = Home'.serial
        BY <1>1, <1>20, <4>1 DEF Home
      <4> QED
        BY <4>2 DEF Matched
    <3> QED
      BY <3>1, <3>2
  <2> QED
    BY <1>1, <1>2, <1>20, <1>21, <2>1, <2>2, <2>3, RestSlots
<1>5. ASSUME ~hist'.junk
      PROVE  CleanInv'
  <2>1. CleanInv /\ ConfClean(c)
    BY <1>1, <1>2, <1>5 DEF CleanStep
  <2>2. /\ \A i \in Slots : CamClean(ee.cams[i])
        /\ \A j \in 0 .. MaxStored : ProgClean(j, ee.progs[j])
    <3>1. Whole(1)
      BY <1>1, <1>2, <1>21, <2>1 DEF CleanInv, Wholes
    <3>2. \A record : ~Before(todo, 1, record)
      BY DEF Before
    <3> QED
      BY <3>1, <3>2 DEF Whole
  <2>3. Versions' /\ (\A i \in Slots : Honest(ee.cams[i])') /\ Honest(conf.cam)'
    BY <1>1, <1>20, <2>1, <2>2 DEF CleanInv, Versions, Honest, ProgClean, ConfClean, CamClean
  <2>4. TimerClean'
    BY <1>1, <1>21, <2>1, RestTimer DEF CleanInv
  <2>5. RamClean'
    BY <1>1, <2>1, RestRam DEF CleanInv
  <2> QED
    BY <1>1, <1>2, <1>5, <1>20, <2>1, <2>3, <2>4, <2>5, RestClean
<1> QED
  BY <1>3, <1>4, <1>5 DEF StoreInv

\* A camera's record is written in its slot: the serial numbers stay distinct.
LEMMA WriteCamOnce ==
    ASSUME TypeOK, SlotInv, NEW i \in Slots, NEW v \in Camera, NEW e \in Eeprom,
           v.serial = "" \/ Fits(i, v),
           e.cams[i] = v, \A j \in Slots : j # i => e.cams[j] = ee.cams[j]
    PROVE  \A j, k \in Slots :
              e.cams[j].serial = e.cams[k].serial /\ e.cams[j].serial \in Serials => j = k
<1>1. ASSUME NEW j \in Slots, j # i, e.cams[j].serial = v.serial, v.serial \in Serials
      PROVE  FALSE
  BY <1>1, SerialsAssumption DEF Fits
<1> QED
  BY <1>1 DEF SlotInv, Once

\* A camera's record is written.
LEMMA WriteCamSlots ==
    ASSUME StoreInv, WriteRecord, NEW i \in Slots, NEW v \in Camera,
           todo[1] = WriteCam(i, v), ee' = Written(<<"cams", i>>, v)
    PROVE  SlotInv'
<1>1. /\ todo \in Seq(Steps) /\ todo # <<>> /\ todo[1][1] = "write" /\ TypeOK /\ SlotInv
      /\ 1 \in 1 .. Len(todo) /\ Rest /\ UNCHANGED <<conf, index, timer, seen, hist>>
  BY WriteIs
<1>2. Once /\ CamWrites /\ ConfSteps /\ DefaultNameless /\ Boots /\ Hop /\ InUse
  BY <1>1 DEF SlotInv
<1>3. /\ ee' \in Eeprom /\ ee'.conf = ee.conf /\ ee'.cams[i] = v
      /\ \A j \in Slots : j # i => ee'.cams[j] = ee.cams[j]
  BY <1>1, WrittenFacts, TypeFacts
<1>4. /\ Puts(todo[1], <<"cams", i>>) /\ todo[1][3] = v
      /\ todo[1] # <<"load">> /\ todo[1] # <<"wiped">> /\ todo[1] # <<"init">>
      /\ todo[1] # <<"main">> /\ todo[1][1] # "index"
  BY <1>1, PutsWhat, Parts
<1>5. \/ v.serial = "" /\ (Has(todo, <<"wiped">>) \/ Has(todo, <<"main">>))
      \/ Fits(i, v)
  BY <1>1, <1>2, <1>4 DEF CamWrites
<1>6. Once'
  BY <1>1, <1>3, <1>5, WriteCamOnce, ZenonT(60) DEF Once
<1>7. CamWrites'
  BY <1>1, <1>2, RestCamWrites
<1>8. LoadsAfter(todo, 1)
  BY <1>1, <1>2, <1>4 DEF ConfSteps
<1>9. Has(todo, <<"load">>) /\ Has(todo', <<"load">>)
  BY <1>1, <1>8, RestFacts
<1>10. ConfSteps'
  BY <1>1, <1>2, <1>3, <1>9, RestConfSteps
<1>11. DefaultNameless'
  BY <1>2, <1>3 DEF DefaultNameless
<1>12. Matched'
  BY <1>9 DEF Matched, Has
<1>13. Boots'
  BY <1>1, <1>2, <1>4, RestBoots
<1>14. Hop'
  <2>1. CASE Hops(todo')
    <3>1. PICK n \in Slots, w \in Camera :
             /\ todo[1] = WriteCam(n, w) /\ w.serial = seen /\ seen \in Serials
             /\ todo' = <<<<"index", n>>, <<"load">>>>
      BY <1>1, <1>2, <2>1, RestHop
    <3>2. n = i /\ w = v
      BY <1>4, <3>1, PutsWhat, Parts
    <3>3. n \in 0 .. MaxCameras /\ n # 0
      BY StoredAssumption DEF Slots
    <3>4. todo' = <<<<"index", n>>, <<"load">>>> /\ seen' \in Serials /\ ee'.cams[n].serial = seen'
      BY <1>1, <1>3, <3>1, <3>2
    <3> QED
      BY <3>3, <3>4 DEF Hop
  <2>2. CASE ~Hops(todo')
    BY <2>2 DEF Hop, Hops
  <2> QED
    BY <2>1, <2>2
<1>15. InUse'
  <2> SUFFICES ASSUME ~Hops(todo')
               PROVE  /\ seen = "none" => index = 0
                      /\ seen \in Serials => index > 0
                      /\ index > 0 /\ ee'.cams[index].serial \in Serials
                            => seen = ee'.cams[index].serial \/ hist.mixed
                      /\ seen \in Serials /\ ~hist.reset /\ ~Has(todo', <<"wiped">>)
                            => ee'.cams[index].serial = seen
    BY <1>1 DEF InUse, Hops, Has
  <2>1. ~Hops(todo)
    BY <1>1, <1>4, RestFacts
  <2>2. /\ seen = "none" => index = 0
        /\ seen \in Serials => index > 0
        /\ index > 0 /\ ee.cams[index].serial \in Serials
              => seen = ee.cams[index].serial \/ hist.mixed
        /\ seen \in Serials /\ ~hist.reset /\ ~Has(todo, <<"wiped">>)
              => ee.cams[index].serial = seen
    BY <1>2, <2>1 DEF InUse
  <2>3. Has(todo, <<"wiped">>) <=> Has(todo', <<"wiped">>)
    BY <1>1, <1>4, RestFacts
  <2>4. Has(todo, <<"main">>) => seen = "none"
    BY <1>2 DEF Boots
  <2>5. index > 0 => index \in Slots
    BY <1>1, TypeFacts
  <2>6. CASE index # i
    <3>1. index > 0 => ee'.cams[index] = ee.cams[index]
      BY <1>3, <2>5, <2>6
    <3> QED
      BY <2>2, <2>3, <3>1
  <2>7. CASE index = i /\ v.serial = "" /\ (Has(todo, <<"wiped">>) \/ Has(todo, <<"main">>))
    BY <1>3, <2>2, <2>3, <2>4, <2>7, SerialsAssumption
  <2>8. CASE index = i /\ Fits(i, v) /\ ee.cams[i].serial = v.serial
    <3>1. ee'.cams[index].serial = ee.cams[index].serial
      BY <1>3, <2>8
    <3> QED
      BY <2>2, <2>3, <3>1
  <2>9. CASE index = i /\ Fits(i, v) /\ ee.cams[i].serial # v.serial
    <3>1. Hops(todo)
      BY <2>9 DEF Fits
    <3> QED
      BY <2>1, <3>1
  <2> QED
    BY <1>5, <2>6, <2>7, <2>8, <2>9
<1> QED
  BY <1>6, <1>7, <1>10, <1>11, <1>12, <1>13, <1>14, <1>15 DEF SlotInv

\* The whole invariant, when a camera's record is written.
LEMMA WriteCamKeeps ==
    ASSUME StoreInv, WriteRecord, NEW i \in Slots, NEW v \in Camera,
           todo[1] = WriteCam(i, v), ee' = Written(<<"cams", i>>, v)
    PROVE  StoreInv'
<1>1. /\ todo \in Seq(Steps) /\ todo # <<>> /\ todo[1][1] = "write" /\ TypeOK /\ SlotInv
      /\ ~hist.junk => CleanInv /\ CleanStep(todo[1])
      /\ 1 \in 1 .. Len(todo) /\ Rest /\ UNCHANGED <<conf, index, timer, seen, hist>>
  BY WriteIs
<1>2. /\ ee' \in Eeprom /\ ee'.conf = ee.conf /\ ee'.progs = ee.progs /\ ee'.cams[i] = v
      /\ \A j \in Slots : j # i => ee'.cams[j] = ee.cams[j]
  BY <1>1, WrittenFacts, TypeFacts
<1>3. TypeOK' /\ todo' \in Seq(Steps)
  BY <1>1, <1>2, RestFacts DEF TypeOK
<1>4. SlotInv'
  BY WriteCamSlots
<1>5. ASSUME ~hist'.junk
      PROVE  CleanInv'
  <2>1. /\ \A j : Puts(todo[1], <<"cams", j>>) <=> j = i
        /\ \A j : ~Puts(todo[1], <<"progs", j>>)
        /\ ~Puts(todo[1], <<"conf">>) /\ todo[1][3] = v
    BY PutsWhat, Parts
  <2>2. CleanInv /\ CamClean(v) /\ Honest(v)
    BY <1>1, <1>5, <2>1 DEF CleanStep
  <2>3. \A j \in Slots : CamClean(ee.cams[j]) \/ j = i => CamClean(ee'.cams[j])
    BY <1>2, <2>2
  <2>4. Versions'
    BY <1>2, <2>2, <2>3 DEF CleanInv, Versions, ProgClean, ConfClean, CamClean
  <2>5. (\A j \in Slots : Honest(ee.cams[j])') /\ Honest(conf.cam)'
    BY <1>1, <1>2, <2>2 DEF CleanInv, Honest
  <2>6. TimerClean'
    BY <1>1, <1>2, <2>2, RestTimer DEF CleanInv
  <2>7. RamClean'
    BY <1>1, <2>2, RestRam DEF CleanInv
  <2> QED
    BY <1>1, <1>2, <1>5, <2>1, <2>3, <2>4, <2>5, <2>6, <2>7, RestClean
<1> QED
  BY <1>3, <1>4, <1>5 DEF StoreInv

\* WriteRecord.
LEMMA WriteKeeps ==
    ASSUME StoreInv, WriteRecord
    PROVE  StoreInv'
<1>1. CASE \E c \in Conf : todo[1] = WriteConf(c) /\ ee' = Written(<<"conf">>, c)
  BY <1>1, WriteConfKeeps
<1>2. CASE \E i \in Slots, v \in Camera :
              todo[1] = WriteCam(i, v) /\ ee' = Written(<<"cams", i>>, v)
  BY <1>2, WriteCamKeeps
<1>3. CASE \E j \in 0 .. MaxStored, p \in Program :
              todo[1] = WriteProg(j, p) /\ ee' = Written(<<"progs", j>>, p)
  BY <1>3, WriteProgKeeps
<1> QED
  BY <1>1, <1>2, <1>3, WriteIs

\* SetIndex: the slot of the camera that came, or none.
LEMMA SetIndexKeeps ==
    ASSUME StoreInv, SetIndex
    PROVE  StoreInv'
<1>1. /\ todo \in Seq(Steps) /\ todo # <<>> /\ todo[1][1] = "index" /\ TypeOK /\ SlotInv
      /\ ~hist.junk => CleanInv
      /\ index' = todo[1][2] /\ Rest /\ UNCHANGED <<ee, conf, timer, seen, hist>>
      /\ 1 \in 1 .. Len(todo)
  <2>1. Doing("index") /\ Rest /\ index' = Head(todo)[2] /\ UNCHANGED <<ee, conf, timer, seen, hist>>
    BY DEF SetIndex
  <2> QED
    BY <2>1, DoingFacts
<1>2. PICK i \in 0 .. MaxCameras :
         /\ todo = <<<<"index", i>>, <<"load">>>>
         /\ IF i = 0 THEN seen = "none" ELSE seen \in Serials /\ ee.cams[i].serial = seen
  <2>1. Hops(todo)
    BY <1>1 DEF Hops
  <2>2. \A i, v, x, y : <<WriteCam(i, v), x, y>>[1][1] = "write"
    BY Parts
  <2>3. ASSUME NEW i \in 0 .. MaxCameras, NEW v \in Camera,
               todo = <<WriteCam(i, v), <<"index", i>>, <<"load">>>>
        PROVE  FALSE
    BY <1>1, <2>2, <2>3
  <2> QED
    BY <1>1, <2>1, <2>3 DEF SlotInv, Hop
<1>3. index' = i /\ todo' = <<<<"load">>>>
  BY <1>1, <1>2 DEF Rest
<1>4. /\ Len(todo') = 1 /\ todo'[1] = <<"load">> /\ todo'[1][1] = "load"
      /\ 1 .. Len(todo') = {1}
  BY <1>3
<1>5. /\ ~Hops(todo') /\ Has(todo', <<"load">>)
      /\ \A x : Has(todo', x) => x = <<"load">>
      /\ \A record : ~Puts(todo'[1], record)
  BY <1>4 DEF Hops, Has, Puts
<1>6. i # 0 => i \in Slots
  BY StoredAssumption DEF Slots
<1>7. TypeOK' /\ todo' \in Seq(Steps)
  BY <1>1, <1>3, RestFacts DEF TypeOK
<1>8. SlotInv'
  <2>1. Once' /\ DefaultNameless'
    BY <1>1 DEF SlotInv, Once, DefaultNameless
  <2>2. CamWrites' /\ ConfSteps'
    BY <1>4, <1>5 DEF CamWrites, ConfSteps, Puts
  <2>3. Matched'
    BY <1>5 DEF Matched, Has
  <2>4. Boots'
    <3>1. /\ <<"load">> # <<"main">> /\ <<"load">> # <<"wiped">> /\ <<"load">> # <<"init">>
          /\ <<"load">> # <<"restore">>
      OBVIOUS
    <3> QED
      BY <1>4, <1>5, <3>1 DEF Boots, Has
  <2>5. Hop'
    BY <1>5 DEF Hop, Hops
  <2>6. InUse'
    <3>1. /\ seen = "none" => i = 0
          /\ seen \in Serials => i > 0
          /\ i > 0 => ee.cams[i].serial = seen
      <4>1. MaxCameras \in Nat /\ "none" \notin Serials
        BY SerialsAssumption, StoredAssumption
      <4>2. i = 0 \/ i > 0
        BY <4>1
      <4>3. CASE i = 0
        BY <1>2, <4>1, <4>3
      <4>4. CASE i > 0
        BY <1>2, <4>1, <4>4
      <4> QED
        BY <4>2, <4>3, <4>4
    <3>2. /\ seen' = "none" => index' = 0
          /\ seen' \in Serials => index' > 0
          /\ index' > 0 => ee'.cams[index'].serial = seen'
      BY <1>1, <1>3, <3>1
    <3> QED
      BY <3>2 DEF InUse
  <2> QED
    BY <2>1, <2>2, <2>3, <2>4, <2>5, <2>6 DEF SlotInv
<1>9. ASSUME ~hist'.junk
      PROVE  CleanInv'
  <2>1. CleanInv
    BY <1>1, <1>9
  <2>2. Versions' /\ (\A j \in Slots : Honest(ee.cams[j])') /\ Honest(conf.cam)'
    BY <1>1, <2>1 DEF CleanInv, Versions, Honest
  <2>3. RamClean'
    BY <1>5 DEF RamClean, Has
  <2>4. TimerClean'
    <3>1. /\ <<"current", "program">> \notin {<<"index", i>>, <<"load">>}
          /\ <<"restore">> \notin {<<"index", i>>, <<"load">>}
          /\ <<"init">> \notin {<<"index", i>>, <<"load">>}
      OBVIOUS
    <3>2. \A x : Has(todo, x) => x \in {<<"index", i>>, <<"load">>}
      BY <1>2, <1>4, <1>5, <1>1, RestFacts
    <3> QED
      BY <1>1, <2>1, <3>1, <3>2 DEF CleanInv, TimerClean
  <2>5. \A k \in 1 .. Len(todo') : CleanStep(todo[k])'
    BY <1>4, <1>5 DEF CleanStep, Puts
  <2>6. Wholes'
    <3>1. ~Has(todo, <<"init">>)
      <4>1. <<"init">> # <<"load">> /\ <<"init">> # <<"index", i>>
        OBVIOUS
      <4> QED
        BY <1>1, <1>2, <1>5, <4>1, RestFacts
    <3>2. /\ \A j : ~Puts(todo[1], <<"cams", j>>) /\ ~Puts(todo[1], <<"progs", j>>)
          /\ ~Puts(todo[1], <<"conf">>)
      BY <1>1 DEF Puts
    <3>3. Wholes
      BY <2>1, <3>1 DEF CleanInv
    <3> QED
      BY <1>1, <3>2, <3>3, RestWholes
  <2> QED
    BY <2>2, <2>3, <2>4, <2>5, <2>6 DEF CleanInv
<1> QED
  BY <1>7, <1>8, <1>9 DEF StoreInv

-----------------------------------------------------------------------------
(* The scripts that the handlers begin.                                    *)

\* Everything is clean.
Settled ==
    /\ ConfClean(ee.conf)
    /\ \A i \in Slots : CamClean(ee.cams[i]) /\ Honest(ee.cams[i])
    /\ \A j \in 0 .. MaxStored : ProgClean(j, ee.progs[j])
    /\ timer = "program" /\ conf.sys # "junk" /\ conf.cam.val # "junk" /\ Honest(conf.cam)

\* Between two handlers: conf is that of the record in use, and all is clean.
Calm ==
    /\ TypeOK /\ Once /\ DefaultNameless
    /\ conf.cam.serial = Home.serial
    /\ ~hist.junk => Settled

\* The slot in use is that of the camera that is there.
Using ==
    /\ seen = "none" => index = 0
    /\ seen \in Serials => index > 0
    /\ index > 0 /\ ee.cams[index].serial \in Serials
          => seen = ee.cams[index].serial \/ hist.mixed
    /\ seen \in Serials /\ ~hist.reset => ee.cams[index].serial = seen

\* Nothing of a start or of a reset.
Plain == \A k \in 1 .. Len(todo) : todo[k][1] \in {"write", "conf", "index", "load"}

\* A script begun when all is clean need only be looked at step by step.
LEMMA CalmScript ==
    ASSUME Calm, Plain, todo \in Seq(Steps), CamWrites, ConfSteps, Hop, InUse,
           ~hist.junk => \A k \in 1 .. Len(todo) : CleanStep(todo[k])
    PROVE  StoreInv
<1>1. /\ TypeOK /\ Once /\ DefaultNameless /\ conf.cam.serial = Home.serial
      /\ ~hist.junk => Settled
  BY DEF Calm
<1>2. /\ ~Has(todo, <<"main">>) /\ ~Has(todo, <<"wiped">>) /\ ~Has(todo, <<"init">>)
      /\ ~Has(todo, <<"restore">>)
      /\ \A k \in 1 .. Len(todo) : todo[k] \notin {<<"main">>, <<"wiped">>, <<"init">>}
  <2>1. ASSUME NEW k \in 1 .. Len(todo)
        PROVE  todo[k] \notin {<<"main">>, <<"wiped">>, <<"init">>, <<"restore">>}
    <3>1. todo[k][1] \in {"write", "conf", "index", "load"}
      BY DEF Plain
    <3> QED
      BY <3>1
  <2> QED
    BY <2>1 DEF Has
<1>3. Boots
  BY <1>2 DEF Boots
<1>4. Matched
  BY <1>1 DEF Matched
<1>5. SlotInv
  BY <1>1, <1>3, <1>4 DEF SlotInv
<1>6. ASSUME ~hist.junk
      PROVE  CleanInv
  <2>1. Settled
    BY <1>1, <1>6
  <2>2. Wholes
    BY <2>1 DEF Settled, Wholes, Whole, ConfWhole
  <2>3. Versions
    BY <2>1 DEF Settled, Versions
  <2>4. TimerClean /\ RamClean
    BY <2>1 DEF Settled, TimerClean, RamClean
  <2>5. (\A i \in Slots : Honest(ee.cams[i])) /\ Honest(conf.cam)
    BY <2>1 DEF Settled
  <2> QED
    BY <1>6, <2>2, <2>3, <2>4, <2>5 DEF CleanInv
<1> QED
  BY <1>1, <1>5, <1>6 DEF StoreInv

\* Between two handlers, and when only the end of a start is left.
LEMMA AtRest ==
    ASSUME StoreInv, todo = <<>> \/ todo = <<<<"main">>>>
    PROVE  /\ Calm /\ Using
           /\ todo = <<<<"main">>>> => index = 0 /\ seen = "none"
<1>1. /\ TypeOK /\ Once /\ DefaultNameless /\ Matched /\ InUse /\ Boots
      /\ ~hist.junk => CleanInv
  BY DEF StoreInv, SlotInv
<1>2. /\ \A k \in 1 .. Len(todo) : k = 1 /\ todo[k] = <<"main">>
      /\ Len(todo) \in {0, 1}
      /\ Len(todo) = 1 => todo[1] = <<"main">>
      /\ todo = <<<<"main">>>> => Len(todo) = 1
  OBVIOUS
<1>3. /\ <<"main">> # <<"load">> /\ <<"main">> # <<"init">> /\ <<"main">> # <<"wiped">>
      /\ <<"main">> # <<"restore">> /\ <<"main">> # <<"current", "program">>
      /\ <<"main">>[1] = "main"
  OBVIOUS
<1>4. /\ ~Has(todo, <<"load">>) /\ ~Has(todo, <<"init">>) /\ ~Has(todo, <<"wiped">>)
      /\ ~Has(todo, <<"restore">>) /\ ~Has(todo, <<"current", "program">>)
      /\ ~Hops(todo)
      /\ \A k, record : ~Before(todo, k, record)
      /\ ~ \E k \in 1 .. Len(todo) : todo[k][1] = "conf"
  BY <1>2, <1>3 DEF Has, Hops, Before, Puts
<1>5. Using
  BY <1>1, <1>4 DEF Using, InUse
<1>6. todo = <<<<"main">>>> => index = 0 /\ seen = "none"
  <2>1. todo = <<<<"main">>>> => Has(todo, <<"main">>)
    BY <1>2 DEF Has
  <2> QED
    BY <1>1, <2>1 DEF Boots
<1>7. ASSUME ~hist.junk
      PROVE  Settled
  <2>1. CleanInv
    BY <1>1, <1>7
  <2>2. /\ Whole(Len(todo) + 1) /\ ConfWhole(Len(todo) + 1)
    BY <1>4, <2>1 DEF CleanInv, Wholes
  <2>3. /\ ConfClean(ee.conf) /\ \A i \in Slots : CamClean(ee.cams[i])
        /\ \A j \in 0 .. MaxStored : ProgClean(j, ee.progs[j])
    BY <1>4, <2>2 DEF Whole, ConfWhole
  <2>4. timer = "program" /\ conf.sys # "junk" /\ conf.cam.val # "junk"
    BY <1>4, <2>1 DEF CleanInv, TimerClean, RamClean
  <2>5. (\A i \in Slots : Honest(ee.cams[i])) /\ Honest(conf.cam)
    BY <2>1 DEF CleanInv
  <2> QED
    BY <2>3, <2>4, <2>5 DEF Settled
<1>8. Calm
  BY <1>1, <1>4, <1>7 DEF Calm, Matched
<1> QED
  BY <1>5, <1>6, <1>8

\* Nothing to do.
AtEnd == Calm /\ Using /\ todo = <<>>

\* It keeps the invariant.
LEMMA EndInv == AtEnd => StoreInv
<1> SUFFICES ASSUME AtEnd
             PROVE  StoreInv
  OBVIOUS
<1>1. Calm /\ Using /\ todo \in Seq(Steps) /\ Len(todo) = 0
  BY DEF AtEnd
<1>2. Plain /\ CamWrites /\ ConfSteps /\ Hop
  BY <1>1 DEF Plain, CamWrites, ConfSteps, Hop, Hops
<1>3. InUse
  BY <1>1 DEF Using, InUse
<1> QED
  BY <1>1, <1>2, <1>3, CalmScript

\* The settings are loaded anew.
AtLoad == Calm /\ Using /\ todo = <<<<"load">>>>

\* It keeps the invariant.
LEMMA LoadInv == AtLoad => StoreInv
<1> SUFFICES ASSUME AtLoad
             PROVE  StoreInv
  OBVIOUS
<1>1. Calm /\ Using /\ todo \in Seq(Steps) /\ 1 .. Len(todo) = {1} /\ todo[1] = <<"load">>
  <2>1. <<"load">> \in Steps
    BY AreSteps
  <2> QED
    BY <2>1 DEF AtLoad
<1>2. todo[1][1] = "load" /\ \A record : ~Puts(todo[1], record)
  BY <1>1 DEF Puts
<1>3. Plain /\ CamWrites /\ ConfSteps /\ Hop
  BY <1>1, <1>2 DEF Plain, CamWrites, ConfSteps, Hop, Hops
<1>4. InUse
  BY <1>1 DEF Using, InUse
<1>5. \A k \in 1 .. Len(todo) : CleanStep(todo[k])
  BY <1>1, <1>2 DEF CleanStep
<1> QED
  BY <1>1, <1>3, <1>4, <1>5, CalmScript

\* A program is written.
AtProgram ==
    /\ Calm /\ Using
    /\ \E j \in 0 .. MaxStored, p \in Program :
          todo = <<WriteProg(j, p)>> /\ (~hist.junk => ProgClean(j, p))

\* A program's write keeps the invariant.
LEMMA ProgramInv == AtProgram => StoreInv
<1> SUFFICES ASSUME AtProgram
             PROVE  StoreInv
  OBVIOUS
<1>1. PICK j \in 0 .. MaxStored, p \in Program :
         todo = <<WriteProg(j, p)>> /\ (~hist.junk => ProgClean(j, p))
  BY DEF AtProgram
<1>2. /\ Calm /\ Using /\ todo \in Seq(Steps) /\ 1 .. Len(todo) = {1}
      /\ todo[1] = WriteProg(j, p)
  <2>1. WriteProg(j, p) \in Steps
    BY AreSteps
  <2> QED
    BY <1>1, <2>1 DEF AtProgram
<1>3. /\ todo[1][1] = "write" /\ todo[1][3] = p
      /\ \A i : ~Puts(todo[1], <<"cams", i>>)
      /\ \A i : Puts(todo[1], <<"progs", i>>) <=> i = j
      /\ ~Puts(todo[1], <<"conf">>)
  BY <1>2, PutsWhat, Parts
<1>4. Plain /\ CamWrites /\ ConfSteps /\ Hop
  BY <1>2, <1>3 DEF Plain, CamWrites, ConfSteps, Hop, Hops
<1>5. InUse
  BY <1>2 DEF Using, InUse
<1>6. ~hist.junk => \A k \in 1 .. Len(todo) : CleanStep(todo[k])
  BY <1>1, <1>2, <1>3 DEF CleanStep
<1> QED
  BY <1>2, <1>4, <1>5, <1>6, CalmScript

\* The settings are saved: of the camera in use to its slot, of the default camera to conf.
AtSave ==
    /\ Calm /\ Using
    /\ \E c \in Conf :
          /\ c.cam = conf.cam /\ c.sys = conf.sys
          /\ \/ todo = settings_update(c)
             \/ index = 0 /\ todo = settings_save(c)

\* In conf, what is saved is the default camera's own.
LEMMA SavedClean ==
    ASSUME Calm, NEW c \in Conf, c.cam = conf.cam, c.sys = conf.sys
    PROVE  /\ Saved(c) \in Conf /\ Saved(c).cam.serial \notin Serials
           /\ index = 0 => Saved(c).cam.serial = conf.cam.serial
           /\ index = 0 \/ Saved(c).cam.val = ee.conf.cam.val
           /\ ~hist.junk => ConfClean(Saved(c))
<1>1. /\ ee \in Eeprom /\ index \in 0 .. MaxCameras /\ DefaultNameless
      /\ conf.cam.serial = Home.serial /\ (~hist.junk => Settled)
  BY TypeFacts DEF Calm
<1>2. /\ Saved(c) \in Conf /\ Saved(c).sys = c.sys /\ ~Saved(c).cam.auto
      /\ Saved(c).cam.serial = (IF index > 0 THEN ee.conf.cam.serial ELSE c.cam.serial)
      /\ Saved(c).cam.val = (IF index > 0 THEN ee.conf.cam.val ELSE c.cam.val)
  BY <1>1, SavedIs
<1>3. index = 0 \/ index > 0
  BY <1>1, StoredAssumption
<1>4. Saved(c).cam.serial = ee.conf.cam.serial
  BY <1>1, <1>2 DEF Home
<1>5. ~hist.junk => ConfClean(Saved(c))
  BY <1>1, <1>2 DEF Settled, ConfClean
<1> QED
  BY <1>1, <1>2, <1>3, <1>4, <1>5 DEF DefaultNameless

\* The script that saves, for the default camera.
LEMMA SaveDefault ==
    ASSUME Calm, Using, NEW c \in Conf, c.cam = conf.cam, c.sys = conf.sys, ~(index > 0),
           todo = settings_update(c) \/ todo = settings_save(c)
    PROVE  StoreInv
<1> DEFINE s == Saved(c)
<1>1. /\ s \in Conf /\ s.cam.serial \notin Serials /\ index = 0
      /\ s.cam.serial = conf.cam.serial /\ (~hist.junk => ConfClean(s))
  <2>1. index = 0
    BY StoredAssumption, TypeFacts DEF Calm
  <2> QED
    BY <2>1, SavedClean
<1>2. <<"conf", s>> \in Steps /\ WriteConf(s) \in Steps /\ <<"load">> \in Steps
  BY <1>1, AreSteps
<1>3. \/ todo = <<<<"conf", s>>, WriteConf(s), <<"load">>>>
      \/ todo = <<<<"conf", s>>, WriteConf(s)>>
  BY SaveIs
<1> HIDE DEF s
<1>4. /\ todo \in Seq(Steps) /\ todo[1] = <<"conf", s>> /\ todo[2] = WriteConf(s)
      /\ \/ Len(todo) = 3 /\ 1 .. Len(todo) = {1, 2, 3} /\ todo[3] = <<"load">>
         \/ Len(todo) = 2 /\ 1 .. Len(todo) = {1, 2}
  <2>1. CASE todo = <<<<"conf", s>>, WriteConf(s), <<"load">>>>
    <3>1. 1 .. 3 = {1, 2, 3}
      OBVIOUS
    <3> QED
      BY <1>2, <2>1, <3>1
  <2>2. CASE todo = <<<<"conf", s>>, WriteConf(s)>>
    <3>1. 1 .. 2 = {1, 2}
      OBVIOUS
    <3> QED
      BY <1>2, <2>2, <3>1
  <2> QED
    BY <1>3, <2>1, <2>2
<1>5. /\ todo[1][1] = "conf" /\ todo[1][2] = s /\ todo[2][1] = "write" /\ todo[2][3] = s
      /\ \A record : ~Puts(todo[1], record)
      /\ \A i : ~Puts(todo[2], <<"cams", i>>) /\ ~Puts(todo[2], <<"progs", i>>)
      /\ Len(todo) = 3 => todo[3][1] = "load" /\ \A record : ~Puts(todo[3], record)
  BY <1>4, PutsWhat, Parts DEF Puts
<1>6. \A k \in 1 .. Len(todo) :
         k = 1 \/ k = 2 \/ (k = 3 /\ Len(todo) = 3)
  BY <1>4
<1>7. Plain
  BY <1>5, <1>6 DEF Plain
<1>8. CamWrites
  BY <1>5, <1>6 DEF CamWrites
<1>9. Keeps(1, s) /\ Keeps(2, s)
  <2>1. CASE Len(todo) = 3
    BY <1>1, <1>4, <2>1 DEF Keeps, LoadsAfter
  <2>2. CASE Len(todo) = 2
    <3>1. ~Has(todo, <<"load">>)
      BY <1>4, <1>5, <2>2 DEF Has
    <3> QED
      BY <1>1, <3>1 DEF Keeps
  <2> QED
    BY <1>4, <2>1, <2>2
<1>10. ConfSteps
  BY <1>1, <1>5, <1>6, <1>9 DEF ConfSteps
<1>11. ~Hops(todo)
  BY <1>5, <1>6 DEF Hops
<1>12. Hop /\ InUse
  BY <1>11 DEF Using, Hop, InUse
<1>13. ~hist.junk => \A k \in 1 .. Len(todo) : CleanStep(todo[k])
  BY <1>1, <1>5, <1>6 DEF CleanStep
<1> QED
  BY <1>4, <1>7, <1>8, <1>10, <1>12, <1>13, CalmScript

\* And for another camera.
LEMMA SaveCamera ==
    ASSUME Calm, Using, NEW c \in Conf, c.cam = conf.cam, c.sys = conf.sys, index > 0,
           todo = settings_update(c)
    PROVE  StoreInv
<1> DEFINE s == Saved(c)
           v == c.cam
<1>1. /\ s \in Conf /\ s.cam.serial \notin Serials /\ s.cam.val = ee.conf.cam.val
      /\ ~hist.junk => ConfClean(s)
  <2>1. index # 0
    OBVIOUS
  <2> QED
    BY <2>1, SavedClean
<1>2. /\ TypeOK /\ Once /\ index \in Slots /\ v \in Camera
      /\ v.serial = ee.cams[index].serial
      /\ ~hist.junk => Settled /\ CamClean(v) /\ Honest(v)
  <2>1. /\ TypeOK /\ Once /\ index \in Slots /\ v \in Camera
        /\ v.serial = ee.cams[index].serial /\ (~hist.junk => Settled)
    BY TypeFacts DEF Calm, Home
  <2>2. ~hist.junk => CamClean(v) /\ Honest(v)
    BY <2>1 DEF Settled, CamClean
  <2> QED
    BY <2>1, <2>2
<1>3. Fits(index, v)
  <2>1. v.serial \in Serials => seen = v.serial \/ hist.mixed
    BY <1>2 DEF Using
  <2> QED
    BY <1>2, <2>1 DEF Fits, Once
<1>4. /\ <<"conf", s>> \in Steps /\ WriteConf(s) \in Steps /\ <<"load">> \in Steps
      /\ WriteCam(index, v) \in Steps
  BY <1>1, <1>2, AreSteps
<1>5. todo = <<WriteCam(index, v), <<"conf", s>>, WriteConf(s), <<"load">>>>
  BY SaveIs
<1> HIDE DEF s, v
<1>6. /\ todo \in Seq(Steps) /\ todo[1] = WriteCam(index, v) /\ todo[2] = <<"conf", s>>
      /\ todo[3] = WriteConf(s) /\ todo[4] = <<"load">> /\ Len(todo) = 4
  BY <1>4, <1>5
<1>7. /\ todo[1][1] = "write" /\ todo[1][3] = v
      /\ \A i : Puts(todo[1], <<"cams", i>>) <=> i = index
      /\ \A i : ~Puts(todo[1], <<"progs", i>>)
      /\ ~Puts(todo[1], <<"conf">>)
      /\ todo[2][1] = "conf" /\ todo[2][2] = s
      /\ \A record : ~Puts(todo[2], record)
      /\ todo[3][1] = "write" /\ todo[3][3] = s
      /\ \A i : ~Puts(todo[3], <<"cams", i>>) /\ ~Puts(todo[3], <<"progs", i>>)
      /\ todo[4][1] = "load" /\ \A record : ~Puts(todo[4], record)
  <2>1. todo[2][1] = "conf" /\ todo[2][2] = s /\ todo[4][1] = "load"
    BY <1>6
  <2> QED
    BY <1>6, <2>1, PutsWhat, Parts DEF Puts
<1>8. \A k \in 1 .. Len(todo) : k = 1 \/ k = 2 \/ k = 3 \/ k = 4
  BY <1>6
<1>9. LoadsAfter(todo, 1) /\ LoadsAfter(todo, 2) /\ LoadsAfter(todo, 3)
  BY <1>6 DEF LoadsAfter
<1>10. Plain
  BY <1>7, <1>8 DEF Plain
<1>11. CamWrites
  BY <1>3, <1>7, <1>8 DEF CamWrites
<1>12. ConfSteps
  <2>1. Keeps(2, s) /\ Keeps(3, s)
    BY <1>1, <1>9 DEF Keeps
  <2> QED
    BY <1>1, <1>7, <1>8, <1>9, <2>1 DEF ConfSteps
<1>13. ~Hops(todo)
  BY <1>7, <1>8 DEF Hops
<1>14. Hop /\ InUse
  BY <1>13 DEF Using, Hop, InUse
<1>15. ~hist.junk => \A k \in 1 .. Len(todo) : CleanStep(todo[k])
  BY <1>1, <1>2, <1>7, <1>8, ZenonT(60) DEF CleanStep
<1> QED
  BY <1>6, <1>10, <1>11, <1>12, <1>14, <1>15, CalmScript

\* A script that saves, whichever camera is in use, keeps the invariant.
LEMMA SaveInv == AtSave => StoreInv
<1> SUFFICES ASSUME AtSave
             PROVE  StoreInv
  OBVIOUS
<1>1. PICK c \in Conf :
         /\ c.cam = conf.cam /\ c.sys = conf.sys
         /\ \/ todo = settings_update(c)
            \/ index = 0 /\ todo = settings_save(c)
  BY DEF AtSave
<1>2. Calm /\ Using
  BY DEF AtSave
<1>3. CASE index > 0
  BY <1>1, <1>2, <1>3, SaveCamera
<1>4. CASE ~(index > 0)
  BY <1>1, <1>2, <1>4, SaveDefault
<1> QED
  BY <1>3, <1>4

\* The slot is empty, or no slot is.
Empty(i) == ee.cams[i].serial = "" \/ Known("") = {}

\* Another camera's slot comes into use, or none.
AtHop ==
    /\ Calm
    /\ \E i \in 0 .. MaxCameras :
         \/ /\ todo = <<<<"index", i>>, <<"load">>>>
            /\ IF i = 0 THEN seen = "none" ELSE seen \in Serials /\ ee.cams[i].serial = seen
         \/ /\ i # 0 /\ seen \in Serials
            /\ todo = <<WriteCam(i, [ee.conf.cam EXCEPT !.serial = seen]), <<"index", i>>,
                        <<"load">>>>
            /\ \A j \in Slots : ee.cams[j].serial # seen
            /\ Empty(i)

\* The slot has the camera's record already, or none comes into use.
LEMMA HopOld ==
    ASSUME Calm, NEW i \in 0 .. MaxCameras, todo = <<<<"index", i>>, <<"load">>>>,
           IF i = 0 THEN seen = "none" ELSE seen \in Serials /\ ee.cams[i].serial = seen
    PROVE  StoreInv
<1>1. <<"index", i>> \in Steps /\ <<"load">> \in Steps
  BY AreSteps
<1>2. /\ todo \in Seq(Steps) /\ Len(todo) = 2 /\ todo[1] = <<"index", i>>
      /\ todo[2] = <<"load">>
  BY <1>1
<1>3. todo[1][1] = "index" /\ todo[2][1] = "load" /\ \A k \in 1 .. Len(todo) : k = 1 \/ k = 2
  BY <1>2
<1>4. \A k \in 1 .. Len(todo) : \A record : ~Puts(todo[k], record)
  BY <1>3 DEF Puts
<1>5. Plain /\ CamWrites /\ ConfSteps
  BY <1>3, <1>4 DEF Plain, CamWrites, ConfSteps
<1>6. Hops(todo)
  BY <1>2, <1>3 DEF Hops
<1>7. Hop /\ InUse
  BY <1>6 DEF Hop, InUse
<1>8. \A k \in 1 .. Len(todo) : CleanStep(todo[k])
  BY <1>3, <1>4 DEF CleanStep
<1> QED
  BY <1>2, <1>5, <1>7, <1>8, CalmScript

\* The slot is given to the camera first.
LEMMA HopNew ==
    ASSUME Calm, NEW i \in Slots, seen \in Serials, NEW v \in Camera, v.serial = seen,
           v.val = ee.conf.cam.val, v.auto = ee.conf.cam.auto,
           todo = <<WriteCam(i, v), <<"index", i>>, <<"load">>>>,
           \A j \in Slots : ee.cams[j].serial # seen, Empty(i)
    PROVE  StoreInv
<1>1. i \in 0 .. MaxCameras /\ i # 0
  BY StoredAssumption DEF Slots
<1>3. WriteCam(i, v) \in Steps /\ <<"index", i>> \in Steps /\ <<"load">> \in Steps
  BY <1>1, AreSteps
<1>5. /\ todo \in Seq(Steps) /\ Len(todo) = 3 /\ todo[1] = WriteCam(i, v)
      /\ todo[2] = <<"index", i>> /\ todo[3] = <<"load">>
  BY <1>3
<1>6. /\ todo[2][1] = "index" /\ todo[3][1] = "load"
      /\ \A k \in 1 .. Len(todo) : k = 1 \/ k = 2 \/ k = 3
  BY <1>5
<1>7. /\ todo[1][1] = "write" /\ todo[1][3] = v
      /\ \A j : Puts(todo[1], <<"cams", j>>) <=> j = i
      /\ \A j : ~Puts(todo[1], <<"progs", j>>)
      /\ ~Puts(todo[1], <<"conf">>)
      /\ \A record : ~Puts(todo[2], record) /\ ~Puts(todo[3], record)
  BY <1>5, <1>6, PutsWhat, Parts DEF Puts
<1>8. Hops(todo)
  BY <1>5, <1>6 DEF Hops
<1>9. Fits(i, v)
  BY <1>8 DEF Fits, Empty
<1>10. Plain
  BY <1>6, <1>7 DEF Plain
<1>11. CamWrites
  BY <1>6, <1>7, <1>9 DEF CamWrites
<1>12. ConfSteps
  <2>1. LoadsAfter(todo, 1)
    BY <1>5 DEF LoadsAfter
  <2> QED
    BY <1>6, <1>7, <2>1 DEF ConfSteps
<1>13. Hop
  BY <1>1 DEF Hop
<1>14. InUse
  BY <1>8 DEF InUse
<1>15. ASSUME ~hist.junk
       PROVE  \A k \in 1 .. Len(todo) : CleanStep(todo[k])
  <2>1. CamClean(v) /\ Honest(v)
    <3>1. Settled
      BY <1>15 DEF Calm
    <3> QED
      BY <3>1, SerialsAssumption DEF Settled, ConfClean, CamClean, Honest
  <2> QED
    BY <1>6, <1>7, <2>1 DEF CleanStep
<1> QED
  BY <1>5, <1>10, <1>11, <1>12, <1>13, <1>14, <1>15, CalmScript

\* Either way the invariant holds.
LEMMA HopInv == AtHop => StoreInv
<1> SUFFICES ASSUME AtHop
             PROVE  StoreInv
  OBVIOUS
<1>1. Calm
  BY DEF AtHop
<1>2. ASSUME NEW i \in 0 .. MaxCameras, todo = <<<<"index", i>>, <<"load">>>>,
             IF i = 0 THEN seen = "none" ELSE seen \in Serials /\ ee.cams[i].serial = seen
      PROVE  StoreInv
  BY <1>1, <1>2, HopOld
<1>3. ASSUME NEW i \in 0 .. MaxCameras, i # 0, seen \in Serials,
             todo = <<WriteCam(i, [ee.conf.cam EXCEPT !.serial = seen]), <<"index", i>>,
                      <<"load">>>>,
             \A j \in Slots : ee.cams[j].serial # seen, Empty(i)
      PROVE  StoreInv
  <2> DEFINE v == [ee.conf.cam EXCEPT !.serial = seen]
  <2>1. i \in Slots
    BY <1>3, StoredAssumption DEF Slots
  <2>2. v \in Camera /\ v.serial = seen /\ v.val = ee.conf.cam.val /\ v.auto = ee.conf.cam.auto
    <3>1. ee.conf.cam \in Camera /\ seen \in Serials
      BY <1>1, <1>3, TypeFacts DEF Calm
    <3> QED
      BY <3>1 DEF Camera
  <2>3. todo = <<WriteCam(i, v), <<"index", i>>, <<"load">>>>
    BY <1>3
  <2> HIDE DEF v
  <2> QED
    BY <1>1, <1>3, <2>1, <2>2, <2>3, HopNew
<1> QED
  BY <1>2, <1>3, Zenon DEF AtHop

\* Everything is reset, after which only a start or a reset ends.
AtReset ==
    /\ TypeOK /\ Once /\ DefaultNameless /\ Using
    /\ ~hist.junk =>
         /\ Versions /\ (\A i \in Slots : Honest(ee.cams[i])) /\ Honest(conf.cam)
         /\ index = 0 \/ ee.conf.cam.val # "junk"
    /\ Ends(todo[Len(todo)])
    /\ todo[Len(todo)] = <<"main">> => index = 0 /\ seen = "none"
    /\ \E l \in Nat : Resets(todo, l)

\* The steps of a reset.
LEMMA ResetForms ==
    ASSUME TypeOK, NEW q, NEW l \in Nat, Resets(q, l), NEW k \in 1 .. Len(q)
    PROVE  \/ /\ k <= l - 2
              /\ q[k] = <<"conf", FactoryConf>> \/ q[k] = <<"conf", Saved(FactoryConf)>>
           \/ /\ k <= l - 2
              /\ \E i \in Slots : q[k] = WriteCam(i, Zeros) \/ q[k] = WriteCam(i, FactoryCamera)
           \/ Base(q[k])
           \/ k = l - 1 /\ q[k] = WriteConf(Saved(FactoryConf))
           \/ k = l /\ q[k] = <<"load">>
           \/ k = Len(q) /\ Ends(q[k])
<1>1. /\ q \in Seq(Steps) /\ l \in 3 .. Len(q)
      /\ q[l] = <<"load">> /\ q[l - 1] = WriteConf(Saved(FactoryConf))
      /\ \A n \in 1 .. l - 2 : ResetStep(q[n])
      /\ \A n \in l + 1 .. Len(q) : Base(q[n]) \/ (n = Len(q) /\ Ends(q[n]))
  BY DEF Resets
<1>2. k \in 1 .. l - 2 \/ k = l - 1 \/ k = l \/ k \in l + 1 .. Len(q)
  BY <1>1
<1>3. CASE k \in 1 .. l - 2
  <2>1. ResetStep(q[k]) /\ k <= l - 2
    BY <1>1, <1>3
  <2>2. index > 0 => index \in Slots
    BY TypeFacts
  <2> QED
    BY <2>1, <2>2 DEF ResetStep
<1>4. CASE k \in l + 1 .. Len(q)
  BY <1>1, <1>4
<1> QED
  BY <1>1, <1>2, <1>3, <1>4

\* A program's step is nothing else.
LEMMA BaseForm ==
    ASSUME NEW x, Base(x)
    PROVE  /\ x[1] \in {"current", "write"}
           /\ \A i : ~Puts(x, <<"cams", i>>)
           /\ ~Puts(x, <<"conf">>)
           /\ \A j \in 0 .. MaxStored : Puts(x, <<"progs", j>>) => ProgClean(j, x[3])
<1>1. CASE x = <<"current", "program">>
  <2>1. x[1] = "current"
    BY <1>1
  <2> QED
    BY <2>1 DEF Puts
<1>2. CASE \E j \in 0 .. MaxStored, p \in Program : x = WriteProg(j, p) /\ ProgClean(j, p)
  BY <1>2, PutsWhat, Parts
<1> QED
  BY <1>1, <1>2 DEF Base

\* What each step of a reset does.
LEMMA ResetDoes ==
    ASSUME TypeOK, NEW q, NEW l \in Nat, Resets(q, l), NEW k \in 1 .. Len(q)
    PROVE  /\ q[k][1] \in {"current", "write", "conf", "load", "main", "wiped"}
           /\ Ends(q[k]) => k = Len(q)
           /\ q[k] = <<"load">> => k = l
           /\ q[k][1] = "conf" =>
                k <= l - 2 /\ (q[k][2] = FactoryConf \/ q[k][2] = Saved(FactoryConf))
           /\ Puts(q[k], <<"conf">>) => k = l - 1 /\ q[k][3] = Saved(FactoryConf)
           /\ \A i : Puts(q[k], <<"cams", i>>) =>
                k <= l - 2 /\ (q[k][3] = Zeros \/ q[k][3] = FactoryCamera)
           /\ \A j \in 0 .. MaxStored : Puts(q[k], <<"progs", j>>) => ProgClean(j, q[k][3])
<1> DEFINE x == q[k]
           s == Saved(FactoryConf)
           P == /\ x[1] \in {"current", "write", "conf", "load", "main", "wiped"}
                /\ Ends(x) => k = Len(q)
                /\ x = <<"load">> => k = l
                /\ x[1] = "conf" => k <= l - 2 /\ (x[2] = FactoryConf \/ x[2] = s)
                /\ Puts(x, <<"conf">>) => k = l - 1 /\ x[3] = s
                /\ \A i : Puts(x, <<"cams", i>>) =>
                     k <= l - 2 /\ (x[3] = Zeros \/ x[3] = FactoryCamera)
                /\ \A j \in 0 .. MaxStored : Puts(x, <<"progs", j>>) => ProgClean(j, x[3])
<1> SUFFICES P
  OBVIOUS
<1>1. \/ k <= l - 2 /\ (x = <<"conf", FactoryConf>> \/ x = <<"conf", s>>)
      \/ k <= l - 2 /\ \E i \in Slots : x = WriteCam(i, Zeros) \/ x = WriteCam(i, FactoryCamera)
      \/ Base(x)
      \/ k = l - 1 /\ x = WriteConf(s)
      \/ k = l /\ x = <<"load">>
      \/ k = Len(q) /\ Ends(x)
  BY ResetForms
<1> HIDE DEF x, s
<1>0. Ends(x) => x[1] \in {"main", "wiped"}
  BY DEF Ends
<1>2. CASE k <= l - 2 /\ (x = <<"conf", FactoryConf>> \/ x = <<"conf", s>>)
  <2>1. x[1] = "conf" /\ (x[2] = FactoryConf \/ x[2] = s)
    BY <1>2
  <2> QED
    BY <1>0, <1>2, <2>1 DEF Puts
<1>3. CASE k <= l - 2 /\ \E i \in Slots : x = WriteCam(i, Zeros) \/ x = WriteCam(i, FactoryCamera)
  <2>1. x[1] = "write" /\ (x[3] = Zeros \/ x[3] = FactoryCamera) /\ ~Puts(x, <<"conf">>)
        /\ \A j : ~Puts(x, <<"progs", j>>)
    BY <1>3, PutsWhat, Parts
  <2> QED
    BY <1>0, <1>3, <2>1
<1>4. CASE Base(x)
  <2>1. /\ x[1] \in {"current", "write"}
        /\ \A i : ~Puts(x, <<"cams", i>>)
        /\ ~Puts(x, <<"conf">>)
        /\ \A j \in 0 .. MaxStored : Puts(x, <<"progs", j>>) => ProgClean(j, x[3])
    BY <1>4, BaseForm
  <2> QED
    BY <1>0, <2>1
<1>5. CASE k = l - 1 /\ x = WriteConf(s)
  <2>1. /\ x[1] = "write" /\ x[3] = s
        /\ \A i : ~Puts(x, <<"cams", i>>) /\ ~Puts(x, <<"progs", i>>)
    BY <1>5, PutsWhat, Parts
  <2>2. k = l - 1 /\ x # <<"load">>
    BY <1>5, <2>1
  <2> QED
    BY <1>0, <2>1, <2>2
<1>6. CASE k = l /\ x = <<"load">>
  <2>1. x[1] = "load"
    BY <1>6
  <2> QED
    BY <1>0, <1>6, <2>1 DEF Puts
<1>7. CASE k = Len(q) /\ Ends(x)
  <2>1. x[1] \in {"main", "wiped"}
    BY <1>0, <1>7
  <2> QED
    BY <1>7, <2>1 DEF Puts
<1> QED
  BY <1>1, <1>2, <1>3, <1>4, <1>5, <1>6, <1>7

\* A reset keeps what the invariant says of slots.
LEMMA ResetSlots ==
    ASSUME AtReset
    PROVE  SlotInv
<1>1. /\ TypeOK /\ Once /\ DefaultNameless /\ Using /\ Ends(todo[Len(todo)])
      /\ todo[Len(todo)] = <<"main">> => index = 0 /\ seen = "none"
  BY DEF AtReset
<1>2. PICK l \in Nat : Resets(todo, l)
  BY DEF AtReset
<1>3. /\ todo \in Seq(Steps) /\ l \in 3 .. Len(todo) /\ todo[l] = <<"load">>
      /\ Len(todo) \in 1 .. Len(todo)
  BY <1>2 DEF Resets
<1>4. ASSUME NEW k \in 1 .. Len(todo)
      PROVE  /\ todo[k][1] \in {"current", "write", "conf", "load", "main", "wiped"}
             /\ Ends(todo[k]) => k = Len(todo)
             /\ todo[k][1] = "conf" =>
                  k <= l - 2 /\ (todo[k][2] = FactoryConf \/ todo[k][2] = Saved(FactoryConf))
             /\ Puts(todo[k], <<"conf">>) => k = l - 1 /\ todo[k][3] = Saved(FactoryConf)
             /\ \A i : Puts(todo[k], <<"cams", i>>) =>
                  k <= l - 2 /\ (todo[k][3] = Zeros \/ todo[k][3] = FactoryCamera)
  BY <1>1, <1>2, ResetDoes
<1>5. Has(todo, <<"wiped">>) \/ Has(todo, <<"main">>)
  BY <1>1, <1>3 DEF Has, Ends
<1>6. CamWrites
  BY <1>4, <1>5, FactoryFacts DEF CamWrites
<1>7. \A k \in 1 .. l - 1 : LoadsAfter(todo, k)
  BY <1>3 DEF LoadsAfter
<1>8. ConfSteps
  <2>1. /\ FactoryConf.cam.serial \notin Serials /\ Saved(FactoryConf).cam.serial \notin Serials
        /\ index = 0 \/ Saved(FactoryConf).cam.val = ee.conf.cam.val
    <3>1. ee \in Eeprom /\ index \in 0 .. MaxCameras
      BY <1>1, TypeFacts
    <3>2. index = 0 \/ index > 0
      BY <3>1, StoredAssumption
    <3>3. /\ Saved(FactoryConf).cam.serial = (IF index > 0 THEN ee.conf.cam.serial ELSE "")
          /\ index > 0 => Saved(FactoryConf).cam.val = ee.conf.cam.val
      BY <3>1, SavedIs, FactoryFacts
    <3> QED
      BY <1>1, <3>2, <3>3, FactoryFacts, SerialsAssumption DEF DefaultNameless
  <2>2. \A k \in 1 .. l - 1 : Keeps(k, FactoryConf) /\ Keeps(k, Saved(FactoryConf))
    BY <1>7, <2>1 DEF Keeps
  <2>3. \A k \in 1 .. Len(todo) : k <= l - 2 \/ k = l - 1 => k \in 1 .. l - 1
    BY <1>3
  <2>4. ASSUME NEW k \in 1 .. Len(todo)
        PROVE  /\ todo[k][1] = "conf" => Keeps(k, todo[k][2])
               /\ Puts(todo[k], <<"conf">>) =>
                    Keeps(k, todo[k][3]) /\ (index = 0 \/ todo[k][3].cam.val = ee.conf.cam.val)
               /\ \A i \in Slots : Puts(todo[k], <<"cams", i>>) => LoadsAfter(todo, k)
    <3>1. todo[k][1] = "conf" => Keeps(k, todo[k][2])
      BY <1>4, <2>2, <2>3
    <3>2. Puts(todo[k], <<"conf">>) =>
             Keeps(k, todo[k][3]) /\ (index = 0 \/ todo[k][3].cam.val = ee.conf.cam.val)
      BY <1>4, <2>1, <2>2, <2>3
    <3>3. \A i \in Slots : Puts(todo[k], <<"cams", i>>) => LoadsAfter(todo, k)
      BY <1>4, <1>7, <2>3
    <3> QED
      BY <3>1, <3>2, <3>3
  <2> QED
    BY <2>4 DEF ConfSteps
<1>9. Matched
  BY <1>3 DEF Matched, Has
<1>10. ~Hops(todo) /\ ~Has(todo, <<"init">>) /\ ~Has(todo, <<"restore">>)
  <2>1. ASSUME NEW k \in 1 .. Len(todo)
        PROVE  todo[k][1] # "index" /\ todo[k] # <<"init">> /\ todo[k] # <<"restore">>
    <3>1. todo[k][1] \in {"current", "write", "conf", "load", "main", "wiped"}
      BY <1>4
    <3> QED
      BY <3>1
  <2> QED
    BY <2>1 DEF Hops, Has
<1>11. Boots
  <2>1. Has(todo, <<"main">>) => index = 0 /\ seen = "none"
    BY <1>1, <1>4 DEF Has, Ends
  <2>2. \A k \in 1 .. Len(todo) : todo[k] # <<"init">>
    BY <1>10 DEF Has
  <2> QED
    BY <1>4, <1>10, <2>1, <2>2 DEF Boots, Ends
<1>12. Hop
  BY <1>10 DEF Hop
<1>13. InUse
  <2>1. seen \in Serials => Has(todo, <<"wiped">>)
    <3>1. seen \in Serials => todo[Len(todo)] # <<"main">>
      BY <1>1, SerialsAssumption
    <3> QED
      BY <1>1, <1>3, <3>1 DEF Ends, Has
  <2> QED
    BY <1>1, <2>1 DEF InUse, Using
<1> QED
  BY <1>1, <1>6, <1>8, <1>9, <1>11, <1>12, <1>13 DEF SlotInv

\* A reset keeps what the invariant says of their contents.
LEMMA ResetClean ==
    ASSUME AtReset, ~hist.junk
    PROVE  CleanInv
<1>1. /\ TypeOK /\ Versions /\ (\A i \in Slots : Honest(ee.cams[i])) /\ Honest(conf.cam)
      /\ index = 0 \/ ee.conf.cam.val # "junk"
  BY DEF AtReset
<1>2. PICK l \in Nat : Resets(todo, l)
  BY DEF AtReset
<1>3. /\ todo \in Seq(Steps) /\ l \in 3 .. Len(todo) /\ todo[l] = <<"load">>
      /\ todo[l - 1] = WriteConf(Saved(FactoryConf))
      /\ \A i \in Slots : \E n \in 1 .. l - 2 : Puts(todo[n], <<"cams", i>>)
      /\ \A j \in 0 .. MaxStored : \E n \in 1 .. l - 2 : Puts(todo[n], <<"progs", j>>)
      /\ \E n \in 1 .. l - 2 : todo[n] = <<"current", "program">>
  BY <1>2 DEF Resets
<1>4. ASSUME NEW k \in 1 .. Len(todo)
      PROVE  /\ todo[k] = <<"load">> => k = l
             /\ todo[k][1] = "conf" =>
                  todo[k][2] = FactoryConf \/ todo[k][2] = Saved(FactoryConf)
             /\ Puts(todo[k], <<"conf">>) => k = l - 1 /\ todo[k][3] = Saved(FactoryConf)
             /\ \A i : Puts(todo[k], <<"cams", i>>) =>
                  todo[k][3] = Zeros \/ todo[k][3] = FactoryCamera
             /\ \A j \in 0 .. MaxStored :
                  Puts(todo[k], <<"progs", j>>) => ProgClean(j, todo[k][3])
  BY <1>1, <1>2, ResetDoes
<1>5. ConfClean(FactoryConf) /\ ConfClean(Saved(FactoryConf))
  <2>1. /\ Saved(FactoryConf).sys = "factory" /\ ~Saved(FactoryConf).cam.auto
        /\ Saved(FactoryConf).cam.val = (IF index > 0 THEN ee.conf.cam.val ELSE "factory")
    BY <1>1, SavedIs, FactoryFacts, TypeFacts
  <2> QED
    <3>1. ConfClean(FactoryConf)
      BY FactoryFacts DEF ConfClean
    <3>2. Saved(FactoryConf).cam.val # "junk"
      BY <1>1, <2>1
    <3> QED
      BY <2>1, <3>1, <3>2 DEF ConfClean
<1>6. CamClean(Zeros) /\ Honest(Zeros) /\ CamClean(FactoryCamera) /\ Honest(FactoryCamera)
  BY FactoryFacts DEF CamClean, Honest
<1>7. \A k \in 1 .. Len(todo) : CleanStep(todo[k])
  BY <1>4, <1>5, <1>6 DEF CleanStep
<1>8. \A k \in l - 1 .. Len(todo) + 1 : Whole(k)
  <2> SUFFICES ASSUME NEW k \in l - 1 .. Len(todo) + 1
               PROVE  Whole(k)
    OBVIOUS
  <2>1. \A n \in 1 .. l - 2 : n \in 1 .. Len(todo) /\ n < k
    BY <1>3
  <2> QED
    BY <1>3, <2>1 DEF Whole, Before
<1>9. \A k \in l .. Len(todo) + 1 : ConfWhole(k)
  <2> SUFFICES ASSUME NEW k \in l .. Len(todo) + 1
               PROVE  ConfWhole(k)
    OBVIOUS
  <2>1. l - 1 \in 1 .. Len(todo) /\ l - 1 < k
    BY <1>3
  <2>2. Puts(todo[l - 1], <<"conf">>)
    BY <1>3, PutsWhat
  <2> QED
    BY <2>1, <2>2 DEF ConfWhole, Before
<1>10. Wholes
  <2>1. /\ l - 1 \in l - 1 .. Len(todo) + 1 /\ l \in l - 1 .. Len(todo) + 1
        /\ l \in l .. Len(todo) + 1 /\ Len(todo) + 1 \in l .. Len(todo) + 1
        /\ Len(todo) + 1 \in l - 1 .. Len(todo) + 1
    BY <1>3
  <2> QED
    BY <1>4, <1>8, <1>9, <2>1 DEF Wholes
<1>11. TimerClean /\ RamClean
  <2>1. l \in 1 .. Len(todo) /\ \A n \in 1 .. l - 2 : n \in 1 .. Len(todo)
    BY <1>3
  <2> QED
    BY <1>3, <2>1 DEF TimerClean, RamClean, Has
<1> QED
  BY <1>1, <1>7, <1>10, <1>11 DEF CleanInv

\* A reset keeps the invariant.
LEMMA ResetInv == AtReset => StoreInv
<1> SUFFICES ASSUME AtReset
             PROVE  StoreInv
  OBVIOUS
<1>1. TypeOK /\ todo \in Seq(Steps)
  BY DEF AtReset, Resets
<1> QED
  BY <1>1, ResetSlots, ResetClean DEF StoreInv

\* Before any camera is known of.
LEMMA NoneInUse ==
    ASSUME index = 0, seen = "none"
    PROVE  InUse /\ Using
<1>1. ~(index > 0)
  OBVIOUS
<1>2. seen \notin Serials
  BY SerialsAssumption, Zenon
<1> QED
  BY <1>1, <1>2 DEF InUse, Using

\* The end of a start.
AtMain == Calm /\ index = 0 /\ seen = "none" /\ todo = <<<<"main">>>>

\* The invariant holds there.
LEMMA MainInv == AtMain => StoreInv
<1> SUFFICES ASSUME AtMain
             PROVE  StoreInv
  OBVIOUS
<1>1. /\ TypeOK /\ Once /\ DefaultNameless /\ conf.cam.serial = Home.serial
      /\ (~hist.junk => Settled) /\ index = 0 /\ seen = "none"
  BY DEF AtMain, Calm
<1>2. todo \in Seq(Steps) /\ Len(todo) = 1 /\ todo[1] = <<"main">>
  <2>1. <<"main">> \in Steps
    BY AreSteps
  <2> QED
    BY <2>1 DEF AtMain
<1>3. /\ todo[1][1] = "main" /\ \A k \in 1 .. Len(todo) : k = 1
      /\ \A record : ~Puts(todo[1], record)
  BY <1>2 DEF Puts
<1>4. ~Hops(todo) /\ ~Has(todo, <<"init">>) /\ ~Has(todo, <<"restore">>)
  BY <1>2, <1>3 DEF Hops, Has
<1>5. CamWrites /\ ConfSteps /\ Matched /\ Hop
  BY <1>1, <1>3, <1>4 DEF CamWrites, ConfSteps, Matched, Hop
<1>6. Boots
  <2>1. \A k \in 1 .. Len(todo) : k = Len(todo) /\ todo[k] # <<"init">>
    BY <1>2, <1>3
  <2> QED
    BY <1>1, <1>4, <2>1 DEF Boots
<1>7. InUse
  BY <1>1, NoneInUse
<1>8. ASSUME ~hist.junk
      PROVE  CleanInv
  <2>1. Settled
    BY <1>1, <1>8
  <2>2. Wholes /\ Versions /\ TimerClean /\ RamClean
    BY <2>1 DEF Settled, Wholes, Whole, ConfWhole, Versions, TimerClean, RamClean
  <2>3. \A k \in 1 .. Len(todo) : CleanStep(todo[k])
    BY <1>3 DEF CleanStep
  <2> QED
    BY <2>1, <2>2, <2>3 DEF Settled, CleanInv
<1> QED
  BY <1>1, <1>2, <1>5, <1>6, <1>7, <1>8 DEF StoreInv, SlotInv

\* A program's step is one of those before settings_init.
LEMMA BaseStarts ==
    ASSUME NEW x, Base(x)
    PROVE  Starting(x) /\ ~Ends(x) /\ x[1] \notin {"index", "conf", "init", "restore", "load"}
<1>1. x[1] = "current" \/ \E j \in 0 .. MaxStored : Puts(x, <<"progs", j>>)
  <2>1. CASE x = <<"current", "program">>
    BY <2>1
  <2>2. CASE \E j \in 0 .. MaxStored, p \in Program : x = WriteProg(j, p) /\ ProgClean(j, p)
    BY <2>2, PutsWhat
  <2> QED
    BY <2>1, <2>2 DEF Base
<1>2. Starting(x)
  BY <1>1 DEF Starting
<1>3. x[1] \in {"current", "write"}
  BY BaseForm
<1>4. ~Ends(x)
  BY <1>3 DEF Ends
<1> QED
  BY <1>2, <1>3, <1>4

\* The power comes: nothing is known of but what the EEPROM holds.
AtBoot ==
    /\ TypeOK /\ Once /\ DefaultNameless /\ index = 0 /\ seen = "none"
    /\ ~hist.junk => Versions /\ (\A i \in Slots : Honest(ee.cams[i])) /\ Honest(conf.cam)
    /\ todo = Boot(ee)

\* The script of a start.
LEMMA BootIs ==
    ASSUME NEW e \in Eeprom
    PROVE  /\ Boot(e) \in Seq(Steps) /\ Len(Boot(e)) \in Nat /\ Len(Boot(e)) >= 4
           /\ \A k \in 1 .. Len(Boot(e)) - 4 : Base(Boot(e)[k])
           /\ Boot(e)[Len(Boot(e)) - 3] = <<"restore">>
           /\ Boot(e)[Len(Boot(e)) - 2] = <<"load">>
           /\ Boot(e)[Len(Boot(e)) - 1] = <<"init">>
           /\ Boot(e)[Len(Boot(e))] = <<"main">>
<1> DEFINE p == IF e.progs[0].name = "free" THEN setDefault(e) ELSE <<>>
           t == <<<<"restore">>, <<"load">>, <<"init">>, <<"main">>>>
           q == p \o t
           n == Len(p)
<1>1. p \in Seq(Steps) /\ \A k \in 1 .. Len(p) : Base(p[k])
  <2>1. CASE e.progs[0].name = "free"
    BY <2>1, DefaultPrograms
  <2>2. CASE e.progs[0].name # "free"
    <3>1. p = <<>>
      BY <2>2
    <3> HIDE DEF p
    <3> QED
      BY <3>1
  <2> QED
    BY <2>1, <2>2
<1>2. /\ t \in Seq(Steps) /\ Len(t) = 4 /\ t[1] = <<"restore">> /\ t[2] = <<"load">>
      /\ t[3] = <<"init">> /\ t[4] = <<"main">>
  <2>1. /\ <<"restore">> \in Steps /\ <<"load">> \in Steps /\ <<"init">> \in Steps
        /\ <<"main">> \in Steps
    BY AreSteps
  <2> QED
    BY <2>1
<1>3. Boot(e) = q
  BY DEF Boot
<1> HIDE DEF p, t
<1>4. /\ q \in Seq(Steps) /\ Len(q) = n + Len(t) /\ n \in Nat
      /\ \A k \in 1 .. n : q[k] = p[k]
      /\ \A k \in 1 .. Len(t) : q[n + k] = t[k]
  BY <1>1, <1>2, Joined, ZenonT(60)
<1> HIDE DEF q, n
<1>5. /\ Len(q) = n + 4 /\ q[n + 1] = <<"restore">> /\ q[n + 2] = <<"load">>
      /\ q[n + 3] = <<"init">> /\ q[n + 4] = <<"main">>
  BY <1>2, <1>4
<1>6. /\ Len(q) - 4 = n /\ Len(q) - 3 = n + 1 /\ Len(q) - 2 = n + 2 /\ Len(q) - 1 = n + 3
      /\ Len(q) \in Nat /\ Len(q) >= 4
  BY <1>4, <1>5
<1>7. \A k \in 1 .. n : Base(q[k])
  BY <1>1, <1>4 DEF n
<1> QED
  BY <1>3, <1>4, <1>5, <1>6, <1>7

\* The invariant holds when the power comes.
LEMMA BootInv == AtBoot => StoreInv
<1> SUFFICES ASSUME AtBoot
             PROVE  StoreInv
  OBVIOUS
<1> DEFINE n == Len(todo)
<1>1. /\ TypeOK /\ Once /\ DefaultNameless /\ index = 0 /\ seen = "none"
      /\ ~hist.junk => Versions /\ (\A i \in Slots : Honest(ee.cams[i])) /\ Honest(conf.cam)
  BY DEF AtBoot
<1>2. /\ todo \in Seq(Steps) /\ n \in Nat /\ n >= 4
      /\ \A k \in 1 .. n - 4 : Base(todo[k])
      /\ todo[n - 3] = <<"restore">> /\ todo[n - 2] = <<"load">>
      /\ todo[n - 1] = <<"init">> /\ todo[n] = <<"main">>
  <2>1. ee \in Eeprom
    BY <1>1, TypeFacts
  <2> QED
    BY <2>1, BootIs DEF AtBoot
<1> HIDE DEF n
<1>3. /\ n - 3 \in 1 .. n /\ n - 2 \in 1 .. n /\ n - 1 \in 1 .. n /\ n \in 1 .. n
      /\ \A k \in 1 .. n : k \in 1 .. n - 4 \/ k = n - 3 \/ k = n - 2 \/ k = n - 1 \/ k = n
  <2>1. n \in Nat /\ n >= 4
    BY <1>2
  <2> QED
    BY <2>1
<1>4. Has(todo, <<"restore">>) /\ Has(todo, <<"load">>) /\ Has(todo, <<"init">>)
  BY <1>2, <1>3 DEF Has, n
<1>5. ASSUME NEW k \in 1 .. n
      PROVE  /\ Starting(todo[k]) /\ todo[k][1] # "index" /\ todo[k][1] # "conf"
             /\ Ends(todo[k]) => k = n
             /\ todo[k] = <<"init">> => k = n - 1
             /\ \A i : ~Puts(todo[k], <<"cams", i>>)
             /\ ~Puts(todo[k], <<"conf">>)
             /\ \A j \in 0 .. MaxStored : Puts(todo[k], <<"progs", j>>) => ProgClean(j, todo[k][3])
  <2>1. CASE k \in 1 .. n - 4
    <3>1. Base(todo[k])
      BY <1>2, <2>1
    <3> QED
      BY <3>1, BaseForm, BaseStarts
  <2>2. CASE k = n - 3 \/ k = n - 2 \/ k = n - 1 \/ k = n
    <3>1. \/ todo[k] = <<"restore">>
          \/ todo[k] = <<"load">>
          \/ k = n - 1 /\ todo[k] = <<"init">>
          \/ k = n /\ todo[k] = <<"main">>
      BY <1>2, <2>2
    <3>2. todo[k][1] \in {"restore", "load", "init", "main"}
      BY <3>1
    <3> QED
      BY <3>1, <3>2 DEF Starting, Ends, Puts
  <2> QED
    BY <1>3, <2>1, <2>2
<1>6. CamWrites /\ ConfSteps
  BY <1>5 DEF CamWrites, ConfSteps, n
<1>7. Matched
  BY <1>4 DEF Matched
<1>8. ~Hops(todo)
  BY <1>5 DEF Hops, n
<1>9. Boots
  <2>1. \A k \in 1 .. n : todo[k] = <<"init">> =>
           /\ k = n - 1 /\ todo[n] = <<"main">> /\ k # 1 /\ todo[k - 1] = <<"load">>
    <3>1. n - 1 # 1 /\ (n - 1) - 1 = n - 2
      BY <1>2
    <3> QED
      BY <1>2, <1>5, <3>1
  <2> QED
    BY <1>1, <1>4, <1>5, <1>8, <2>1 DEF Boots, Ends, n
<1>10. Hop /\ InUse
  BY <1>1, <1>8, NoneInUse DEF Hop
<1>11. ASSUME ~hist.junk
       PROVE  CleanInv
  <2>1. \A k \in 1 .. Len(todo) : CleanStep(todo[k])
    BY <1>5 DEF CleanStep, n
  <2>2. TimerClean /\ RamClean
    BY <1>4 DEF TimerClean, RamClean
  <2> QED
    BY <1>1, <1>4, <1>11, <2>1, <2>2 DEF CleanInv
<1> QED
  BY <1>1, <1>2, <1>6, <1>7, <1>9, <1>10, <1>11 DEF StoreInv, SlotInv

\* The programs are another version's, the settings are not.
AtNew ==
    /\ TypeOK /\ Once /\ DefaultNameless /\ index = 0 /\ seen = "none" /\ conf = ee.conf
    /\ ~hist.junk => /\ Versions /\ (\A i \in Slots : Honest(ee.cams[i])) /\ Honest(conf.cam)
                     /\ ee.conf.sver
    /\ todo = NewPrograms \o <<<<"main">>>>

\* The script that replaces them.
LEMMA NewIs ==
    ASSUME ee \in Eeprom, conf \in Conf, index = 0
    PROVE  \E s \in Conf, n \in Nat :
              /\ s = Saved([conf EXCEPT !.pver = TRUE])
              /\ s.sys = conf.sys /\ s.cam.val = conf.cam.val /\ s.cam.serial = conf.cam.serial
              /\ ~s.cam.auto
              /\ NewPrograms \o <<<<"main">>>> \in Seq(Steps)
              /\ Len(NewPrograms \o <<<<"main">>>>) = n + 3
              /\ \A k \in 1 .. n : Base((NewPrograms \o <<<<"main">>>>)[k])
              /\ \A j \in 0 .. MaxStored : \E k \in 1 .. n :
                    Puts((NewPrograms \o <<<<"main">>>>)[k], <<"progs", j>>)
              /\ \E k \in 1 .. n :
                    (NewPrograms \o <<<<"main">>>>)[k] = <<"current", "program">>
              /\ (NewPrograms \o <<<<"main">>>>)[n + 1] = <<"conf", s>>
              /\ (NewPrograms \o <<<<"main">>>>)[n + 2] = WriteConf(s)
              /\ (NewPrograms \o <<<<"main">>>>)[n + 3] = <<"main">>
<1> DEFINE c == [conf EXCEPT !.pver = TRUE]
           s == Saved(c)
           a == setDefault(ee)
           b == settings_save(c)
           m == <<<<"main">>>>
           n == Len(a)
<1>1. c \in Conf /\ c.sys = conf.sys /\ c.cam = conf.cam
  BY DEF Conf
<1>2. NewPrograms = a \o b
  BY DEF NewPrograms
<1> HIDE DEF c
<1>3. /\ s \in Conf /\ s.sys = conf.sys /\ s.cam.val = conf.cam.val
      /\ s.cam.serial = conf.cam.serial /\ ~s.cam.auto
  BY <1>1, SavedIs
<1>4. b = <<<<"conf", s>>, WriteConf(s)>>
  BY SaveIs
<1>5. <<"conf", s>> \in Steps /\ WriteConf(s) \in Steps /\ <<"main">> \in Steps
  BY <1>3, AreSteps
<1> HIDE DEF s, b
<1>6. b \in Seq(Steps) /\ Len(b) = 2 /\ b[1] = <<"conf", s>> /\ b[2] = WriteConf(s)
  BY <1>4, <1>5
<1>7. m \in Seq(Steps) /\ Len(m) = 1 /\ m[1] = <<"main">>
  BY <1>5
<1>8. /\ a \in Seq(Steps) /\ \A k \in 1 .. Len(a) : Base(a[k])
      /\ \E k \in 1 .. Len(a) : a[k] = <<"current", "program">>
      /\ \A j \in 0 .. MaxStored : \E k \in 1 .. Len(a) : Puts(a[k], <<"progs", j>>)
  BY DefaultPrograms DEF Has
<1> HIDE DEF a, m
<1> DEFINE ab == a \o b
           q == ab \o m
<1>9. /\ n \in Nat /\ ab \in Seq(Steps) /\ Len(ab) = n + Len(b)
      /\ \A k \in 1 .. n : ab[k] = a[k]
      /\ \A k \in 1 .. Len(b) : ab[n + k] = b[k]
  BY <1>6, <1>8, Joined, ZenonT(60)
<1> HIDE DEF ab, n
<1>10. Len(ab) = n + 2 /\ ab[n + 1] = <<"conf", s>> /\ ab[n + 2] = WriteConf(s)
  BY <1>6, <1>9
<1>11. /\ q \in Seq(Steps) /\ Len(q) = Len(ab) + Len(m)
       /\ \A k \in 1 .. Len(ab) : q[k] = ab[k]
       /\ \A k \in 1 .. Len(m) : q[Len(ab) + k] = m[k]
  BY <1>7, <1>9, Joined
<1> HIDE DEF q
<1>12. /\ Len(q) = n + 3 /\ q[n + 3] = <<"main">> /\ q[n + 1] = <<"conf", s>>
       /\ q[n + 2] = WriteConf(s)
       /\ \A k \in 1 .. n : q[k] = a[k]
  <2>1. Len(ab) + 1 = n + 3
    BY <1>9, <1>10
  <2>2. q[Len(ab) + 1] = <<"main">>
    BY <1>7, <1>11
  <2>3. n + 1 \in 1 .. Len(ab) /\ n + 2 \in 1 .. Len(ab) /\ \A k \in 1 .. n : k \in 1 .. Len(ab)
    BY <1>9, <1>10
  <2>4. q[n + 1] = <<"conf", s>> /\ q[n + 2] = WriteConf(s)
    BY <1>10, <1>11, <2>3
  <2>5. \A k \in 1 .. n : q[k] = a[k]
    BY <1>9, <1>11, <2>3
  <2>6. Len(q) = n + 3
    BY <1>7, <1>11, <2>1
  <2> QED
    BY <2>1, <2>2, <2>4, <2>5, <2>6
<1>13. q = NewPrograms \o <<<<"main">>>>
  BY <1>2 DEF q, ab, m
<1>14. /\ \A k \in 1 .. n : Base(q[k])
       /\ \A j \in 0 .. MaxStored : \E k \in 1 .. n : Puts(q[k], <<"progs", j>>)
       /\ \E k \in 1 .. n : q[k] = <<"current", "program">>
  BY <1>8, <1>12 DEF n
<1>15. s = Saved([conf EXCEPT !.pver = TRUE])
  BY DEF s, c
<1> QED
  BY <1>3, <1>9, <1>11, <1>12, <1>13, <1>14, <1>15

\* The invariant holds when the programs are replaced.
LEMMA NewInv == AtNew => StoreInv
<1> SUFFICES ASSUME AtNew
             PROVE  StoreInv
  OBVIOUS
<1>1. /\ TypeOK /\ Once /\ DefaultNameless /\ index = 0 /\ seen = "none" /\ conf = ee.conf
      /\ ~hist.junk => /\ Versions /\ (\A i \in Slots : Honest(ee.cams[i])) /\ Honest(conf.cam)
                       /\ ee.conf.sver
  BY DEF AtNew
<1>2. PICK s \in Conf, n \in Nat :
         /\ s.sys = conf.sys /\ s.cam.val = conf.cam.val /\ s.cam.serial = conf.cam.serial
         /\ ~s.cam.auto
         /\ todo \in Seq(Steps) /\ Len(todo) = n + 3
         /\ \A k \in 1 .. n : Base(todo[k])
         /\ \A j \in 0 .. MaxStored : \E k \in 1 .. n : Puts(todo[k], <<"progs", j>>)
         /\ \E k \in 1 .. n : todo[k] = <<"current", "program">>
         /\ todo[n + 1] = <<"conf", s>> /\ todo[n + 2] = WriteConf(s)
         /\ todo[n + 3] = <<"main">>
  <2>1. ee \in Eeprom /\ conf \in Conf /\ todo = NewPrograms \o <<<<"main">>>>
    BY <1>1, TypeFacts DEF AtNew
  <2> QED
    BY <1>1, <2>1, NewIs
<1>3. /\ n + 1 \in 1 .. Len(todo) /\ n + 2 \in 1 .. Len(todo) /\ n + 3 \in 1 .. Len(todo)
      /\ \A k \in 1 .. n : k \in 1 .. Len(todo)
      /\ \A k \in 1 .. Len(todo) : k \in 1 .. n \/ k = n + 1 \/ k = n + 2 \/ k = n + 3
  BY <1>2
<1>4. ASSUME NEW k \in 1 .. Len(todo)
      PROVE  /\ todo[k][1] \notin {"index", "init", "restore", "load"}
             /\ Ends(todo[k]) => k = Len(todo)
             /\ \A i : ~Puts(todo[k], <<"cams", i>>)
             /\ todo[k][1] = "conf" => todo[k][2] = s
             /\ Puts(todo[k], <<"conf">>) => k = n + 2 /\ todo[k][3] = s
             /\ \A j \in 0 .. MaxStored : Puts(todo[k], <<"progs", j>>) => ProgClean(j, todo[k][3])
  <2>1. CASE k \in 1 .. n
    <3>1. Base(todo[k])
      BY <1>2, <2>1
    <3>2. /\ todo[k][1] \notin {"index", "conf", "init", "restore", "load"} /\ ~Ends(todo[k])
          /\ \A i : ~Puts(todo[k], <<"cams", i>>)
          /\ ~Puts(todo[k], <<"conf">>)
          /\ \A j \in 0 .. MaxStored : Puts(todo[k], <<"progs", j>>) => ProgClean(j, todo[k][3])
      BY <3>1, BaseForm, BaseStarts
    <3> QED
      BY <3>2
  <2>2. CASE k = n + 1
    <3>1. todo[k] = <<"conf", s>>
      BY <1>2, <2>2
    <3>2. todo[k][1] = "conf" /\ todo[k][2] = s /\ ~Ends(todo[k])
      BY <3>1 DEF Ends
    <3> QED
      BY <3>2 DEF Puts
  <2>3. CASE k = n + 2
    <3>1. todo[k] = WriteConf(s)
      BY <1>2, <2>3
    <3>2. /\ todo[k][1] = "write" /\ todo[k][3] = s
          /\ \A i : ~Puts(todo[k], <<"cams", i>>) /\ ~Puts(todo[k], <<"progs", i>>)
      BY <3>1, PutsWhat, Parts
    <3>3. ~Ends(todo[k])
      BY <3>2 DEF Ends
    <3> QED
      BY <2>3, <3>2, <3>3
  <2>4. CASE k = n + 3
    <3>1. todo[k] = <<"main">> /\ k = Len(todo)
      BY <1>2, <2>4
    <3>2. todo[k][1] = "main"
      BY <3>1
    <3> QED
      BY <3>1, <3>2 DEF Puts
  <2> QED
    BY <1>3, <2>1, <2>2, <2>3, <2>4
<1>5. ~Has(todo, <<"load">>) /\ ~Has(todo, <<"init">>) /\ ~Has(todo, <<"restore">>)
  <2>1. ASSUME NEW k \in 1 .. Len(todo)
        PROVE  todo[k] # <<"load">> /\ todo[k] # <<"init">> /\ todo[k] # <<"restore">>
    <3>1. todo[k][1] \notin {"index", "init", "restore", "load"}
      BY <1>4
    <3> QED
      BY <3>1
  <2> QED
    BY <2>1 DEF Has
<1>6. CamWrites
  BY <1>4 DEF CamWrites
<1>7. ConfSteps
  <2>1. \A k : Keeps(k, s)
    BY <1>1, <1>2, <1>5 DEF Keeps, DefaultNameless
  <2> QED
    BY <1>1, <1>4, <2>1 DEF ConfSteps
<1>8. Matched
  BY <1>1 DEF Matched, Home
<1>9. ~Hops(todo)
  BY <1>4 DEF Hops
<1>10. Boots
  <2>1. \A k \in 1 .. Len(todo) : todo[k] # <<"init">>
    BY <1>5 DEF Has
  <2> QED
    BY <1>1, <1>4, <1>5, <1>9, <2>1 DEF Boots, Ends
<1>11. Hop /\ InUse
  BY <1>1, <1>9, NoneInUse DEF Hop
<1>12. ASSUME ~hist.junk
       PROVE  CleanInv
  <2>1. /\ Versions /\ ConfClean(ee.conf) /\ \A i \in Slots : CamClean(ee.cams[i])
    BY <1>1, <1>12 DEF Versions
  <2>2. ConfClean(s)
    BY <1>1, <1>2, <2>1 DEF ConfClean
  <2>3. \A k \in 1 .. Len(todo) : CleanStep(todo[k])
    BY <1>4, <2>2 DEF CleanStep
  <2>4. ASSUME NEW k \in Nat, k > n
        PROVE  Whole(k)
    <3>1. \A i \in 1 .. n : i \in 1 .. Len(todo) /\ i < k
      BY <1>3, <2>4
    <3> QED
      BY <1>2, <2>1, <3>1 DEF Whole, Before
  <2>5. \A k : ConfWhole(k)
    BY <2>1 DEF ConfWhole
  <2>6. Wholes
    <3>1. /\ n + 2 \in Nat /\ n + 2 > n /\ Len(todo) + 1 \in Nat /\ Len(todo) + 1 > n
      BY <1>2
    <3>2. \A k \in 1 .. Len(todo) : todo[k] # <<"load">>
      BY <1>5 DEF Has
    <3> QED
      BY <1>4, <2>4, <2>5, <3>1, <3>2 DEF Wholes
  <2>7. TimerClean
    BY <1>2, <1>3 DEF TimerClean, Has
  <2>8. RamClean
    BY <1>1, <2>1 DEF RamClean, ConfClean
  <2> QED
    BY <1>1, <1>12, <2>1, <2>3, <2>6, <2>7, <2>8 DEF CleanInv
<1> QED
  BY <1>1, <1>2, <1>6, <1>7, <1>8, <1>10, <1>11, <1>12 DEF StoreInv, SlotInv

-----------------------------------------------------------------------------
(* The rest of the steps, and the handlers, keep the invariant.            *)

\* A reset is one whatever else changes.
LEMMA ResetsNext ==
    ASSUME ee' = ee, index' = index, NEW l \in Nat, Resets(todo', l)
    PROVE  (\E n \in Nat : Resets(todo, n))'
<1>1. Saved(FactoryConf)' = Saved(FactoryConf)
  BY DEF Saved, DefaultOf, ClearsAuto, FactoryConf, FactoryCamera
<1>2. /\ todo' \in Seq(Steps)
      /\ l \in 3 .. Len(todo')
      /\ todo'[l] = <<"load">>
      /\ todo'[l - 1] = WriteConf(Saved(FactoryConf))
      /\ \A k \in 1 .. l - 2 : ResetStep(todo'[k])
      /\ \A i \in Slots : \E n \in 1 .. l - 2 : Puts(todo'[n], <<"cams", i>>)
      /\ \A j \in 0 .. MaxStored : \E n \in 1 .. l - 2 : Puts(todo'[n], <<"progs", j>>)
      /\ \E n \in 1 .. l - 2 : todo'[n] = <<"current", "program">>
      /\ \A k \in l + 1 .. Len(todo') : Base(todo'[k]) \/ (k = Len(todo') /\ Ends(todo'[k]))
  BY DEF Resets
<1>3. \A k \in 1 .. l - 2 : ResetStep(todo[k])'
  BY <1>1, <1>2 DEF ResetStep
<1>4. todo'[l - 1] = WriteConf(Saved(FactoryConf)')
  BY <1>1, <1>2
<1>5. Resets(todo, l)'
  BY <1>2, <1>3, <1>4, Zenon DEF Resets
<1> QED
  BY <1>5

\* settings_init is reached with the settings as they are in the EEPROM.
LEMMA AtInit ==
    ASSUME StoreInv, Doing("init")
    PROVE  /\ todo = <<<<"init">>, <<"main">>>> /\ Tail(todo) = <<<<"main">>>>
           /\ conf = ee.conf /\ index = 0 /\ seen = "none"
           /\ TypeOK /\ Once /\ DefaultNameless
           /\ ~hist.junk => CleanInv
           /\ ~hist.junk /\ ee.conf.pver => timer = "program"
<1>1. /\ todo \in Seq(Steps) /\ todo # <<>> /\ todo[1] \in Steps /\ todo[1][1] = "init"
      /\ 1 \in 1 .. Len(todo) /\ TypeOK /\ SlotInv /\ (~hist.junk => CleanInv)
  BY DoingFacts
<1>2. todo[1] = <<"init">>
  BY <1>1, Kinds
<1>3. 1 = Len(todo) - 1 /\ todo[Len(todo)] = <<"main">> /\ conf = ee.conf
  BY <1>1, <1>2 DEF SlotInv, Boots
<1>4. Len(todo) = 2 /\ todo[2] = <<"main">>
  <2>1. Len(todo) \in Nat
    BY <1>1
  <2>2. Len(todo) = 2
    BY <1>3, <2>1
  <2> QED
    BY <1>3, <2>2
<1>5. todo = <<<<"init">>, <<"main">>>>
  <2>1. <<<<"init">>, <<"main">>>> \in Seq(Steps)
    <3>1. <<"init">> \in Steps /\ <<"main">> \in Steps
      BY AreSteps
    <3> QED
      BY <3>1
  <2>2. \A k \in 1 .. 2 : k = 1 \/ k = 2
    OBVIOUS
  <2> DEFINE q == <<<<"init">>, <<"main">>>>
  <2>3. Len(q) = 2 /\ q[1] = <<"init">> /\ q[2] = <<"main">> /\ q \in Seq(Steps)
    BY <2>1
  <2> HIDE DEF q
  <2>4. todo = q
    BY <1>1, <1>2, <1>4, <2>2, <2>3, SeqEqual
  <2> QED
    BY <2>4 DEF q
<1>6. Tail(todo) = <<<<"main">>>>
  BY <1>5
<1>7. index = 0 /\ seen = "none"
  <2>1. Has(todo, <<"main">>)
    BY <1>4 DEF Has
  <2> QED
    BY <1>1, <2>1 DEF SlotInv, Boots
<1>8. ASSUME ~hist.junk, ee.conf.pver
      PROVE  timer = "program"
  <2>1. TimerClean
    BY <1>1, <1>8 DEF CleanInv
  <2>2. \A k \in 1 .. Len(todo) : k = 1 \/ k = 2
    BY <1>4
  <2>3. ~Has(todo, <<"current", "program">>) /\ ~Has(todo, <<"restore">>)
    <3>1. /\ <<"init">> # <<"current", "program">> /\ <<"main">> # <<"current", "program">>
          /\ <<"init">> # <<"restore">> /\ <<"main">> # <<"restore">>
      OBVIOUS
    <3> QED
      BY <1>2, <1>4, <2>2, <3>1 DEF Has
  <2> QED
    BY <1>8, <2>1, <2>3 DEF TimerClean
<1> QED
  BY <1>1, <1>3, <1>5, <1>6, <1>7, <1>8 DEF SlotInv

\* settings_init.
LEMMA InitKeeps ==
    ASSUME StoreInv, settings_init
    PROVE  StoreInv'
<1>1. /\ Doing("init") /\ UNCHANGED <<ee, conf, index, timer, seen, hist>>
      /\ todo' = (IF ~conf.sver
                  THEN (IF conf.pver THEN <<>> ELSE setDefault(ee)) \o settings_default
                  ELSE IF ~conf.pver THEN NewPrograms
                  ELSE <<>>) \o Tail(todo)
  BY DEF settings_init
<1>2. /\ Tail(todo) = <<<<"main">>>> /\ conf = ee.conf /\ index = 0 /\ seen = "none"
      /\ TypeOK /\ Once /\ DefaultNameless
      /\ ~hist.junk => CleanInv
      /\ ~hist.junk /\ ee.conf.pver => timer = "program"
  BY <1>1, AtInit
<1>3. TypeOK' /\ Once' /\ DefaultNameless'
  BY <1>1, <1>2 DEF TypeOK, Once, DefaultNameless
<1>4. ~hist'.junk => Versions' /\ (\A i \in Slots : Honest(ee.cams[i])') /\ Honest(conf.cam)'
  BY <1>1, <1>2 DEF CleanInv, Versions, Honest
<1>5. CASE ~conf.sver
  <2> DEFINE p == IF conf.pver THEN <<>> ELSE setDefault(ee)
             d == settings_default
             m == <<<<"main">>>>
  <2>1. todo' = (p \o d) \o m
    BY <1>1, <1>2, <1>5
  <2>2. p \in Seq(Steps) /\ \A k \in 1 .. Len(p) : Base(p[k])
    <3>1. CASE conf.pver
      <4>1. p = <<>>
        BY <3>1
      <4> HIDE DEF p
      <4> QED
        BY <4>1
    <3>2. CASE ~conf.pver
      BY <1>2, <3>2, DefaultPrograms, TypeFacts
    <3> QED
      BY <3>1, <3>2
  <2>3. m \in Seq(Steps) /\ Len(m) = 1 /\ m[1] = <<"main">> /\ Ends(m[1])
    <3>1. <<"main">> \in Steps
      BY AreSteps
    <3> QED
      BY <3>1 DEF Ends
  <2>4. Resets(d, Len(d))
    BY <1>2, DefaultResets, TypeFacts
  <2> HIDE DEF p, d, m
  <2> DEFINE pd == p \o d
             l == Len(p) + Len(d)
  <2>5. Resets(pd, l) /\ Len(pd) = l /\ l \in Nat
    <3>1. d \in Seq(Steps)
      BY <2>4 DEF Resets
    <3> QED
      BY <2>2, <2>4, <3>1, ResetsMore, Joined
  <2> HIDE DEF pd, l
  <2>6. Resets(pd \o m, l)
    <3>1. \A k \in l + 1 .. Len(pd) : Base(pd[k])
      BY <2>5
    <3>2. \A k \in 1 .. Len(m) : k = Len(m) /\ Ends(m[k])
      BY <2>3
    <3> QED
      BY <2>3, <2>5, <3>1, <3>2, ResetsEnd
  <2>7. todo' = pd \o m
    BY <2>1 DEF pd
  <2>8. todo'[Len(todo')] = <<"main">>
    <3> DEFINE q == pd \o m
    <3>1. pd \in Seq(Steps)
      BY <2>5 DEF Resets
    <3>2. Len(q) = Len(pd) + Len(m) /\ \A k \in 1 .. Len(m) : q[Len(pd) + k] = m[k]
      BY <2>3, <3>1, Joined
    <3> HIDE DEF q
    <3>3. q[Len(q)] = <<"main">>
      BY <2>3, <2>5, <3>2
    <3> QED
      BY <2>7, <3>3 DEF q
  <2>9. (\E n \in Nat : Resets(todo, n))'
    BY <1>1, <2>5, <2>6, <2>7, ResetsNext
  <2>10. AtReset'
    <3>1. Using'
      <4>1. index' = 0 /\ seen' = "none"
        BY <1>1, <1>2
      <4>2. ~(index' > 0)
        BY <4>1
      <4>3. seen' \notin Serials
        BY <4>1, SerialsAssumption, Zenon
      <4> QED
        BY <4>1, <4>2, <4>3 DEF Using
    <3> QED
      BY <1>1, <1>2, <1>3, <1>4, <2>8, <2>9, <3>1 DEF AtReset, Ends
  <2> QED
    BY <2>10, ResetInv, PTL
<1>6. CASE conf.sver /\ ~conf.pver
  <2>1. todo' = NewPrograms \o <<<<"main">>>>
    BY <1>1, <1>2, <1>6
  <2>2. NewPrograms' = NewPrograms
    <3>1. setDefault(ee)' = setDefault(ee)
      BY <1>1 DEF setDefault, WriteProgram, NameProgram
    <3>2. \A c : settings_save(c)' = settings_save(c)
      BY <1>1 DEF settings_save, WriteConf, WriteCam, DefaultOf, ClearsAuto
    <3> QED
      BY <1>1, <3>1, <3>2 DEF NewPrograms
  <2>3. AtNew'
    BY <1>1, <1>2, <1>3, <1>4, <1>6, <2>1, <2>2 DEF AtNew
  <2> QED
    BY <2>3, NewInv, PTL
<1>7. CASE conf.sver /\ conf.pver
  <2>1. todo' = <<<<"main">>>>
    <3>1. todo' = <<>> \o <<<<"main">>>>
      BY <1>1, <1>2, <1>7
    <3> QED
      BY <3>1
  <2>2. ~hist'.junk => Settled'
    <3> SUFFICES ASSUME ~hist.junk
                 PROVE  Settled'
      BY <1>1
    <3>1. /\ ConfClean(ee.conf) /\ (\A i \in Slots : CamClean(ee.cams[i]))
          /\ (\A j \in 0 .. MaxStored : ProgClean(j, ee.progs[j])) /\ timer = "program"
          /\ (\A i \in Slots : Honest(ee.cams[i])) /\ Honest(conf.cam)
      BY <1>2, <1>7 DEF CleanInv, Versions
    <3>2. Settled
      BY <1>2, <3>1 DEF Settled, ConfClean
    <3> QED
      BY <1>1, <3>2 DEF Settled, Honest
  <2>3. AtMain'
    <3>1. conf'.cam.serial = Home'.serial
      BY <1>1, <1>2 DEF Home
    <3> QED
      BY <1>1, <1>2, <1>3, <2>1, <2>2, <3>1 DEF AtMain, Calm
  <2> QED
    BY <2>3, MainInv, PTL
<1> QED
  BY <1>5, <1>6, <1>7

\* FirmwareUpdated.
LEMMA MainKeeps ==
    ASSUME StoreInv, FirmwareUpdated
    PROVE  StoreInv'
<1>1. /\ Doing("main") /\ UNCHANGED <<ee, conf, index, timer, seen, hist>>
      /\ todo' = IF conf.fver THEN <<>> ELSE settings_save([conf EXCEPT !.fver = TRUE])
  BY DEF FirmwareUpdated
<1>2. todo = <<<<"main">>>>
  <2>1. /\ todo \in Seq(Steps) /\ todo[1] \in Steps /\ todo[1][1] = "main"
        /\ 1 \in 1 .. Len(todo) /\ SlotInv
    BY <1>1, DoingFacts
  <2>2. todo[1] = <<"main">>
    BY <2>1, Kinds
  <2>3. Len(todo) = 1
    BY <2>1, <2>2 DEF SlotInv, Boots
  <2> DEFINE q == <<<<"main">>>>
  <2>4. q \in Seq(Steps) /\ Len(q) = 1 /\ q[1] = <<"main">> /\ \A k \in 1 .. 1 : k = 1
    <3>1. <<"main">> \in Steps
      BY AreSteps
    <3> QED
      BY <3>1
  <2> HIDE DEF q
  <2>5. todo = q
    BY <2>1, <2>2, <2>3, <2>4, SeqEqual
  <2> QED
    BY <2>5 DEF q
<1>3. Calm /\ Using /\ index = 0 /\ seen = "none"
  BY <1>2, AtRest
<1>4. Calm' /\ Using'
  BY <1>1, <1>3 DEF Calm, Using, TypeOK, Once, DefaultNameless, Home, Settled, Honest
<1>5. CASE conf.fver
  <2>1. AtEnd'
    BY <1>1, <1>4, <1>5 DEF AtEnd
  <2> QED
    BY <2>1, EndInv, PTL
<1>6. CASE ~conf.fver
  <2> DEFINE c == [conf EXCEPT !.fver = TRUE]
  <2>1. c \in Conf /\ c.cam = conf.cam /\ c.sys = conf.sys
    BY <1>3, TypeFacts DEF Calm, Conf
  <2>2. todo' = settings_save(c)
    BY <1>1, <1>6
  <2> HIDE DEF c
  <2>3. \A d : settings_save(d)' = settings_save(d)
    BY <1>1 DEF settings_save, WriteConf, WriteCam, DefaultOf, ClearsAuto
  <2>4. AtSave'
    BY <1>1, <1>3, <1>4, <2>1, <2>2, <2>3 DEF AtSave
  <2> QED
    BY <2>4, SaveInv, PTL
<1> QED
  BY <1>5, <1>6

\* History, type by type.
History == [junk : BOOLEAN, reset : BOOLEAN, mixed : BOOLEAN, wiped : BOOLEAN,
            tested : BOOLEAN]

\* A handler that leaves the EEPROM to its script begins as calm as it found it.
LEMMA CalmNext ==
    ASSUME Calm, ee' = ee, index' = index, conf' \in Conf,
           conf'.cam.serial = conf.cam.serial,
           timer' \in {"program", "junk"}, seen' \in Serials \cup {"", "none"},
           hist' \in History, hist.tested => hist'.tested,
           ~hist'.junk => /\ ~hist.junk /\ timer' = "program"
                          /\ conf'.sys # "junk" /\ conf'.cam.val # "junk"
                          /\ Honest(conf.cam)'
    PROVE  Calm'
<1>1. TypeOK'
  BY DEF Calm, TypeOK, History
<1>2. Once' /\ DefaultNameless'
  BY DEF Calm, Once, DefaultNameless
<1>3. conf'.cam.serial = Home'.serial
  BY DEF Calm, Home
<1>4. ASSUME ~hist'.junk
      PROVE  Settled'
  <2>1. Settled
    BY <1>4 DEF Calm
  <2>2. /\ ConfClean(ee.conf)
        /\ \A i \in Slots : CamClean(ee.cams[i]) /\ Honest(ee.cams[i])
        /\ \A j \in 0 .. MaxStored : ProgClean(j, ee.progs[j])
    BY <2>1 DEF Settled
  <2>3. \A i \in Slots : Honest(ee.cams[i])'
    BY <2>2 DEF Honest
  <2>4. /\ ConfClean(ee.conf)' /\ (\A i \in Slots : CamClean(ee.cams[i])')
        /\ \A j \in 0 .. MaxStored : ProgClean(j, ee.progs[j])'
    BY <2>2 DEF ConfClean, CamClean, ProgClean
  <2> QED
    BY <1>4, <2>3, <2>4 DEF Settled
<1> QED
  BY <1>1, <1>2, <1>3, <1>4 DEF Calm

\* The same when RAM is left alone too.
LEMMA CalmSame ==
    ASSUME Calm, ee' = ee, index' = index, conf' = conf, timer' = timer,
           seen' \in Serials \cup {"", "none"}, hist' \in History,
           hist'.tested = hist.tested, hist'.junk = hist.junk
    PROVE  Calm'
<1>1. conf' \in Conf /\ conf'.cam.serial = conf.cam.serial /\ timer' \in {"program", "junk"}
  BY TypeFacts DEF Calm
<1>2. ASSUME ~hist'.junk
      PROVE  /\ ~hist.junk /\ timer' = "program" /\ conf'.sys # "junk"
             /\ conf'.cam.val # "junk" /\ Honest(conf.cam)'
  <2>1. ~hist.junk /\ Settled
    BY <1>2 DEF Calm
  <2> QED
    BY <2>1 DEF Settled, Honest
<1> QED
  BY <1>1, <1>2, CalmNext

\* Between two handlers.
LEMMA IdleFacts ==
    ASSUME StoreInv, Idle
    PROVE  /\ Calm /\ Using /\ TypeOK /\ Once
           /\ hist \in History /\ seen \in Serials \cup {"", "none"}
           /\ ~hist.junk => Settled
<1>1. Calm /\ Using
  BY AtRest DEF Idle
<1> QED
  BY <1>1 DEF Calm, TypeOK, History

\* What Quiet and the other handlers do to history.
LEMMA QuietFacts ==
    ASSUME hist \in History, hist' = [hist EXCEPT !.wiped = FALSE]
    PROVE  /\ hist' \in History /\ hist'.junk = hist.junk /\ hist'.reset = hist.reset
           /\ hist'.mixed = hist.mixed /\ hist'.tested = hist.tested
  BY DEF History

\* The slot in use is still that of the camera that is there.
LEMMA UsingSame ==
    ASSUME Using, ee' = ee, index' = index, seen' = seen, hist'.mixed = hist.mixed,
           hist'.reset = hist.reset
    PROVE  Using'
  BY DEF Using

\* Discard.
LEMMA DiscardKeeps ==
    ASSUME StoreInv, Discard
    PROVE  StoreInv'
<1>1. /\ Idle /\ todo' = <<<<"load">>>> /\ UNCHANGED <<ee, index, conf, timer, seen>>
      /\ hist' = [hist EXCEPT !.wiped = FALSE]
  BY DEF Discard, Do, Quiet
<1>2. Calm' /\ Using'
  BY <1>1, IdleFacts, QuietFacts, CalmSame, UsingSame
<1>3. AtLoad'
  BY <1>1, <1>2 DEF AtLoad
<1> QED
  BY <1>3, LoadInv, PTL

\* SaveProgram.
LEMMA SaveProgramKeeps ==
    ASSUME StoreInv, NEW j \in 0 .. MaxStored, SaveProgram(j)
    PROVE  StoreInv'
<1> DEFINE p == [name |-> "used", body |-> timer]
<1>1. /\ Idle /\ todo' = <<WriteProg(j, p)>> /\ UNCHANGED <<ee, index, conf, timer, seen>>
      /\ hist' = [hist EXCEPT !.wiped = FALSE]
  BY DEF SaveProgram, Do, Quiet, WriteProgram, WriteProg
<1>2. Calm' /\ Using' /\ hist'.junk = hist.junk
  BY <1>1, IdleFacts, QuietFacts, CalmSame, UsingSame
<1>3. p \in Program /\ (~hist.junk => ProgClean(j, p))
  <2>1. timer \in {"program", "junk"} /\ (~hist.junk => timer = "program")
    BY <1>1, IdleFacts, TypeFacts DEF Settled
  <2> QED
    BY <2>1 DEF Program, ProgClean
<1> HIDE DEF p
<1>4. AtProgram'
  BY <1>1, <1>2, <1>3 DEF AtProgram
<1> QED
  BY <1>4, ProgramInv, PTL

\* LoadProgram.
LEMMA LoadProgramKeeps ==
    ASSUME StoreInv, NEW j \in 0 .. MaxStored - 1, LoadProgram(j)
    PROVE  StoreInv'
<1>1. /\ Idle /\ todo' = <<>> /\ UNCHANGED <<ee, index, conf, seen>>
      /\ timer' = ee.progs[j].body /\ j \in Shown
      /\ hist' = [hist EXCEPT !.wiped = FALSE]
  BY DEF LoadProgram, Do, Quiet
<1>2. Using' /\ hist' \in History /\ hist'.tested = hist.tested /\ hist'.junk = hist.junk
  BY <1>1, IdleFacts, QuietFacts, UsingSame
<1>3. j \in 0 .. MaxStored /\ j \in 0 .. 2
  BY <1>1, StoredAssumption DEF Shown
<1>4. timer' \in {"program", "junk"} /\ (~hist.junk => timer' = "program")
  <2>1. ee.progs[j] \in Program
    BY <1>1, <1>3, IdleFacts, TypeFacts
  <2>2. ~hist.junk => ee.progs[j].body = "program"
    BY <1>1, <1>3, IdleFacts DEF Settled, ProgClean
  <2> QED
    BY <1>1, <2>1, <2>2 DEF Program
<1>5. Calm'
  <2>1. conf' \in Conf /\ conf'.cam.serial = conf.cam.serial
    BY <1>1, IdleFacts, TypeFacts
  <2>2. ASSUME ~hist'.junk
        PROVE  /\ ~hist.junk /\ timer' = "program" /\ conf'.sys # "junk"
               /\ conf'.cam.val # "junk" /\ Honest(conf.cam)'
    <3>1. ~hist.junk /\ Settled
      BY <1>1, <1>2, <2>2, IdleFacts
    <3> QED
      BY <1>1, <1>2, <1>4, <3>1 DEF Settled, Honest
  <2> QED
    BY <1>1, <1>2, <1>4, <2>1, <2>2, IdleFacts, CalmNext
<1>6. AtEnd'
  BY <1>1, <1>2, <1>5 DEF AtEnd
<1> QED
  BY <1>6, EndInv, PTL

\* DeleteProgram.
LEMMA DeleteProgramKeeps ==
    ASSUME StoreInv, NEW j \in 0 .. MaxStored - 1, DeleteProgram(j)
    PROVE  StoreInv'
<1>1. PICK name \in {"free", "used"} : Do(<<NameProgram(ee, j, name)>>)
  BY DEF DeleteProgram
<1> DEFINE p == [ee.progs[j] EXCEPT !.name = name]
<1>2. /\ Idle /\ todo' = <<WriteProg(j, p)>> /\ UNCHANGED <<ee, index, conf, timer, seen>>
      /\ hist' = [hist EXCEPT !.wiped = FALSE] /\ j \in Shown
  BY <1>1 DEF DeleteProgram, Do, Quiet, NameProgram, WriteProg
<1>3. Calm' /\ Using' /\ hist'.junk = hist.junk
  BY <1>2, IdleFacts, QuietFacts, CalmSame, UsingSame
<1>4. j \in 0 .. MaxStored /\ j \in 0 .. 2
  BY <1>2, StoredAssumption DEF Shown
<1>5. p \in Program /\ (~hist.junk => ProgClean(j, p))
  <2>1. ee.progs[j] \in Program
    BY <1>2, <1>4, IdleFacts, TypeFacts
  <2>2. ~hist.junk => ee.progs[j].body = "program"
    BY <1>2, <1>4, IdleFacts DEF Settled, ProgClean
  <2> QED
    BY <2>1, <2>2 DEF Program, ProgClean
<1> HIDE DEF p
<1>6. AtProgram'
  BY <1>2, <1>3, <1>4, <1>5 DEF AtProgram
<1> QED
  BY <1>6, ProgramInv, PTL

\* The scripts that save depend on nothing else.
LEMMA SaveNext ==
    ASSUME ee' = ee, index' = index
    PROVE  \A c : settings_update(c)' = settings_update(c)
  BY DEF settings_update, settings_save, WriteConf, WriteCam, DefaultOf, ClearsAuto

\* EditCamera and EditSystem.
LEMMA EditKeeps ==
    ASSUME StoreInv, EditCamera \/ EditSystem
    PROVE  StoreInv'
<1>1. PICK c : /\ c = [conf EXCEPT !.cam.val = "mine"] \/ c = conf
               /\ Edit(c)
  BY DEF EditCamera, EditSystem
<1>2. /\ Idle /\ todo' = settings_update(c) /\ UNCHANGED <<ee, index, timer, seen>>
      /\ conf' = c /\ hist' = [hist EXCEPT !.wiped = FALSE]
  BY <1>1 DEF Edit, Do, Quiet
<1>3. /\ c \in Conf /\ c.sys = conf.sys /\ c.cam.serial = conf.cam.serial
      /\ c.cam.val = "mine" \/ c.cam.val = conf.cam.val
      /\ c.cam.auto = conf.cam.auto
  <2>1. conf \in Conf /\ conf.cam \in Camera
    BY <1>2, IdleFacts, TypeFacts
  <2>2. CASE c = conf
    BY <2>1, <2>2
  <2>3. CASE c = [conf EXCEPT !.cam.val = "mine"]
    <3> DEFINE v == [conf.cam EXCEPT !.val = "mine"]
    <3>1. v \in Camera /\ v.serial = conf.cam.serial /\ v.val = "mine" /\ v.auto = conf.cam.auto
      BY <2>1 DEF Camera, Values
    <3>2. c = [conf EXCEPT !.cam = v]
      BY <2>1, <2>3 DEF Conf
    <3> HIDE DEF v
    <3>3. c \in Conf /\ c.cam = v /\ c.sys = conf.sys
      BY <2>1, <3>1, <3>2 DEF Conf
    <3> QED
      BY <3>1, <3>3
  <2> QED
    BY <1>1, <2>2, <2>3
<1>4. /\ Using' /\ hist' \in History /\ hist'.tested = hist.tested
      /\ hist'.junk = hist.junk
  BY <1>2, IdleFacts, QuietFacts, UsingSame
<1>5. Calm'
  <2>1. timer' \in {"program", "junk"}
    BY <1>2, IdleFacts, TypeFacts
  <2>2. ASSUME ~hist'.junk
        PROVE  /\ ~hist.junk /\ timer' = "program" /\ conf'.sys # "junk"
               /\ conf'.cam.val # "junk" /\ Honest(conf.cam)'
    <3>1. ~hist.junk /\ Settled
      BY <1>2, <1>4, <2>2, IdleFacts
    <3> QED
      BY <1>2, <1>3, <1>4, <3>1 DEF Settled, Honest
  <2> QED
    BY <1>2, <1>3, <1>4, <2>1, <2>2, IdleFacts, CalmNext
<1>6. AtSave'
  <2>1. todo' = settings_update(c)' /\ c \in Conf /\ c.cam = conf'.cam /\ c.sys = conf'.sys
    BY <1>2, <1>3, SaveNext
  <2> QED
    BY <1>4, <1>5, <2>1 DEF AtSave
<1> QED
  BY <1>6, SaveInv, PTL

\* AutoConfigure.
LEMMA AutoConfigureKeeps ==
    ASSUME StoreInv, NEW pass \in BOOLEAN, AutoConfigure(pass)
    PROVE  StoreInv'
<1> DEFINE new(val) == [conf EXCEPT !.cam.val = val, !.cam.auto = @ \/ pass]
<1>1. PICK val \in {"mine", "junk"} :
         /\ conf' = new(val) /\ Do(IF pass THEN settings_update(new(val)) ELSE <<>>)
         /\ hist' = [hist EXCEPT !.wiped = FALSE, !.junk = @ \/ val = "junk",
                                 !.tested = @ \/ (pass /\ conf.cam.serial = Followed)]
         /\ UNCHANGED <<timer, seen>>
  BY Zenon DEF AutoConfigure
<1> DEFINE c == new(val)
<1>2. /\ Idle /\ UNCHANGED <<ee, index, timer, seen>> /\ conf' = c
      /\ todo' = IF pass THEN settings_update(c) ELSE <<>>
  BY <1>1 DEF Do
<1>3. /\ c \in Conf /\ c.sys = conf.sys /\ c.cam.serial = conf.cam.serial
      /\ c.cam.val = val /\ c.cam.auto = (conf.cam.auto \/ pass)
  <2>1. conf \in Conf /\ conf.cam \in Camera /\ conf.cam.auto \in BOOLEAN
    BY <1>2, IdleFacts, TypeFacts DEF Camera
  <2> DEFINE b == conf.cam.auto \/ pass
             v == [conf.cam EXCEPT !.val = val, !.auto = b]
  <2>2. b \in BOOLEAN /\ val \in Values
    BY DEF Values
  <2>3. c = [conf EXCEPT !.cam = v]
    BY <2>1 DEF Conf, Camera
  <2> HIDE DEF b, c
  <2>4. v \in Camera /\ v.serial = conf.cam.serial /\ v.val = val /\ v.auto = b
    BY <2>1, <2>2 DEF Camera
  <2> HIDE DEF v
  <2>5. c \in Conf /\ c.cam = v /\ c.sys = conf.sys
    BY <2>1, <2>3, <2>4 DEF Conf
  <2> QED
    BY <2>4, <2>5 DEF b
<1> HIDE DEF c
<1>4. /\ hist' \in History /\ hist'.mixed = hist.mixed /\ hist'.reset = hist.reset
      /\ hist'.junk = (hist.junk \/ val = "junk")
      /\ hist'.tested = (hist.tested \/ (pass /\ conf.cam.serial = Followed))
  <2> DEFINE b == hist.junk \/ val = "junk"
             t == hist.tested \/ (pass /\ conf.cam.serial = Followed)
  <2>1. hist \in History /\ hist.junk \in BOOLEAN /\ hist.tested \in BOOLEAN
    BY <1>2, IdleFacts DEF History
  <2>2. b \in BOOLEAN /\ t \in BOOLEAN
    BY <2>1
  <2>3. hist' = [hist EXCEPT !.wiped = FALSE, !.junk = b, !.tested = t]
    BY <1>1
  <2> HIDE DEF b, t
  <2>4. /\ hist' \in History /\ hist'.mixed = hist.mixed /\ hist'.reset = hist.reset
        /\ hist'.junk = b /\ hist'.tested = t
    BY <2>1, <2>2, <2>3 DEF History
  <2> QED
    BY <2>4 DEF b, t
<1>5. Using'
  BY <1>2, <1>4, IdleFacts, UsingSame
<1>6. Calm'
  <2>1. timer' \in {"program", "junk"} /\ seen' \in Serials \cup {"", "none"}
    BY <1>2, IdleFacts, TypeFacts
  <2>2. hist.tested => hist'.tested
    BY <1>4
  <2>3. ASSUME ~hist'.junk
        PROVE  /\ ~hist.junk /\ timer' = "program" /\ conf'.sys # "junk"
               /\ conf'.cam.val # "junk" /\ Honest(conf.cam)'
    <3>1. ~hist.junk /\ val # "junk" /\ Settled
      BY <1>2, <1>4, <2>3, IdleFacts
    <3>2. timer' = "program" /\ conf'.sys # "junk" /\ conf'.cam.val # "junk"
      BY <1>2, <1>3, <3>1 DEF Settled
    <3>3. Honest(conf.cam)'
      BY <1>2, <1>3, <1>4, <3>1 DEF Settled, Honest
    <3> QED
      BY <3>1, <3>2, <3>3
  <2> QED
    BY <1>2, <1>3, <1>4, <2>1, <2>2, <2>3, IdleFacts, CalmNext
<1>7. CASE pass
  <2>0. PICK d \in Conf : d = c
    BY <1>3
  <2>1. todo' = settings_update(d)' /\ d \in Conf /\ d.cam = conf'.cam /\ d.sys = conf'.sys
    <3>1. settings_update(d)' = settings_update(d)
      BY <1>2, SaveNext
    <3> QED
      BY <1>2, <1>3, <1>7, <2>0, <3>1
  <2>2. AtSave'
    BY <1>5, <1>6, <2>1 DEF AtSave
  <2> QED
    BY <2>2, SaveInv, PTL
<1>8. CASE ~pass
  <2>1. AtEnd'
    BY <1>2, <1>5, <1>6, <1>8 DEF AtEnd
  <2> QED
    BY <2>1, EndInv, PTL
<1> QED
  BY <1>7, <1>8

\* The last of a set of slots is one of them.
LEMMA MaxIn ==
    ASSUME NEW n \in Nat, NEW T \in SUBSET (1 .. n), T # {}
    PROVE  Max(T) \in T
<1>0. \A x \in T : x \in Int
  OBVIOUS
<1> DEFINE R == OpToRel(<, Nat)
           U == {n - x : x \in T}
<1>1. IsWellFoundedOn(R, Nat)
  BY NatLessThanWellFounded
<1>2. U \subseteq Nat /\ U # {}
  <2>1. \A x \in T : n - x \in Nat
    OBVIOUS
  <2>2. PICK x \in T : TRUE
    OBVIOUS
  <2>3. n - x \in U
    OBVIOUS
  <2> QED
    BY <2>1, <2>3
<1>3. \A x, y \in Nat : x < y => <<x, y>> \in R
  BY DEF OpToRel
<1> HIDE DEF R
<1>4. PICK u \in U : \A y \in U : ~(<<y, u>> \in R)
  BY <1>1, <1>2, WFMin
<1>5. PICK x \in T : u = n - x
  OBVIOUS
<1>6. ASSUME NEW y \in T
      PROVE  x >= y
  <2>1. x \in Int /\ y \in Int /\ n \in Int
    BY <1>0
  <2>2. n - y \in U /\ n - y \in Nat /\ u \in Nat
    BY <1>2
  <2>3. ~(n - y < u)
    BY <1>3, <1>4, <2>2
  <2> HIDE DEF U
  <2> QED
    BY <1>5, <2>1, <2>3
<1> QED
  BY <1>6 DEF Max

\* Where the record of a camera goes.
LEMMA NewSlotEmpty ==
    ASSUME TypeOK
    PROVE  NewSlot \in Slots /\ Empty(NewSlot)
<1>1. MaxCameras \in Nat \ {0} /\ Slots = 1 .. MaxCameras
  BY StoredAssumption DEF Slots
<1>2. CASE Known("") = {}
  <2>1. NewSlot = MaxCameras
    BY <1>2 DEF NewSlot
  <2>2. MaxCameras \in Slots
    BY <1>1
  <2> QED
    BY <1>2, <2>1, <2>2 DEF Empty
<1>3. CASE Known("") # {}
  <2> DEFINE T == Known("")
  <2>1. T \in SUBSET (1 .. MaxCameras)
    BY <1>1 DEF Known
  <2>2. NewSlot = Max(T)
    BY <1>3 DEF NewSlot
  <2> HIDE DEF T
  <2>3. Max(T) \in T
    BY <1>1, <1>3, <2>1, MaxIn DEF T
  <2>4. NewSlot \in Known("")
    BY <2>2, <2>3 DEF T
  <2> QED
    BY <2>4 DEF Known, Empty
<1> QED
  BY <1>2, <1>3

\* Where its record is.
LEMMA FoundIn ==
    ASSUME TypeOK, Once, NEW s \in Serials, Found(s) # {}
    PROVE  Min(Found(s)) \in Slots /\ ee.cams[Min(Found(s))].serial = s
<1> DEFINE T == Found(s)
<1>1. T = {i \in Slots : ee.cams[i].serial = s}
  BY DEF Found, Known
<1>2. PICK i \in T : TRUE
  OBVIOUS
<1>3. i \in Slots /\ i \in Int /\ \A j \in T : j = i
  <2>1. i \in Slots /\ \A j \in T : j = i
    BY <1>1, <1>2 DEF Once
  <2>2. i \in Int
    BY <2>1, StoredAssumption DEF Slots
  <2> QED
    BY <2>1, <2>2
<1> HIDE DEF T
<1>4. Min(T) \in T
  <2>1. \A j \in T : i <= j
    BY <1>3
  <2> QED
    BY <1>2, <2>1 DEF Min
<1>5. Min(Found(s)) \in {j \in Slots : ee.cams[j].serial = s}
  BY <1>1, <1>4 DEF T
<1> QED
  BY <1>5

\* A camera with a serial number came: its slot comes into use.
LEMMA CameraCame ==
    ASSUME StoreInv, Idle, NEW s \in Serials, Calm',
           todo' = settings_setup_camera_index(s), seen' = s, ee' = ee
    PROVE  StoreInv'
<1>1. TypeOK /\ Once
  BY IdleFacts
<1>2. s # "" /\ \A i \in Slots : i \in 0 .. MaxCameras /\ i # 0
  <2>1. s # ""
    BY SerialsAssumption, Zenon
  <2>2. \A i \in Slots : i \in 0 .. MaxCameras /\ i # 0
    BY StoredAssumption DEF Slots
  <2> QED
    BY <2>1, <2>2
<1>3. CASE Found(s) # {}
  <2> DEFINE i == Min(Found(s))
  <2>1. i \in Slots /\ ee.cams[i].serial = s
    BY <1>1, <1>3, FoundIn
  <2>2. todo' = <<<<"index", i>>, <<"load">>>>
    BY <1>2, <1>3 DEF settings_setup_camera_index
  <2> HIDE DEF i
  <2>3. AtHop'
    BY <1>2, <2>1, <2>2 DEF AtHop
  <2> QED
    BY <2>3, HopInv, PTL
<1>4. CASE Found(s) = {}
  <2>1. PICK i \in Slots : i = NewSlot /\ Empty(i)
    BY <1>1, NewSlotEmpty
  <2> DEFINE v == [ee.conf.cam EXCEPT !.serial = s]
  <2>2. todo' = <<WriteCam(i, v), <<"index", i>>, <<"load">>>>
    BY <1>2, <1>4, <2>1 DEF settings_setup_camera_index
  <2>3. Empty(i)'
    BY <2>1 DEF Empty, Known
  <2>4. \A j \in Slots : ee'.cams[j].serial # seen'
    BY <1>4 DEF Found, Known
  <2>5. v = [ee'.conf.cam EXCEPT !.serial = seen']
    OBVIOUS
  <2> HIDE DEF v
  <2>6. todo' = <<WriteCam(i, [ee'.conf.cam EXCEPT !.serial = seen']), <<"index", i>>,
                  <<"load">>>>
    BY <2>2, <2>5
  <2>7. AtHop'
    BY <1>2, <2>1, <2>3, <2>4, <2>6, Zenon DEF AtHop, WriteCam
  <2> QED
    BY <2>7, HopInv, PTL
<1> QED
  BY <1>3, <1>4


\* What a camera may give as its serial number.
Owners == Serials \cup {""}

\* A camera came, with a serial number or without, and took the place of none or of one
\* that is known to be gone.
LEMMA CameraHere ==
    ASSUME StoreInv, Idle, NEW s \in Owners, UNCHANGED <<ee, index, conf, timer>>,
           todo' = settings_setup_camera_index(s), seen' = s, hist' \in History,
           hist'.tested = hist.tested, hist'.junk = hist.junk,
           s = "" /\ index > 0 => hist'.mixed
    PROVE  StoreInv'
<1>1. seen' \in Serials \cup {"", "none"}
  BY Zenon DEF Owners
<1>2. Calm'
  BY <1>1, IdleFacts, CalmSame
<1>3. CASE s \in Serials
  BY <1>2, <1>3, CameraCame
<1>4. CASE s = ""
  <2>1. seen' # "none" /\ seen' \notin Serials
    <3>1. seen' # "none"
      BY <1>4
    <3>2. seen' \notin Serials
      BY <1>4, SerialsAssumption, Zenon
    <3> QED
      BY <3>1, <3>2
  <2>2. Using'
    <3>1. index' > 0 => hist'.mixed
      BY <1>4
    <3> QED
      BY <2>1, <3>1, Zenon DEF Using
  <2>3. todo' = <<>>
    BY <1>4 DEF settings_setup_camera_index
  <2>4. AtEnd'
    BY <1>2, <2>2, <2>3 DEF AtEnd
  <2> QED
    BY <2>4, EndInv, PTL
<1> QED
  BY <1>3, <1>4, Zenon DEF Owners

\* CameraFound.
LEMMA CameraFoundKeeps ==
    ASSUME StoreInv, NEW s \in Owners, CameraFound(s)
    PROVE  StoreInv'
<1>1. /\ Idle /\ seen = "none" /\ UNCHANGED <<ee, index, conf, timer>>
      /\ todo' = settings_setup_camera_index(s) /\ seen' = s
      /\ hist' = [hist EXCEPT !.wiped = FALSE, !.reset = FALSE]
  BY DEF CameraFound, Do
<1>2. hist \in History /\ ~(index > 0)
  <2>1. hist \in History /\ Using
    BY <1>1, IdleFacts
  <2>2. index = 0
    BY <1>1, <2>1 DEF Using
  <2> QED
    BY <2>1, <2>2
<1>3. hist' \in History /\ hist'.tested = hist.tested /\ hist'.junk = hist.junk
  BY <1>1, <1>2 DEF History
<1> QED
  BY <1>1, <1>2, <1>3, CameraHere

\* CameraBack.
LEMMA CameraBackKeeps ==
    ASSUME StoreInv, NEW s \in Owners, CameraBack(s)
    PROVE  StoreInv'
<1> DEFINE b == s = "" /\ index > 0
<1>1. /\ Idle /\ UNCHANGED <<ee, index, conf, timer>>
      /\ todo' = settings_setup_camera_index(s) /\ seen' = s
      /\ hist' = [hist EXCEPT !.wiped = FALSE, !.reset = FALSE, !.mixed = b]
  BY DEF CameraBack, Do
<1>2. b \in BOOLEAN
  OBVIOUS
<1> HIDE DEF b
<1>3. /\ hist' \in History /\ hist'.tested = hist.tested /\ hist'.junk = hist.junk
      /\ hist'.mixed = b
  <2>1. hist \in History
    BY <1>1, IdleFacts
  <2> QED
    BY <1>1, <1>2, <2>1 DEF History
<1>4. s = "" /\ index > 0 => hist'.mixed
  BY <1>3 DEF b
<1> QED
  BY <1>1, <1>3, <1>4, CameraHere

\* CameraGone.
LEMMA CameraGoneKeeps ==
    ASSUME StoreInv, CameraGone
    PROVE  StoreInv'
<1>1. /\ Idle /\ UNCHANGED <<ee, index, conf, timer>> /\ seen' = "none"
      /\ todo' = <<<<"index", 0>>, <<"load">>>>
      /\ hist' = [hist EXCEPT !.wiped = FALSE, !.reset = FALSE, !.mixed = FALSE]
  BY DEF CameraGone, Do
<1>2. hist' \in History /\ hist'.tested = hist.tested /\ hist'.junk = hist.junk
  <2>1. hist \in History
    BY <1>1, IdleFacts
  <2> QED
    BY <1>1, <2>1 DEF History
<1>3. Calm'
  <2>1. seen' \in Serials \cup {"", "none"}
    BY <1>1
  <2> QED
    BY <1>1, <1>2, <2>1, IdleFacts, CalmSame
<1>4. 0 \in 0 .. MaxCameras
  BY StoredAssumption
<1>5. AtHop'
  BY <1>1, <1>3, <1>4 DEF AtHop
<1> QED
  BY <1>5, HopInv, PTL

\* FactoryReset.
LEMMA FactoryResetKeeps ==
    ASSUME StoreInv, FactoryReset
    PROVE  StoreInv'
<1> DEFINE d == settings_default
           a == setDefault(ee)
           m == <<<<"wiped">>>>
           l == Len(d)
           da == d \o a
<1>1. /\ Idle /\ UNCHANGED <<ee, index, conf, timer, seen, hist>> /\ todo' = da \o m
  BY DEF FactoryReset, Do
<1>2. Calm /\ Using /\ TypeOK
  BY <1>1, IdleFacts
<1>3. Resets(d, l)
  BY <1>2, DefaultResets, TypeFacts
<1>4. a \in Seq(Steps) /\ \A k \in 1 .. Len(a) : Base(a[k])
  BY <1>2, DefaultPrograms, TypeFacts
<1>5. m \in Seq(Steps) /\ Len(m) = 1 /\ m[1] = <<"wiped">> /\ Ends(m[1])
  <2>1. <<"wiped">> \in Steps
    BY AreSteps
  <2> QED
    BY <2>1 DEF Ends
<1> HIDE DEF d, a, m
<1>6. l \in Nat /\ d \in Seq(Steps)
  BY <1>3 DEF Resets
<1>7. Resets(da, l) /\ \A k \in l + 1 .. Len(da) : Base(da[k])
  <2>1. \A k \in l + 1 .. Len(d) : Base(d[k])
    BY <1>6
  <2> QED
    BY <1>3, <1>4, <1>6, <2>1, ResetsEnd
<1> HIDE DEF da, l
<1>8. Resets(da \o m, l)
  <2>1. \A k \in 1 .. Len(m) : k = Len(m) /\ Ends(m[k])
    BY <1>5
  <2> QED
    BY <1>5, <1>7, <2>1, ResetsEnd
<1>9. (\E n \in Nat : Resets(todo, n))'
  BY <1>1, <1>6, <1>8, ResetsNext
<1>10. todo'[Len(todo')] = <<"wiped">>
  <2> DEFINE q == da \o m
  <2>1. da \in Seq(Steps)
    BY <1>7 DEF Resets
  <2>2. /\ Len(q) = Len(da) + Len(m) /\ Len(da) \in Nat
        /\ \A k \in 1 .. Len(m) : q[Len(da) + k] = m[k]
    BY <1>5, <2>1, Joined
  <2> HIDE DEF q
  <2>3. q[Len(q)] = <<"wiped">>
    BY <1>5, <2>2
  <2> QED
    BY <1>1, <2>3 DEF q
<1>11. TypeOK' /\ Once' /\ DefaultNameless' /\ Using'
  BY <1>1, <1>2 DEF Calm, TypeOK, Once, DefaultNameless, Using
<1>12. ASSUME ~hist'.junk
       PROVE  /\ Versions' /\ (\A i \in Slots : Honest(ee.cams[i])') /\ Honest(conf.cam)'
              /\ ee'.conf.cam.val # "junk"
  <2>1. Settled
    BY <1>1, <1>2, <1>12 DEF Calm
  <2>2. ee.conf.cam.val # "junk" /\ Versions
    BY <2>1 DEF Settled, ConfClean, Versions
  <2>3. Versions'
    BY <1>1, <2>2 DEF Versions
  <2> QED
    BY <1>1, <2>1, <2>2, <2>3 DEF Settled, Honest
<1>13. Ends(todo'[Len(todo')]) /\ todo'[Len(todo')] # <<"main">>
  <2>1. <<"wiped">> # <<"main">>
    OBVIOUS
  <2> QED
    BY <1>10, <2>1 DEF Ends
<1>14. AtReset'
  BY <1>9, <1>11, <1>12, <1>13 DEF AtReset
<1> QED
  BY <1>14, ResetInv, PTL

-----------------------------------------------------------------------------
(* Power.                                                                  *)

\* A start from an EEPROM whose serial numbers are distinct and whose versions tell the
\* truth.
LEMMA RestartKeeps ==
    ASSUME NEW e \in Eeprom, Restart(e), e.conf.cam.serial \notin Serials,
           \A i, j \in Slots :
              e.cams[i].serial = e.cams[j].serial /\ e.cams[i].serial \in Serials => i = j,
           hist' \in History,
           ~hist'.junk => Versions' /\ \A i \in Slots : Honest(ee.cams[i])'
    PROVE  StoreInv'
<1>1. /\ ee' = e /\ conf' = Cleared /\ index' = 0 /\ timer' = "junk" /\ seen' = "none"
      /\ todo' = Boot(e)
  BY DEF Restart
<1>2. Cleared \in Conf /\ ~Cleared.cam.auto
  <2>1. Zeros \in Camera /\ ~Zeros.auto
    BY Zenon DEF Zeros, Camera, Values
  <2> QED
    BY <2>1 DEF Cleared, Conf
<1>3. TypeOK'
  <2>1. 0 \in 0 .. MaxCameras
    BY StoredAssumption
  <2>2. seen' \in Serials \cup {"", "none"}
    BY <1>1, Zenon
  <2> QED
    BY <1>1, <1>2, <2>1, <2>2 DEF TypeOK, History
<1>4. Once' /\ DefaultNameless'
  BY <1>1 DEF Once, DefaultNameless
<1>5. Honest(conf.cam)'
  BY <1>1, <1>2 DEF Honest
<1>6. todo' = Boot(ee')
  BY <1>1
<1>7. AtBoot'
  BY <1>1, <1>3, <1>4, <1>5, <1>6 DEF AtBoot
<1> QED
  BY <1>7, BootInv, PTL

\* What a loss of power leaves of history.
LEMMA CutHistory ==
    ASSUME hist \in History,
           hist' = [hist EXCEPT !.wiped = FALSE, !.reset = FALSE, !.mixed = FALSE]
    PROVE  hist' \in History /\ hist'.tested = hist.tested /\ hist'.junk = hist.junk
  BY DEF History

\* What the EEPROM holds of the invariant, at any time.
LEMMA KeptFacts ==
    ASSUME StoreInv
    PROVE  /\ TypeOK /\ SlotInv /\ Once /\ DefaultNameless /\ hist \in History
           /\ ~hist.junk => Versions /\ \A i \in Slots : Honest(ee.cams[i])
  BY DEF StoreInv, SlotInv, CleanInv, TypeOK, History

\* PowerCut.
LEMMA PowerCutKeeps ==
    ASSUME StoreInv, PowerCut
    PROVE  StoreInv'
<1>1. PICK e \in Eeprom : e = ee
  BY KeptFacts, TypeFacts
<1>2. /\ Restart(e) /\ ee' = ee
      /\ hist' = [hist EXCEPT !.wiped = FALSE, !.reset = FALSE, !.mixed = FALSE]
  BY <1>1 DEF PowerCut, Restart
<1>3. hist' \in History /\ hist'.tested = hist.tested /\ hist'.junk = hist.junk
  BY <1>2, KeptFacts, CutHistory
<1>4. /\ e.conf.cam.serial \notin Serials
      /\ \A i, j \in Slots :
            e.cams[i].serial = e.cams[j].serial /\ e.cams[i].serial \in Serials => i = j
  BY <1>1, KeptFacts DEF Once, DefaultNameless
<1>5. ASSUME ~hist'.junk
      PROVE  Versions' /\ \A i \in Slots : Honest(ee.cams[i])'
  <2>1. Versions /\ \A i \in Slots : Honest(ee.cams[i])
    BY <1>3, <1>5, KeptFacts
  <2>2. Versions'
    BY <1>2, <2>1 DEF Versions
  <2> QED
    BY <1>2, <1>3, <2>1, <2>2 DEF Honest
<1> QED
  BY <1>2, <1>3, <1>4, <1>5, RestartKeeps

\* The EEPROM as another firmware finds it, whose programs are laid out differently.
LEMMA NewProgramsOf ==
    ASSUME NEW e \in Eeprom, NEW f,
           f = [e EXCEPT !.conf.pver = FALSE, !.conf.fver = FALSE,
                         !.progs = [j \in DOMAIN @ |-> [@[j] EXCEPT !.body = "junk"]]]
    PROVE  /\ f \in Eeprom /\ f.cams = e.cams /\ f.conf.cam = e.conf.cam
           /\ f.conf.sys = e.conf.sys /\ f.conf.sver = e.conf.sver /\ ~f.conf.pver
<1> DEFINE c == [e.conf EXCEPT !.pver = FALSE, !.fver = FALSE]
           p == [j \in 0 .. MaxStored |-> [e.progs[j] EXCEPT !.body = "junk"]]
<1>1. e.conf \in Conf /\ e.progs \in [0 .. MaxStored -> Program] /\ e.cams \in [Slots -> Camera]
  BY DEF Eeprom
<1>2. c \in Conf /\ c.cam = e.conf.cam /\ c.sys = e.conf.sys /\ c.sver = e.conf.sver /\ ~c.pver
  BY <1>1 DEF Conf
<1>3. p \in [0 .. MaxStored -> Program]
  BY <1>1 DEF Program
<1>4. f = [e EXCEPT !.conf = c, !.progs = p]
  BY <1>1 DEF Eeprom, Conf
<1> HIDE DEF c, p
<1>5. f \in Eeprom /\ f.conf = c /\ f.cams = e.cams
  BY <1>1, <1>2, <1>3, <1>4 DEF Eeprom
<1> QED
  BY <1>2, <1>5

\* The same, whose settings are.
LEMMA NewSettingsOf ==
    ASSUME NEW e \in Eeprom, NEW f,
           f = [e EXCEPT !.conf.sver = FALSE, !.conf.fver = FALSE, !.conf.sys = "junk",
                         !.conf.cam.val = "junk",
                         !.cams = [i \in Slots |-> [@[i] EXCEPT !.serial = "junk",
                                                                 !.val = "junk"]]]
    PROVE  /\ f \in Eeprom /\ f.progs = e.progs /\ f.conf.cam.serial = e.conf.cam.serial
           /\ f.conf.pver = e.conf.pver /\ ~f.conf.sver
           /\ \A i \in Slots : f.cams[i].serial = "junk"
<1> DEFINE v == [e.conf.cam EXCEPT !.val = "junk"]
           c == [e.conf EXCEPT !.sver = FALSE, !.fver = FALSE, !.sys = "junk", !.cam = v]
           w == [i \in Slots |-> [e.cams[i] EXCEPT !.serial = "junk", !.val = "junk"]]
<1>1. /\ e.conf \in Conf /\ e.progs \in [0 .. MaxStored -> Program]
      /\ e.cams \in [Slots -> Camera] /\ e.conf.cam \in Camera
  BY DEF Eeprom, Conf
<1>2. v \in Camera /\ v.serial = e.conf.cam.serial
  BY <1>1 DEF Camera, Values
<1>3. w \in [Slots -> Camera] /\ \A i \in Slots : w[i].serial = "junk"
  BY <1>1 DEF Camera, Values
<1>4. f = [e EXCEPT !.conf = c, !.cams = w]
  BY <1>1 DEF Eeprom, Conf
<1> HIDE DEF v, w
<1>5. c \in Conf /\ c.cam = v /\ c.pver = e.conf.pver /\ ~c.sver
  BY <1>1, <1>2 DEF Conf
<1> HIDE DEF c
<1>6. f \in Eeprom /\ f.conf = c /\ f.cams = w /\ f.progs = e.progs
  BY <1>1, <1>3, <1>4, <1>5 DEF Eeprom
<1> QED
  BY <1>2, <1>3, <1>5, <1>6

\* NewFirmware.
LEMMA NewFirmwareKeeps ==
    ASSUME StoreInv, NewFirmware
    PROVE  /\ StoreInv'
           /\ \/ ee'.cams = ee.cams /\ ee'.conf.cam = ee.conf.cam
              \/ ~ee'.conf.sver /\ \A i \in Slots : ee'.cams[i].serial \notin Serials
<1>1. PICK e \in Eeprom : e = ee
  BY KeptFacts, TypeFacts
<1>2. PICK f :
         /\ Restart(f)
         /\ \/ f = [e EXCEPT !.conf.pver = FALSE, !.conf.fver = FALSE,
                             !.progs = [j \in DOMAIN @ |-> [@[j] EXCEPT !.body = "junk"]]]
            \/ f = [e EXCEPT !.conf.sver = FALSE, !.conf.fver = FALSE, !.conf.sys = "junk",
                             !.conf.cam.val = "junk",
                             !.cams = [i \in Slots |-> [@[i] EXCEPT !.serial = "junk",
                                                                     !.val = "junk"]]]
  BY <1>1, Zenon DEF NewFirmware
<1>3. ee' = f /\ hist' = [hist EXCEPT !.wiped = FALSE, !.reset = FALSE, !.mixed = FALSE]
  BY <1>2 DEF NewFirmware, Restart
<1>4. hist' \in History /\ hist'.tested = hist.tested /\ hist'.junk = hist.junk
  BY <1>3, KeptFacts, CutHistory
<1>5. /\ e.conf.cam.serial \notin Serials
      /\ \A i, j \in Slots :
            e.cams[i].serial = e.cams[j].serial /\ e.cams[i].serial \in Serials => i = j
      /\ ~hist'.junk => Versions /\ \A i \in Slots : Honest(ee.cams[i])
  BY <1>1, <1>4, KeptFacts DEF Once, DefaultNameless
<1>6. CASE f = [e EXCEPT !.conf.pver = FALSE, !.conf.fver = FALSE,
                         !.progs = [j \in DOMAIN @ |-> [@[j] EXCEPT !.body = "junk"]]]
  <2>1. /\ f \in Eeprom /\ f.cams = e.cams /\ f.conf.cam = e.conf.cam
        /\ f.conf.sys = e.conf.sys /\ f.conf.sver = e.conf.sver /\ ~f.conf.pver
    BY <1>6, NewProgramsOf
  <2> HIDE <1>2, <1>6
  <2>2. ~hist'.junk => Versions' /\ \A i \in Slots : Honest(ee.cams[i])'
    <3>1. ASSUME ~hist'.junk
          PROVE  Versions'
      BY <1>1, <1>3, <1>5, <2>1, <3>1 DEF Versions, ConfClean
    <3>2. ASSUME ~hist'.junk
          PROVE  \A i \in Slots : Honest(ee.cams[i])'
      BY <1>1, <1>3, <1>4, <1>5, <2>1, <3>2 DEF Honest
    <3> QED
      BY <3>1, <3>2
  <2>3. /\ f.conf.cam.serial \notin Serials
        /\ \A i, j \in Slots :
              f.cams[i].serial = f.cams[j].serial /\ f.cams[i].serial \in Serials => i = j
    BY <1>5, <2>1
  <2>4. Restart(f)
    BY <1>2
  <2> QED
    BY <1>1, <1>3, <1>4, <2>1, <2>2, <2>3, <2>4, RestartKeeps
<1>7. CASE f = [e EXCEPT !.conf.sver = FALSE, !.conf.fver = FALSE, !.conf.sys = "junk",
                         !.conf.cam.val = "junk",
                         !.cams = [i \in Slots |-> [@[i] EXCEPT !.serial = "junk",
                                                                 !.val = "junk"]]]
  <2>1. /\ f \in Eeprom /\ f.progs = e.progs /\ f.conf.cam.serial = e.conf.cam.serial
        /\ f.conf.pver = e.conf.pver /\ ~f.conf.sver
        /\ \A i \in Slots : f.cams[i].serial = "junk"
    BY <1>7, NewSettingsOf
  <2> HIDE <1>2, <1>7
  <2>2. "junk" \notin Serials /\ "junk" # Followed
    BY SerialsAssumption, Zenon
  <2>3. ~hist'.junk => Versions' /\ \A i \in Slots : Honest(ee.cams[i])'
    <3>1. ASSUME ~hist'.junk
          PROVE  Versions'
      BY <1>1, <1>3, <1>5, <2>1, <3>1 DEF Versions
    <3>2. \A i \in Slots : Honest(ee.cams[i])'
      BY <1>3, <2>1, <2>2 DEF Honest
    <3> QED
      BY <3>1, <3>2
  <2>4. /\ f.conf.cam.serial \notin Serials
        /\ \A i, j \in Slots :
              f.cams[i].serial = f.cams[j].serial /\ f.cams[i].serial \in Serials => i = j
    BY <1>5, <2>1, <2>2
  <2>5. Restart(f)
    BY <1>2
  <2> QED
    BY <1>3, <1>4, <2>1, <2>2, <2>3, <2>4, <2>5, RestartKeeps
<1> QED
  BY <1>2, <1>6, <1>7

\* Only the first k fields, those in N, are new.
TornBy(record, value, w, k, N) ==
    /\ k \in 1 .. Len(Order[record[1]]) - 1
    /\ N = {Order[record[1]][n] : n \in 1 .. k}
    /\ w = [f \in DOMAIN Old(record) |-> IF f \in N THEN value[f] ELSE Old(record)[f]]

\* That is what a torn record is.
LEMMA TornIs ==
    ASSUME NEW record, NEW value, NEW w \in Torn(record, value)
    PROVE  \E k, N : TornBy(record, value, w, k, N)
  BY Zenon DEF Torn, TornBy

\* Torn settings keep the default camera.
LEMMA TornConf ==
    ASSUME ee \in Eeprom, NEW c \in Conf, NEW w \in Torn(<<"conf">>, c)
    PROVE  w \in Conf /\ w.cam = ee.conf.cam
<1> DEFINE o == <<"sys", "sver", "pver", "fver", "cam">>
<1>1. PICK r : /\ r = <<"conf">> /\ w \in Torn(r, c)
             /\ r[1] = "conf" /\ Order["conf"] = o /\ Old(r) = ee.conf
  <2>1. PICK r : r = <<"conf">>
    OBVIOUS
  <2> QED
    BY <2>1 DEF Order, Old
<1>2. PICK k, N : TornBy(r, c, w, k, N)
  BY <1>1, TornIs
<1>3. PICK old \in Conf : old = ee.conf
  BY DEF Eeprom
<1>4. w = [f \in DOMAIN old |-> IF f \in N THEN c[f] ELSE old[f]]
  BY <1>1, <1>2, <1>3 DEF TornBy
<1>5. w \in Conf
  BY <1>4 DEF Conf
<1>6. "cam" \notin N
  <2>1. Len(o) = 5 /\ k \in 1 .. Len(o) - 1
    BY <1>1, <1>2 DEF TornBy
  <2>2. \A n \in 1 .. k : n = 1 \/ n = 2 \/ n = 3 \/ n = 4
    BY <2>1
  <2>3. \A n \in 1 .. k : o[n] # "cam"
    BY <2>2
  <2> QED
    BY <1>1, <1>2, <2>3 DEF TornBy
<1>7. w.cam = ee.conf.cam
  BY <1>3, <1>4, <1>6 DEF Conf
<1> QED
  BY <1>5, <1>7

\* A camera's torn record has the serial number already: it is written first.
LEMMA TornCam ==
    ASSUME ee \in Eeprom, NEW i \in Slots, NEW v \in Camera, NEW w \in Torn(<<"cams", i>>, v)
    PROVE  w \in Camera /\ w.serial = v.serial
<1> DEFINE o == <<"serial", "val", "auto">>
<1>1. PICK r : /\ r = <<"cams", i>> /\ w \in Torn(r, v)
             /\ r[1] = "cams" /\ Order["cams"] = o /\ Old(r) = ee.cams[i]
  <2>1. PICK r : r = <<"cams", i>>
    OBVIOUS
  <2> QED
    BY <2>1 DEF Order, Old
<1>2. PICK k, N : TornBy(r, v, w, k, N)
  BY <1>1, TornIs
<1>3. PICK old \in Camera : old = ee.cams[i]
  BY DEF Eeprom
<1>4. w = [f \in DOMAIN old |-> IF f \in N THEN v[f] ELSE old[f]]
  BY <1>1, <1>2, <1>3 DEF TornBy
<1>5. w \in Camera
  BY <1>4 DEF Camera
<1>6. "serial" \in N
  <2>1. 1 \in 1 .. k /\ o[1] = "serial"
    BY <1>1, <1>2 DEF TornBy
  <2> QED
    BY <1>1, <1>2, <2>1 DEF TornBy
<1>7. w.serial = v.serial
  BY <1>4, <1>6 DEF Camera
<1> QED
  BY <1>5, <1>7

\* A torn program is a program.
LEMMA TornProgram ==
    ASSUME ee \in Eeprom, NEW j \in 0 .. MaxStored, NEW p \in Program,
           NEW w \in Torn(<<"progs", j>>, p)
    PROVE  w \in Program
<1> DEFINE o == <<"name", "body">>
<1>1. PICK r : /\ r = <<"progs", j>> /\ w \in Torn(r, p)
             /\ r[1] = "progs" /\ Order["progs"] = o /\ Old(r) = ee.progs[j]
  <2>1. PICK r : r = <<"progs", j>>
    OBVIOUS
  <2> QED
    BY <2>1 DEF Order, Old
<1>2. PICK k, N : TornBy(r, p, w, k, N)
  BY <1>1, TornIs
<1>3. PICK old \in Program : old = ee.progs[j]
  BY DEF Eeprom
<1>4. w = [f \in DOMAIN old |-> IF f \in N THEN p[f] ELSE old[f]]
  BY <1>1, <1>2, <1>3 DEF TornBy
<1>5. w \in Program
  BY <1>4 DEF Program
<1> QED
  BY <1>5

\* The power goes within a record: what it leaves in the EEPROM.
LEMMA CutWithin ==
    ASSUME StoreInv, PowerCutWithin
    PROVE  \E e \in Eeprom :
              /\ Restart(e)
              /\ \/ e.conf.cam = ee.conf.cam /\ e.cams = ee.cams
                 \/ \E i \in Slots, v \in Camera, w \in Camera :
                       /\ todo[1] = WriteCam(i, v) /\ w.serial = v.serial
                       /\ e.conf = ee.conf /\ e.cams[i] = w
                       /\ \A j \in Slots : j # i => e.cams[j] = ee.cams[j]
<1>1. /\ todo[1] \in Steps /\ todo[1][1] = "write" /\ Head(todo) = todo[1] /\ TypeOK
      /\ \E w \in Torn(todo[1][2], todo[1][3]) : Restart(Written(todo[1][2], w))
  <2>1. /\ Doing("write")
        /\ \E w \in Torn(Head(todo)[2], Head(todo)[3]) : Restart(Written(Head(todo)[2], w))
    BY DEF PowerCutWithin
  <2>2. todo[1] \in Steps /\ todo[1][1] = "write" /\ Head(todo) = todo[1] /\ TypeOK
    BY <2>1, DoingFacts
  <2> QED
    BY <2>1, <2>2
<1>2. PICK w \in Torn(todo[1][2], todo[1][3]) : Restart(Written(todo[1][2], w))
  BY <1>1
<1>3. ee \in Eeprom
  BY <1>1, TypeFacts
<1>4. CASE \E c \in Conf : todo[1] = WriteConf(c)
  <2>1. PICK c \in Conf : todo[1] = WriteConf(c)
    BY <1>4
  <2>2. todo[1][2] = <<"conf">> /\ todo[1][3] = c
    BY <2>1, Parts
  <2>3. w \in Conf /\ w.cam = ee.conf.cam
    BY <1>2, <1>3, <2>2, TornConf
  <2>4. PICK e \in Eeprom : e = Written(<<"conf">>, w) /\ e.conf = w /\ e.cams = ee.cams
    BY <1>3, <2>3, WrittenFacts
  <2>5. Restart(e)
    BY <1>2, <2>2, <2>4
  <2> QED
    BY <2>3, <2>4, <2>5
<1>5. CASE \E i \in Slots, v \in Camera : todo[1] = WriteCam(i, v)
  <2>1. PICK i \in Slots, v \in Camera : todo[1] = WriteCam(i, v)
    BY <1>5
  <2>2. todo[1][2] = <<"cams", i>> /\ todo[1][3] = v
    BY <2>1, Parts
  <2>3. w \in Camera /\ w.serial = v.serial
    BY <1>2, <1>3, <2>2, TornCam
  <2>4. PICK e \in Eeprom :
           /\ e = Written(<<"cams", i>>, w) /\ e.conf = ee.conf /\ e.cams[i] = w
           /\ \A j \in Slots : j # i => e.cams[j] = ee.cams[j]
    BY <1>3, <2>3, WrittenFacts
  <2>5. Restart(e)
    BY <1>2, <2>2, <2>4
  <2> QED
    BY <2>1, <2>3, <2>4, <2>5
<1>6. CASE \E j \in 0 .. MaxStored, p \in Program : todo[1] = WriteProg(j, p)
  <2>1. PICK j \in 0 .. MaxStored, p \in Program : todo[1] = WriteProg(j, p)
    BY <1>6
  <2>2. todo[1][2] = <<"progs", j>> /\ todo[1][3] = p
    BY <2>1, Parts
  <2>3. w \in Program
    BY <1>2, <1>3, <2>2, TornProgram
  <2>4. PICK e \in Eeprom :
           e = Written(<<"progs", j>>, w) /\ e.conf = ee.conf /\ e.cams = ee.cams
    BY <1>3, <2>3, WrittenFacts
  <2>5. Restart(e)
    BY <1>2, <2>2, <2>4
  <2> QED
    BY <2>4, <2>5
<1> QED
  BY <1>1, <1>4, <1>5, <1>6, Kinds

\* The first step of a script writes a camera's record that has no serial number, or one
\* that fits its slot.
LEMMA FirstFits ==
    ASSUME StoreInv, todo # <<>>, NEW i \in Slots, NEW v \in Camera, todo[1] = WriteCam(i, v)
    PROVE  v.serial = "" \/ Fits(i, v)
<1>1. 1 \in 1 .. Len(todo) /\ CamWrites
  <2>1. todo \in Seq(Steps)
    BY DEF StoreInv
  <2> QED
    BY <2>1, Shift DEF StoreInv, SlotInv
<1>2. Puts(todo[1], <<"cams", i>>) /\ todo[1][3] = v
  BY PutsWhat, Parts
<1> QED
  BY <1>1, <1>2, Zenon DEF CamWrites

\* PowerCutWithin.
LEMMA CutWithinKeeps ==
    ASSUME StoreInv, PowerCutWithin
    PROVE  StoreInv'
<1>1. PICK e \in Eeprom :
         /\ Restart(e)
         /\ \/ e.conf.cam = ee.conf.cam /\ e.cams = ee.cams
            \/ \E i \in Slots, v \in Camera, w \in Camera :
                  /\ todo[1] = WriteCam(i, v) /\ w.serial = v.serial
                  /\ e.conf = ee.conf /\ e.cams[i] = w
                  /\ \A j \in Slots : j # i => e.cams[j] = ee.cams[j]
  BY CutWithin
<1>2. TypeOK /\ SlotInv /\ Once /\ DefaultNameless /\ hist \in History
  BY KeptFacts
<1>3. hist' \in History /\ hist'.junk
  <2>1. hist' = [hist EXCEPT !.junk = TRUE, !.wiped = FALSE, !.reset = FALSE, !.mixed = FALSE]
    BY DEF PowerCutWithin
  <2> QED
    BY <1>2, <2>1 DEF History
<1>4. e.conf.cam.serial \notin Serials
  BY <1>1, <1>2 DEF DefaultNameless
<1>5. \A i, j \in Slots :
         e.cams[i].serial = e.cams[j].serial /\ e.cams[i].serial \in Serials => i = j
  <2>1. CASE e.cams = ee.cams
    BY <1>2, <2>1 DEF Once
  <2>2. ASSUME NEW i \in Slots, NEW v \in Camera, NEW w \in Camera,
               todo[1] = WriteCam(i, v), w.serial = v.serial, e.cams[i] = w,
               \A j \in Slots : j # i => e.cams[j] = ee.cams[j]
        PROVE  \A k, j \in Slots :
                  e.cams[k].serial = e.cams[j].serial /\ e.cams[k].serial \in Serials => k = j
    <3>1. todo # <<>>
      BY DEF PowerCutWithin, Doing
    <3>2. v.serial = "" \/ Fits(i, v)
      BY <2>2, <3>1, FirstFits
    <3>3. w.serial = "" \/ Fits(i, w)
      <4>1. CASE v.serial = ""
        BY <2>2, <4>1
      <4>2. CASE Fits(i, v)
        BY <2>2, <4>2, Zenon DEF Fits
      <4> QED
        BY <3>2, <4>1, <4>2
    <3> QED
      BY <1>2, <2>2, <3>3, WriteCamOnce, ZenonT(60)
  <2> QED
    BY <1>1, <2>1, <2>2
<1> QED
  BY <1>1, <1>3, <1>4, <1>5, RestartKeeps

-----------------------------------------------------------------------------
(* The invariant, and what follows from it.                                *)

\* The EEPROM as it left its factory.
LEMMA InitInv == Init => StoreInv
<1> SUFFICES ASSUME Init
             PROVE  StoreInv
  OBVIOUS
<1> DEFINE v == [serial |-> "junk", val |-> "junk", auto |-> TRUE]
           c == [sys |-> "junk", sver |-> FALSE, pver |-> FALSE, fver |-> FALSE, cam |-> v]
           p == [name |-> "free", body |-> "junk"]
<1>1. /\ ee = [conf |-> c, cams |-> [i \in Slots |-> v], progs |-> [j \in 0 .. MaxStored |-> p]]
      /\ conf = Cleared /\ index = 0 /\ timer = "junk" /\ seen = "none" /\ todo = Boot(ee)
      /\ hist = [junk |-> FALSE, reset |-> FALSE, mixed |-> FALSE, wiped |-> FALSE,
                 tested |-> FALSE]
  BY DEF Init
<1>2. v \in Camera /\ v.serial = "junk"
  BY Zenon DEF Camera, Values
<1>3. p \in Program
  BY DEF Program
<1> HIDE DEF v, p
<1>4. c \in Conf /\ c.cam = v /\ ~c.sver /\ ~c.pver
  BY <1>2 DEF Conf
<1> HIDE DEF c
<1>5. /\ ee \in Eeprom /\ ee.conf = c /\ \A i \in Slots : ee.cams[i] = v
  BY <1>1, <1>2, <1>3, <1>4 DEF Eeprom
<1>6. Cleared \in Conf /\ ~Cleared.cam.auto
  <2>1. Zeros \in Camera /\ ~Zeros.auto
    BY Zenon DEF Zeros, Camera, Values
  <2> QED
    BY <2>1 DEF Cleared, Conf
<1>7. "junk" \notin Serials /\ "junk" # Followed
  BY SerialsAssumption, Zenon
<1>8. hist \in History
  BY <1>1 DEF History
<1>9. TypeOK
  <2>1. 0 \in 0 .. MaxCameras
    BY StoredAssumption
  <2>2. seen \in Serials \cup {"", "none"}
    BY <1>1, Zenon
  <2>3. conf \in Conf /\ index \in 0 .. MaxCameras /\ timer \in {"program", "junk"}
    BY <1>1, <1>6, <2>1
  <2> QED
    BY <1>5, <1>8, <2>2, <2>3, Zenon DEF TypeOK, History
<1>10. Once /\ DefaultNameless
  BY <1>2, <1>4, <1>5, <1>7 DEF Once, DefaultNameless
<1>11. Versions /\ (\A i \in Slots : Honest(ee.cams[i])) /\ Honest(conf.cam)
  BY <1>1, <1>2, <1>4, <1>5, <1>6, <1>7 DEF Versions, Honest
<1>12. AtBoot
  BY <1>1, <1>9, <1>10, <1>11 DEF AtBoot
<1> QED
  BY <1>12, BootInv

\* Nothing changes.
LEMMA StutterKeeps ==
    ASSUME StoreInv, UNCHANGED vars
    PROVE  StoreInv'
<1>1. /\ ee' = ee /\ conf' = conf /\ index' = index /\ timer' = timer /\ seen' = seen
      /\ todo' = todo /\ hist' = hist
  BY DEF vars
<1>2. TypeOK' /\ todo' \in Seq(Steps)
  BY <1>1 DEF StoreInv, TypeOK
<1>3. Once' /\ DefaultNameless' /\ Matched'
  BY <1>1 DEF StoreInv, SlotInv, Once, DefaultNameless, Matched, Home
<1>4. CamWrites'
  <2>1. \A i, v : Fits(i, v)' <=> Fits(i, v)
    BY <1>1, Zenon DEF Fits, Known
  <2>2. CamWrites
    BY DEF StoreInv, SlotInv
  <2> QED
    BY <1>1, <2>1, <2>2, Zenon DEF CamWrites
<1>5. ConfSteps' /\ Boots' /\ Hop' /\ InUse'
  BY <1>1 DEF StoreInv, SlotInv, ConfSteps, Keeps, Boots, Hop, InUse
<1>6. ~hist.junk => CleanInv'
  <2>1. ASSUME CleanInv
        PROVE  CleanInv'
    <3>1. (Versions /\ TimerClean /\ RamClean)'
      BY <1>1, <2>1 DEF CleanInv, Versions, TimerClean, RamClean
    <3>2. /\ \A v : Honest(v)' <=> Honest(v)
          /\ \A x : CleanStep(x)' <=> CleanStep(x)
          /\ Wholes' <=> Wholes
      BY <1>1 DEF Honest, CleanStep, Wholes, Whole, ConfWhole
    <3> QED
      BY <1>1, <2>1, <3>1, <3>2 DEF CleanInv
  <2> QED
    BY <2>1 DEF StoreInv
<1> QED
  BY <1>1, <1>2, <1>3, <1>4, <1>5, <1>6 DEF StoreInv, SlotInv

\* Every step keeps the invariant.
LEMMA NextKeeps ==
    ASSUME StoreInv, [Next]_vars
    PROVE  StoreInv'
<1>1. CASE Script
  <2>1. CASE WriteRecord
    BY <2>1, WriteKeeps
  <2>2. CASE SetConf
    BY <2>2, SetConfKeeps
  <2>3. CASE SetIndex
    BY <2>3, SetIndexKeeps
  <2>4. CASE settings_load
    BY <2>4, LoadKeeps
  <2>5. CASE SetProgram
    BY <2>5, SetProgramKeeps
  <2>6. CASE restoreCurrent
    BY <2>6, RestoreKeeps
  <2>7. CASE settings_init
    BY <2>7, InitKeeps
  <2>8. CASE FirmwareUpdated
    BY <2>8, MainKeeps
  <2>9. CASE Wiped
    BY <2>9, WipedKeeps
  <2> QED
    BY <1>1, <2>1, <2>2, <2>3, <2>4, <2>5, <2>6, <2>7, <2>8, <2>9 DEF Script
<1>2. CASE Handler
  <2>1. CASE \E s \in Serials \cup {""} : CameraFound(s) \/ CameraBack(s)
    <3>1. PICK s \in Owners : CameraFound(s) \/ CameraBack(s)
      BY <2>1, Zenon DEF Owners
    <3> QED
      BY <3>1, CameraFoundKeeps, CameraBackKeeps, Zenon
  <2>2. CASE CameraGone
    BY <2>2, CameraGoneKeeps
  <2>3. CASE EditCamera \/ EditSystem
    BY <2>3, EditKeeps
  <2>4. CASE Discard
    BY <2>4, DiscardKeeps
  <2>5. CASE \E pass \in BOOLEAN : AutoConfigure(pass)
    BY <2>5, AutoConfigureKeeps, Zenon
  <2>6. CASE FactoryReset
    BY <2>6, FactoryResetKeeps
  <2>7. CASE \E j \in 0 .. MaxStored : SaveProgram(j)
    BY <2>7, SaveProgramKeeps
  <2>8. CASE \E j \in 0 .. MaxStored - 1 : LoadProgram(j) \/ DeleteProgram(j)
    BY <2>8, LoadProgramKeeps, DeleteProgramKeeps
  <2> QED
    BY <1>2, <2>1, <2>2, <2>3, <2>4, <2>5, <2>6, <2>7, <2>8, Zenon DEF Handler
<1>3. CASE PowerCut
  BY <1>3, PowerCutKeeps
<1>4. CASE PowerCutWithin
  BY <1>4, CutWithinKeeps
<1>5. CASE NewFirmware
  BY <1>5, NewFirmwareKeeps
<1>6. CASE UNCHANGED vars
  BY <1>6, StutterKeeps
<1> QED
  BY <1>1, <1>2, <1>3, <1>4, <1>5, <1>6 DEF Next

\* The invariant holds of the EEPROM, of conf and of what the running handler still has
\* to do, through every handler, loss of power and change of firmware.
THEOREM StoreInvariant == Spec => []StoreInv
<1> QED
  BY InitInv, NextKeeps, PTL DEF Spec

\* Every record, program and index stays one that settings.h and shutter.h declare.
THEOREM StoreTypeCorrect == Spec => []TypeOK
<1>1. StoreInv => TypeOK
  BY DEF StoreInv
<1> QED
  BY <1>1, StoreInvariant, PTL

\* settings_setup_camera_index never gives a camera a second record.
THEOREM StoreSerialOnce == Spec => []SerialOnce
<1>1. ASSUME StoreInv
      PROVE  SerialOnce
  <2> SUFFICES ASSUME NEW s \in Serials
               PROVE  Cardinality(Known(s)) <= 1
    BY DEF SerialOnce
  <2>1. \A i, j \in Known(s) : i = j
    BY <1>1 DEF StoreInv, SlotInv, Once, Known
  <2> DEFINE K == Known(s)
  <2>2. CASE K = {}
    <3>1. Cardinality(K) = 0
      BY <2>2, FS_EmptySet
    <3> QED
      BY <3>1
  <2>3. CASE K # {}
    <3>1. PICK i : K = {i}
      BY <2>1, <2>3
    <3>2. Cardinality(K) = 1
      BY <3>1, FS_Singleton
    <3> QED
      BY <3>2
  <2> QED
    BY <2>2, <2>3
<1> QED
  BY <1>1, StoreInvariant, PTL

\* Between two handlers the record in use, and conf, are those of the camera connected.
THEOREM StoreOwnRecord == Spec => []OwnRecord
<1>1. ASSUME StoreInv
      PROVE  OwnRecord
  <2> SUFFICES ASSUME Idle, seen \in Serials, ~hist.reset
               PROVE  index \in Known(seen) /\ conf.cam.serial = seen
    BY DEF OwnRecord
  <2>1. Calm /\ Using /\ TypeOK
    BY <1>1, IdleFacts
  <2>2. index > 0 /\ ee.cams[index].serial = seen
    BY <2>1 DEF Using
  <2>3. index \in Slots
    BY <2>1, <2>2, TypeFacts
  <2> QED
    BY <2>1, <2>2, <2>3 DEF Calm, Home, Known
<1> QED
  BY <1>1, StoreInvariant, PTL

\* A record says its camera was tested only if autoConfigureCameraTiming passed with it.
THEOREM StoreTestedItself == Spec => []TestedItself
<1>1. ASSUME StoreInv
      PROVE  TestedItself
  BY <1>1, IdleFacts DEF TestedItself, Settled, Honest, Known
<1> QED
  BY <1>1, StoreInvariant, PTL

\* After a loss of power between two records, or another version, the firmware runs on
\* settings and programs that this version wrote.
THEOREM StoreRecovered == Spec => []Recovered
<1>1. ASSUME StoreInv
      PROVE  Recovered
  <2> SUFFICES ASSUME Idle, ~hist.junk
               PROVE  /\ "junk" \notin {conf.sys, conf.cam.val, timer}
                      /\ \A j \in Shown : ee.progs[j].body = "program"
                      /\ \A i \in Slots : ee.cams[i].serial \in Serials \cup {""}
                                          /\ ee.cams[i].val # "junk"
    BY DEF Recovered
  <2>1. Settled /\ TypeOK
    BY <1>1, IdleFacts
  <2>2. "junk" \notin {conf.sys, conf.cam.val, timer}
    BY <2>1 DEF Settled
  <2>3. ASSUME NEW j \in Shown
        PROVE  ee.progs[j].body = "program"
    <3>1. j \in 0 .. MaxStored /\ j \in 0 .. 2
      BY <2>3, StoredAssumption DEF Shown
    <3> QED
      BY <2>1, <3>1 DEF Settled, ProgClean
  <2>4. ASSUME NEW i \in Slots
        PROVE  ee.cams[i].serial \in Serials \cup {""} /\ ee.cams[i].val # "junk"
    <3>1. ee.cams[i] \in Camera
      BY <2>1, TypeFacts
    <3>2. ee.cams[i].serial \in Serials \cup {"", "junk"}
      BY <3>1, Zenon DEF Camera
    <3>3. CamClean(ee.cams[i])
      BY <2>1 DEF Settled
    <3> QED
      BY <3>2, <3>3, Zenon DEF CamClean
  <2> QED
    BY <2>2, <2>3, <2>4
<1> QED
  BY <1>1, StoreInvariant, PTL

-----------------------------------------------------------------------------
(* What a step may never do to a record.                                   *)

\* A camera's record is written, whole or torn.
LEMMA CamKeep ==
    ASSUME NEW i \in Slots, NEW w \in Camera, w.serial = "" \/ Fits(i, w),
           ee'.conf = ee.conf, ee'.cams[i] = w,
           \A j \in Slots : j # i => ee'.cams[j] = ee.cams[j]
    PROVE  Keep
<1>1. ASSUME NEW j \in Slots, ee.cams[j].serial \in Serials, ee'.cams[j] # ee.cams[j]
      PROVE  IF ee'.cams[j].serial # ee.cams[j].serial
             THEN ee'.cams[j].serial = "" \/ Known("") = {} \/ ~ee'.conf.sver
             ELSE j = index /\ (seen = ee.cams[j].serial \/ hist.mixed)
  <2>1. j = i
    BY <1>1
  <2>2. CASE w.serial = ""
    <3>1. ee'.cams[j].serial = "" /\ ee.cams[j].serial # ""
      BY <1>1, <2>1, <2>2, SerialsAssumption, Zenon
    <3> QED
      BY <3>1, Zenon
  <2>3. CASE Fits(i, w)
    <3>1. CASE ee.cams[i].serial = w.serial
      BY <1>1, <2>1, <2>3, <3>1, Zenon DEF Fits
    <3>2. CASE ee.cams[i].serial # w.serial
      <4>1. ee.cams[i].serial = "" \/ Known("") = {}
        BY <2>3, <3>2, Zenon DEF Fits
      <4>2. ee.cams[i].serial # ""
        BY <1>1, <2>1, SerialsAssumption, Zenon
      <4>3. ee'.cams[j].serial # ee.cams[j].serial
        BY <2>1, <3>2, Zenon
      <4> QED
        BY <4>1, <4>2, <4>3, Zenon
    <3> QED
      BY <3>1, <3>2
  <2> QED
    BY <2>2, <2>3
<1> QED
  BY <1>1, Zenon DEF Keep

\* WriteRecord.
LEMMA WriteKeep ==
    ASSUME StoreInv, WriteRecord
    PROVE  Keep
<1>1. /\ todo # <<>> /\ TypeOK /\ SlotInv /\ 1 \in 1 .. Len(todo)
      /\ \/ \E c \in Conf : todo[1] = WriteConf(c) /\ ee' = Written(<<"conf">>, c)
         \/ \E i \in Slots, v \in Camera :
               todo[1] = WriteCam(i, v) /\ ee' = Written(<<"cams", i>>, v)
         \/ \E j \in 0 .. MaxStored, p \in Program :
               todo[1] = WriteProg(j, p) /\ ee' = Written(<<"progs", j>>, p)
  BY WriteIs
<1>2. ee \in Eeprom
  BY <1>1, TypeFacts
<1>3. ASSUME NEW c \in Conf, todo[1] = WriteConf(c), ee' = Written(<<"conf">>, c)
      PROVE  Keep
  <2>1. ee'.conf = c /\ ee'.cams = ee.cams
    BY <1>2, <1>3, WrittenFacts
  <2>2. Puts(todo[1], <<"conf">>) /\ todo[1][3] = c
    BY <1>3, PutsWhat, Parts
  <2>3. index = 0 \/ c.cam.val = ee.conf.cam.val
    BY <1>1, <2>2 DEF SlotInv, ConfSteps
  <2> QED
    BY <2>1, <2>3, Zenon DEF Keep
<1>4. ASSUME NEW i \in Slots, NEW v \in Camera, todo[1] = WriteCam(i, v),
             ee' = Written(<<"cams", i>>, v)
      PROVE  Keep
  <2>1. /\ ee'.conf = ee.conf /\ ee'.cams[i] = v
        /\ \A j \in Slots : j # i => ee'.cams[j] = ee.cams[j]
    BY <1>2, <1>4, WrittenFacts
  <2>2. v.serial = "" \/ Fits(i, v)
    BY <1>1, <1>4, FirstFits
  <2> QED
    BY <2>1, <2>2, CamKeep
<1>5. ASSUME NEW j \in 0 .. MaxStored, NEW p \in Program, ee' = Written(<<"progs", j>>, p)
      PROVE  Keep
  <2>1. ee'.conf = ee.conf /\ ee'.cams = ee.cams
    BY <1>2, <1>5, WrittenFacts
  <2> QED
    BY <2>1, Zenon DEF Keep
<1> QED
  BY <1>1, <1>3, <1>4, <1>5

\* PowerCutWithin.
LEMMA CutWithinKeep ==
    ASSUME StoreInv, PowerCutWithin
    PROVE  Keep
<1>1. PICK e \in Eeprom :
         /\ Restart(e)
         /\ \/ e.conf.cam = ee.conf.cam /\ e.cams = ee.cams
            \/ \E i \in Slots, v \in Camera, w \in Camera :
                  /\ todo[1] = WriteCam(i, v) /\ w.serial = v.serial
                  /\ e.conf = ee.conf /\ e.cams[i] = w
                  /\ \A j \in Slots : j # i => e.cams[j] = ee.cams[j]
  BY CutWithin
<1>2. ee' = e /\ todo # <<>>
  BY <1>1 DEF Restart, PowerCutWithin, Doing
<1>3. CASE e.conf.cam = ee.conf.cam /\ e.cams = ee.cams
  BY <1>2, <1>3, Zenon DEF Keep
<1>4. ASSUME NEW i \in Slots, NEW v \in Camera, NEW w \in Camera,
             todo[1] = WriteCam(i, v), w.serial = v.serial,
             e.conf = ee.conf, e.cams[i] = w,
             \A j \in Slots : j # i => e.cams[j] = ee.cams[j]
      PROVE  Keep
  <2>1. v.serial = "" \/ Fits(i, v)
    BY <1>2, <1>4, FirstFits
  <2>2. w.serial = "" \/ Fits(i, w)
    <3>1. CASE v.serial = ""
      BY <1>4, <3>1
    <3>2. CASE Fits(i, v)
      BY <1>4, <3>2, Zenon DEF Fits
    <3> QED
      BY <2>1, <3>1, <3>2
  <2> QED
    BY <1>2, <1>4, <2>2, CamKeep
<1> QED
  BY <1>1, <1>3, <1>4

\* A step that leaves the EEPROM alone.
LEMMA SameKeep ==
    ASSUME ee' = ee
    PROVE  Keep
  BY Zenon DEF Keep

\* No step gives up or changes a camera's record but for a new camera that finds no empty
\* slot, by a reset, for another version, or while its own camera is connected.
THEOREM StoreOthersKept == Spec => OthersKept
<1>1. ASSUME StoreInv, [Next]_vars
      PROVE  [Keep]_vars
  <2>1. CASE WriteRecord
    BY <1>1, <2>1, WriteKeep
  <2>2. CASE PowerCutWithin
    BY <1>1, <2>2, CutWithinKeep
  <2>3. CASE NewFirmware
    <3>1. \/ ee'.cams = ee.cams /\ ee'.conf.cam = ee.conf.cam
          \/ ~ee'.conf.sver /\ \A i \in Slots : ee'.cams[i].serial \notin Serials
      BY <1>1, <2>3, NewFirmwareKeeps
    <3>2. Keep
      BY <3>1, Zenon DEF Keep
    <3> QED
      BY <3>2
  <2>4. CASE PowerCut
    BY <2>4, SameKeep DEF PowerCut, Restart
  <2>5. CASE Script /\ ~WriteRecord
    <3>1. ee' = ee
      BY <2>5 DEF Script, SetConf, SetIndex, settings_load, SetProgram, restoreCurrent,
                  settings_init, FirmwareUpdated, Wiped
    <3> QED
      BY <3>1, SameKeep
  <2>6. CASE Handler
    <3>1. ee' = ee
      BY <2>6, Zenon DEF Handler, CameraFound, CameraBack, CameraGone, EditCamera, EditSystem,
                  Edit, Discard, AutoConfigure, FactoryReset, SaveProgram, LoadProgram,
                  DeleteProgram, Do
    <3> QED
      BY <3>1, SameKeep
  <2>7. CASE UNCHANGED vars
    BY <2>7
  <2> QED
    BY <1>1, <2>1, <2>2, <2>3, <2>4, <2>5, <2>6, <2>7 DEF Next, Script
<1> QED
  BY <1>1, StoreInvariant, PTL DEF Spec, OthersKept
=============================================================================
