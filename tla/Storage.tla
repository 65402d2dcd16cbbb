------------------------------ MODULE Storage ------------------------------
(***************************************************************************)
(* What the firmware keeps in its EEPROM: the settings, with a record for  *)
(* each camera it has met (settings.cpp), and the stored programs          *)
(* (shutter.cpp and the menu functions that save, load and delete them).   *)
(*                                                                         *)
(* The EEPROM is written byte by byte, 3.4 ms each, and the power may go   *)
(* at any of them.  A handler is a script of writes, each of a record, and *)
(* of changes in RAM, done one by one; nothing else of the main loop runs  *)
(* before its end.                                                         *)
(***************************************************************************)
EXTENDS Integers, Sequences, FiniteSets, FiniteSetsExt

CONSTANTS
    Serials,            \* serial numbers of cameras; "" is a camera without one
    Followed,           \* one of them, whose history is kept
    Sony,               \* those whose timing test measures three times of five
    MaxCameras,         \* MAX_CAMERAS_SETTINGS, 5
    MaxStored           \* MAX_STORED, 4

ASSUME SerialsAssumption ==
    "" \notin Serials /\ "junk" \notin Serials /\ "none" \notin Serials /\ Sony \subseteq Serials
    /\ Followed \in Serials
\* The programs of the defaults, 0 to 2, are all that the list to load from can show.
ASSUME StoredAssumption == MaxCameras \in Nat \ {0} /\ MaxStored \in 3 .. 4

VARIABLES
    ee,                 \* the EEPROM, by place
    conf,               \* conf, in RAM
    index,              \* settings_camera_index
    timer,              \* timer.current
    seen,               \* the camera the firmware knows of
    todo,               \* what the running handler still does
    hist                \* history

vars == <<ee, conf, index, timer, seen, todo, hist>>

\* What the user chose or a test measured, the factory's choice, zeros, and bytes that
\* mean nothing: never written, written by another version, or measured by nobody.
Values == {"mine", "factory", "zero", "junk"}
Camera == [serial : Serials \cup {"", "junk"}, val : Values, auto : BOOLEAN]

\* The versions of the settings, the programs and the firmware are this firmware's, or
\* not.  conf.cam is the record of the camera in use; in the EEPROM it is that of the
\* default camera.  Stored program MaxStored is the one in use.
Conf == [sys : {"factory", "zero", "junk"}, sver : BOOLEAN, pver : BOOLEAN, fver : BOOLEAN,
         cam : Camera]
Program == [name : {"free", "used"}, body : {"program", "junk"}]
Slots == 1 .. MaxCameras
Eeprom == [conf : Conf, cams : [Slots -> Camera], progs : [0 .. MaxStored -> Program]]

TypeOK ==
    /\ ee \in Eeprom
    /\ conf \in Conf
    /\ index \in 0 .. MaxCameras
    /\ timer \in {"program", "junk"}
    /\ seen \in Serials \cup {"", "none"}
    /\ hist \in [junk : BOOLEAN, reset : BOOLEAN, mixed : BOOLEAN, wiped : BOOLEAN,
                 tested : BOOLEAN]

-----------------------------------------------------------------------------
(* Scripts.                                                                *)

WriteConf(c) == <<"write", <<"conf">>, c>>
WriteCam(i, cam) == <<"write", <<"cams", i>>, cam>>
WriteProgram(j, body) == <<"write", <<"progs", j>>, [name |-> "used", body |-> body]>>
NameProgram(e, j, name) == <<"write", <<"progs", j>>, [e.progs[j] EXCEPT !.name = name]>>

\* Fault for mutation: the default camera takes the settings of the one in use.
DefaultOfAll(c) == c.cam
DefaultOf(c) == IF index > 0 THEN ee.conf.cam ELSE c.cam

\* Fault for mutation: the default camera is taken to be tested.
KeepsAuto(cam) == cam
ClearsAuto(cam) == [cam EXCEPT !.auto = FALSE]

\* settings_save: the record of the camera in use goes to its slot, and the default
\* camera takes its place in conf, which is then written.
settings_save(c) ==
    LET saved == [c EXCEPT !.cam = ClearsAuto(DefaultOf(c))]
    IN  (IF index > 0 THEN <<WriteCam(index, c.cam)>> ELSE <<>>)
          \o <<<<"conf", saved>>, WriteConf(saved)>>
settings_update(c) == settings_save(c) \o <<<<"load">>>>

\* shutter::setDefault, program 0 last of the three.
setDefault(e) ==
    <<<<"current", "program">>, WriteProgram(1, "program"), WriteProgram(2, "program"),
      WriteProgram(0, "program")>>
      \o [j \in 1 .. MaxStored - 3 |-> NameProgram(e, j + 2, "free")]
      \o <<WriteProgram(MaxStored, "program")>>

FactoryCamera == [serial |-> "", val |-> "factory", auto |-> FALSE]
FactoryConf == [sys |-> "factory", sver |-> TRUE, pver |-> TRUE, fver |-> FALSE,
                cam |-> FactoryCamera]
Zeros == [serial |-> "", val |-> "zero", auto |-> FALSE]

settings_default ==
    setDefault(ee) \o <<<<"conf", FactoryConf>>>> \o [i \in Slots |-> WriteCam(i, Zeros)]
      \o settings_update(FactoryConf)

\* The constructor of the timer, settings_init and the start of main.  Their tests are
\* made when they are reached.
Boot(e) ==
    (IF e.progs[0].name = "free" THEN setDefault(e) ELSE <<>>)
      \o <<<<"restore">>, <<"load">>, <<"init">>, <<"main">>>>

\* RAM before that.
Cleared == [sys |-> "zero", sver |-> FALSE, pver |-> FALSE, fver |-> FALSE, cam |-> Zeros]

\* The EEPROM is as it left its factory; this is the first start.
Init ==
    /\ ee = [conf |-> [sys |-> "junk", sver |-> FALSE, pver |-> FALSE, fver |-> FALSE,
                       cam |-> [serial |-> "junk", val |-> "junk", auto |-> TRUE]],
             cams |-> [i \in Slots |-> [serial |-> "junk", val |-> "junk", auto |-> TRUE]],
             progs |-> [j \in 0 .. MaxStored |-> [name |-> "free", body |-> "junk"]]]
    /\ conf = Cleared
    /\ index = 0
    /\ timer = "junk"
    /\ seen = "none"
    /\ todo = Boot(ee)
    /\ hist = [junk |-> FALSE, reset |-> FALSE, mixed |-> FALSE, wiped |-> FALSE,
               tested |-> FALSE]

-----------------------------------------------------------------------------
(* The steps of a script.                                                  *)

Doing(what) == todo # <<>> /\ Head(todo)[1] = what
Rest == todo' = Tail(todo)

\* The EEPROM with a record in its place.
Written(record, value) ==
    CASE record[1] = "conf" -> [ee EXCEPT !.conf = value]
      [] record[1] = "cams" -> [ee EXCEPT !.cams[record[2]] = value]
      [] record[1] = "progs" -> [ee EXCEPT !.progs[record[2]] = value]

WriteRecord ==
    /\ Doing("write") /\ Rest
    /\ ee' = Written(Head(todo)[2], Head(todo)[3])
    /\ UNCHANGED <<conf, index, timer, seen, hist>>

SetConf ==
    /\ Doing("conf") /\ Rest
    /\ conf' = Head(todo)[2]
    /\ UNCHANGED <<ee, index, timer, seen, hist>>

\* Fault for mutation: one is added to the slot's number twice.
SetIndexPast ==
    /\ Doing("index") /\ Rest
    /\ index' = IF Head(todo)[2] > 0 THEN Head(todo)[2] + 1 ELSE 0
    /\ UNCHANGED <<ee, conf, timer, seen, hist>>
SetIndex ==
    /\ Doing("index") /\ Rest
    /\ index' = Head(todo)[2]
    /\ UNCHANGED <<ee, conf, timer, seen, hist>>

settings_load ==
    /\ Doing("load") /\ Rest
    /\ conf' = IF index > 0 THEN [ee.conf EXCEPT !.cam = ee.cams[index]] ELSE ee.conf
    /\ UNCHANGED <<ee, index, timer, seen, hist>>

SetProgram ==
    /\ Doing("current") /\ Rest
    /\ timer' = Head(todo)[2]
    /\ UNCHANGED <<ee, conf, index, seen, hist>>

restoreCurrent ==
    /\ Doing("restore") /\ Rest
    /\ timer' = ee.progs[MaxStored].body
    /\ UNCHANGED <<ee, conf, index, seen, hist>>

\* settings_init: programs of another version are replaced, then settings are.
\* Fault for mutation: the new version is in force before the programs are there.
NewProgramsEarly == settings_save([conf EXCEPT !.pver = TRUE]) \o setDefault(ee)
NewPrograms == setDefault(ee) \o settings_save([conf EXCEPT !.pver = TRUE])

settings_init ==
    /\ Doing("init")
    /\ todo' = (IF ~conf.sver THEN (IF conf.pver THEN <<>> ELSE setDefault(ee)) \o settings_default
                ELSE IF ~conf.pver THEN NewPrograms
                ELSE <<>>) \o Tail(todo)
    /\ UNCHANGED <<ee, conf, index, timer, seen, hist>>

FirmwareUpdated ==
    /\ Doing("main")
    /\ todo' = IF conf.fver THEN <<>> ELSE settings_save([conf EXCEPT !.fver = TRUE])
    /\ UNCHANGED <<ee, conf, index, timer, seen, hist>>

Wiped ==
    /\ Doing("wiped") /\ Rest
    /\ hist' = [hist EXCEPT !.wiped = TRUE, !.reset = index > 0]
    /\ UNCHANGED <<ee, conf, index, timer, seen>>

Script == WriteRecord \/ SetConf \/ SetIndex \/ settings_load \/ SetProgram
          \/ restoreCurrent \/ settings_init \/ FirmwareUpdated \/ Wiped

-----------------------------------------------------------------------------
(* The handlers.                                                           *)

Idle == todo = <<>>
Do(script) ==
    /\ Idle
    /\ todo' = script
    /\ UNCHANGED <<ee, index>>
Quiet == hist' = [hist EXCEPT !.wiped = FALSE]

\* settings_setup_camera_index: the slot with this serial number, else the last that
\* is empty, else the last.
Known(serial) == {i \in Slots : ee.cams[i].serial = serial}

\* Fault for mutation: empty slots are not noticed.
NewSlotLast == MaxCameras
NewSlot == IF Known("") = {} THEN MaxCameras ELSE Max(Known(""))

\* Fault for mutation: the table is searched only until an empty slot.
KnownUntilEmpty(serial) == {i \in Known(serial) : \A j \in Known("") : i < j}
Found(serial) == Known(serial)

\* Fault for mutation: a record in use stays in use.
SetupOnce(serial) ==
    IF serial = "" \/ index > 0 THEN <<>>
    ELSE IF Found(serial) # {} THEN <<<<"index", Min(Found(serial))>>, <<"load">>>>
    ELSE <<WriteCam(NewSlot, [ee.conf.cam EXCEPT !.serial = serial]),
           <<"index", NewSlot>>, <<"load">>>>
settings_setup_camera_index(serial) ==
    IF serial = "" THEN <<>>
    ELSE IF Found(serial) # {} THEN <<<<"index", Min(Found(serial))>>, <<"load">>>>
    ELSE <<WriteCam(NewSlot, [ee.conf.cam EXCEPT !.serial = serial]),
           <<"index", NewSlot>>, <<"load">>>>

\* message_notify: a camera is ready, or gone.
CameraFound(serial) ==
    /\ seen = "none"
    /\ Do(settings_setup_camera_index(serial))
    /\ seen' = serial
    /\ hist' = [hist EXCEPT !.wiped = FALSE, !.reset = FALSE]
    /\ UNCHANGED <<conf, timer>>

CameraGone ==
    /\ seen # "none"
    /\ Do(<<<<"index", 0>>, <<"load">>>>)
    /\ seen' = "none"
    /\ hist' = [hist EXCEPT !.wiped = FALSE, !.reset = FALSE, !.mixed = FALSE]
    /\ UNCHANGED <<conf, timer>>

\* PTP::enable after PTP::disable: whatever camera is there now.
CameraBack(serial) ==
    /\ Do(settings_setup_camera_index(serial))
    /\ seen' = serial
    /\ hist' = [hist EXCEPT !.wiped = FALSE, !.reset = FALSE, !.mixed = serial = "" /\ index > 0]
    /\ UNCHANGED <<conf, timer>>

\* A menu item with settings_update, about the camera or about anything else.
Edit(c) ==
    /\ Do(settings_update(c))
    /\ conf' = c
    /\ Quiet /\ UNCHANGED <<timer, seen>>
EditCamera == Edit([conf EXCEPT !.cam.val = "mine"])
EditSystem == Edit(conf)
Discard == Do(<<<<"load">>>>) /\ Quiet /\ UNCHANGED <<conf, timer, seen>>

\* autoConfigureCameraTiming: the offsets are set from all five measurements, made or
\* not, before the test's result is looked at.
AutoConfigure(pass) ==
    \E val \in {"mine", "junk"} :
      /\ val = "junk" => (~pass \/ seen \in Sony)
      /\ LET c == [conf EXCEPT !.cam.val = val, !.cam.auto = @ \/ pass]
         IN  conf' = c /\ Do(IF pass THEN settings_update(c) ELSE <<>>)
      /\ hist' = [hist EXCEPT !.wiped = FALSE, !.junk = @ \/ val = "junk",
                              !.tested = @ \/ (pass /\ conf.cam.serial = Followed)]
      /\ UNCHANGED <<timer, seen>>

\* factoryReset
FactoryReset ==
    /\ Do(settings_default \o setDefault(ee) \o <<<<"wiped">>>>)
    /\ UNCHANGED <<conf, timer, seen, hist>>

\* The programs.  timer.currentId, the program saved or loaded last, may be any; what
\* timerRevert loads from it is what was saved or loaded.  The list to load from goes
\* through the programs below MaxStored - 1; the one it selects may have been deleted,
\* since a row out of sight and a deletion leave itemSelected on another slot.
Shown == 0 .. MaxStored - 2

\* shutter_saveAs, timerSaveCurrent, timerSaveDefault, begin and hardware_off.
SaveProgram(j) ==
    /\ Do(<<WriteProgram(j, timer)>>)
    /\ Quiet /\ UNCHANGED <<conf, timer, seen>>

\* shutter_load.
LoadProgram(j) ==
    /\ j \in Shown
    /\ Do(<<>>)
    /\ timer' = ee.progs[j].body
    /\ Quiet /\ UNCHANGED <<conf, seen>>

\* shutter_delete, shutter_rename.
DeleteProgram(j) ==
    /\ j \in Shown \ {0}
    /\ \E name \in {"free", "used"} : Do(<<NameProgram(ee, j, name)>>)
    /\ Quiet /\ UNCHANGED <<conf, timer, seen>>

Handler == \/ \E s \in Serials \cup {""} : CameraFound(s) \/ CameraBack(s)
           \/ CameraGone \/ EditCamera \/ EditSystem \/ Discard
           \/ \E pass \in BOOLEAN : AutoConfigure(pass)
           \/ FactoryReset
           \/ \E j \in 0 .. MaxStored : SaveProgram(j)
           \/ \E j \in 0 .. MaxStored - 1 : LoadProgram(j) \/ DeleteProgram(j)

-----------------------------------------------------------------------------
(* Power.                                                                  *)

\* A record of which only the first k fields were written.
Order == [conf |-> <<"sys", "sver", "pver", "fver", "cam">>,
          cams |-> <<"serial", "val", "auto">>, progs |-> <<"name", "body">>]
Old(record) == IF record[1] = "conf" THEN ee.conf
               ELSE IF record[1] = "cams" THEN ee.cams[record[2]] ELSE ee.progs[record[2]]
Torn(record, value) ==
    LET order == Order[record[1]]
        old == Old(record)
        new(k) == {order[n] : n \in 1 .. k}
    IN  {[f \in DOMAIN old |-> IF f \in new(k) THEN value[f] ELSE old[f]] :
            k \in 1 .. Len(order) - 1} \ {old, value}

Restart(e) ==
    /\ ee' = e
    /\ conf' = Cleared
    /\ index' = 0
    /\ timer' = "junk"
    /\ seen' = "none"
    /\ todo' = Boot(e)

\* The power goes between two records, or within one, and comes back.
PowerCut ==
    /\ Restart(ee)
    /\ hist' = [hist EXCEPT !.wiped = FALSE, !.reset = FALSE, !.mixed = FALSE]

PowerCutWithin ==
    /\ Doing("write")
    /\ \E value \in Torn(Head(todo)[2], Head(todo)[3]) : Restart(Written(Head(todo)[2], value))
    /\ hist' = [hist EXCEPT !.junk = TRUE, !.wiped = FALSE, !.reset = FALSE, !.mixed = FALSE]

\* Another firmware is flashed, whose programs or settings are laid out differently.
NewFirmware ==
    /\ Idle
    /\ \/ Restart([ee EXCEPT !.conf.pver = FALSE, !.conf.fver = FALSE,
                            !.progs = [j \in DOMAIN @ |-> [@[j] EXCEPT !.body = "junk"]]])
       \/ Restart([ee EXCEPT !.conf.sver = FALSE, !.conf.fver = FALSE, !.conf.sys = "junk",
                            !.conf.cam.val = "junk",
                            !.cams = [i \in Slots |-> [@[i] EXCEPT !.serial = "junk",
                                                                    !.val = "junk"]]])
    /\ hist' = [hist EXCEPT !.wiped = FALSE, !.reset = FALSE, !.mixed = FALSE]

Next == Script \/ Handler \/ PowerCut \/ PowerCutWithin \/ NewFirmware

Spec == Init /\ [][Next]_vars

-----------------------------------------------------------------------------
(* Properties.                                                             *)

\* No camera has two records, however the table was filled, emptied and interrupted.
SerialOnce == \A s \in Serials : Cardinality(Known(s)) <= 1

\* The record in use is that of the camera that is connected, and conf holds it; not
\* after a factory reset under its feet, nor for a camera without a serial number that
\* took the place of another while the bus was off.
OwnRecord ==
    (Idle /\ seen \in Serials /\ ~hist.reset)
        => (index \in Known(seen) /\ conf.cam.serial = seen)

\* A record says its camera was tested only if a test passed with it in use: a new
\* camera's record, copied from the default camera's, never does.
TestedItself ==
    (Idle /\ ~hist.junk) => \A i \in Known(Followed) : ee.cams[i].auto => hist.tested

\* Started again after any loss of power between two records, or with another version,
\* the firmware runs on settings and programs that were written by this version.
Recovered ==
    (Idle /\ ~hist.junk) =>
        /\ "junk" \notin {conf.sys, conf.cam.val, timer}
        /\ \A j \in Shown : ee.progs[j].body = "program"
        /\ \A i \in Slots : ee.cams[i].serial \in Serials \cup {""} /\ ee.cams[i].val # "junk"

\* A camera's record is given up only for a new camera that finds no empty slot, by a
\* reset or for another version, and otherwise changes only while it is in use and its
\* own camera is connected.  The default camera's changes only while no other is in use.
Keep ==
    /\ ee'.conf.cam.val # ee.conf.cam.val => (index = 0 \/ ~ee'.conf.sver)
    /\ \A i \in Slots :
         LET old == ee.cams[i]
             new == ee'.cams[i]
         IN  (old.serial \in Serials /\ new # old) =>
               IF new.serial # old.serial
               THEN new.serial = "" \/ Known("") = {} \/ ~ee'.conf.sver
               ELSE i = index /\ (seen = old.serial \/ hist.mixed)
OthersKept == [][Keep]_vars

\* "restores factory defaults" (settings_default), "Reset all settings?".
FactoryDefaults == (hist.wiped /\ ~hist.junk) => ee.conf.cam.val = "factory"
=============================================================================
