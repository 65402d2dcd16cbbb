---------------------------- MODULE MCCallQueue ----------------------------
(* CallQueue on two slots and counters that turn over at eight.            *)
EXTENDS CallQueue

MCMainRequests == {<<0, "aux1_off">>, <<1, "aux2_off">>, <<5, "shutter_off">>}
MCIsrRequests == {<<4, "shutter_half">>, <<4, "check_cable">>}
MCCaptureTimes == {6}
=============================================================================
