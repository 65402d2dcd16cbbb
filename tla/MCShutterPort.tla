--------------------------- MODULE MCShutterPort ---------------------------
(* ShutterPort on seven settings: a cable that holds, with pc-sync; a      *)
(* camera on USB; a toggling cable with a dolly; a dolly on the camera     *)
(* port; infra-red and cable with the lightning trigger; a negative offset *)
(* as long as the longer exposure, so that bulbDuration wraps.             *)
EXTENDS ShutterPort

Base == [bulbMode |-> "hold", halfPress |-> TRUE, interface |-> Interfaces,
         usbPrimary |-> FALSE, cable |-> TRUE, ready |-> FALSE,
         sync |-> FALSE, pcSyncRequired |-> FALSE,
         bulbOffset |-> 0, bulbEndOffset |-> 0,
         dolly |-> FALSE, cameraDolly |-> FALSE, lightning |-> FALSE]

HoldSync == [Base EXCEPT !.sync = TRUE, !.pcSyncRequired = TRUE,
                         !.bulbOffset = -1, !.bulbEndOffset = 3]
HoldUsb == [Base EXCEPT !.ready = TRUE, !.cable = FALSE, !.bulbOffset = 1]
ToggleDolly == [Base EXCEPT !.bulbMode = "toggle", !.dolly = TRUE, !.halfPress = FALSE]
CameraDolly == [Base EXCEPT !.sync = TRUE, !.cameraDolly = TRUE]
InfraRed == [Base EXCEPT !.interface = {"ir"}, !.cable = FALSE, !.lightning = TRUE]

NothingLeft == [Base EXCEPT !.bulbOffset = -4]

MCConfigs == {HoldSync, HoldUsb, ToggleDolly, CameraDolly, InfraRed, NothingLeft,
              [Base EXCEPT !.lightning = TRUE]}
MCDurations == {2, 4}

\* The two bulb modes as they leave the factory, for the violation runs.
HoldOnly == {Base}
ToggleOnly == {[Base EXCEPT !.bulbMode = "toggle"]}
LongDuration == {8}
=============================================================================
