--------------------------- MODULE MCCameraLink ---------------------------
EXTENDS CameraLink

\* One camera of each maker.
MCMake == [c \in Cameras |-> IF c = "eos" THEN "EOS" ELSE IF c = "nikon" THEN "NIKON" ELSE "SONY"]
=============================================================================
