------------------------------ MODULE MCTimer ------------------------------
(* Timer on the kinds of program the menu offers.                          *)
EXTENDS Timer

Plain == [hdr |-> FALSE, ramp |-> FALSE, timelapse |-> TRUE, external |-> FALSE,
          photos |-> 2, exps |-> 1, kind |-> "bulb", method |-> "keyframe", night |-> FALSE, usb |-> TRUE]

Hdr == [Plain EXCEPT !.hdr = TRUE, !.exps = 2]
SinglePhoto == [Plain EXCEPT !.timelapse = FALSE, !.kind = "photo", !.usb = FALSE]
Endless == [Plain EXCEPT !.photos = 0, !.kind = "capture", !.usb = FALSE]
Ramp == [Plain EXCEPT !.ramp = TRUE, !.night = TRUE, !.method = "auto",
                       !.usb = FALSE]
ByTrigger == [Endless EXCEPT !.photos = 3, !.external = TRUE]

MCPrograms == {Plain, Hdr, SinglePhoto, Endless, Ramp, ByTrigger}
PlainOnly == {Plain}
RampOnly == {Ramp}
=============================================================================
