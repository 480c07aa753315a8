--------------------------- MODULE MCScreenshotPush ---------------------------
(* Three screenshots, the second over the cap of the relay, on a phone whose *)
(* clock runs two ticks ahead of the laptop's.                               *)
EXTENDS ScreenshotPush

MCShots == 1..3
MCSkews == {2}
=============================================================================
