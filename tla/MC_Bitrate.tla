------------------------------ MODULE MC_Bitrate ------------------------------
(* Three minima, two non-positive and three positive starts, unbounded   *)
(* and three maxima: enough for a call that changes only min or only max  *)
(* while the start is left out, followed by one that names the old start  *)
(* again.                                                                  *)
EXTENDS Bitrate

MC_MinValues == {0, 100, 200}
MC_StartValues == {-1, 0, 300, 500, 800}
MC_MaxValues == {-1, 300, 500, 1000}
=============================================================================
