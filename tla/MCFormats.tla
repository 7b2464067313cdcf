----------------------------- MODULE MCFormats ------------------------------
(* Small instances of Formats for TLC.                                      *)
EXTENDS Formats

(* Probes of up to six elements, with channels on both sides of the        *)
(* board's two receivers; and, on one probe, traces from little more than   *)
(* half a window to several windows.                                        *)
Small == [probe : 1..6, aperture : 0..3, step : 0..2, rx : {0, 1, 2, 3, 4, 6},
          points : {4}, sync : {4}]
Long == [probe : {3}, aperture : {2}, step : {1}, rx : {2, 3}, points : 4..14, sync : {3, 5}]
All == Small \cup Long
=============================================================================
