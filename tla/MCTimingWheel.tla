--------------------------- MODULE MCTimingWheel ---------------------------
(***************************************************************************)
(* TimingWheel with levels of 3, 3 and 2 buckets: as in the shipped        *)
(* configuration (60, 60, 24, 7) the first two are equal, and every level  *)
(* is used and cascades within a few ticks.                                *)
(***************************************************************************)
EXTENDS TimingWheel

MCWheelSizes == <<3, 3, 2>>
MCTimes == 0 .. 20
=============================================================================
