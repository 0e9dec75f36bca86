--------------------------- MODULE MCAlarmSystem ---------------------------
(***************************************************************************)
(* A counter of 16 values for TLC: it wraps, the delays are well below     *)
(* half of it, and the ages are counted past more than two wraps.          *)
(***************************************************************************)
EXTENDS AlarmSystem

MCHalf == 8
MCAgeCap == 5 * MCHalf
=============================================================================
