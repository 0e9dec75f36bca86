----------------------------- MODULE MCFirmware -----------------------------
(* The main firmware for TLC: its subscribers, and more connections than     *)
(* the map of instances has places.                                          *)
EXTENDS Firmware, MCEventQueue

MCConns == 1..3
=============================================================================
