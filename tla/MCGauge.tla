------------------------------- MODULE MCGauge -------------------------------
(* A small instance of ManualGauge for TLC. *)
EXTENDS ManualGauge

CONSTANTS o1, o2, j1, j2, j3
==============================================================================
