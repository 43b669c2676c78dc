------------------------------- MODULE MCSaga -------------------------------
(* Small instances of Saga for TLC. *)
EXTENDS Saga

CONSTANTS o1, o2, t1, t2
=============================================================================
