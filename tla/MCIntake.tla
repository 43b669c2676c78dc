------------------------------ MODULE MCIntake ------------------------------
(* A small instance of OrderIntake for TLC. *)
EXTENDS OrderIntake

CONSTANTS k1, k2, r1, r2, r3

(* Two orders in either order, and one posted twice in a list. *)
SmallBodies == {<<k1, k2>>, <<k2, k1>>, <<k1, k1>>}
=============================================================================
