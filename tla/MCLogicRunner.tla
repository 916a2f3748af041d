----------------------------- MODULE MCLogicRunner -----------------------------
(* Instances of LogicRunner for TLC. *)
EXTENDS LogicRunner

TwoNames == 1..2
ThreeNames == 1..3
=============================================================================
