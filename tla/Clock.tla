------------------------------- MODULE Clock -------------------------------
(***************************************************************************)
(* The supervisor's clock, which its health gate and its crash tracker     *)
(* read. It counts from the first reading.                                 *)
(***************************************************************************)
EXTENDS Integers

CONSTANT MaxTime     \* bound on the clock, for TLC

ASSUME ClockAssumption == MaxTime \in Nat

VARIABLE now
=============================================================================
