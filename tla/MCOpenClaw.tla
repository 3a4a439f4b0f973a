----------------------------- MODULE MCOpenClaw -----------------------------
(***************************************************************************)
(* Small instances of OpenClawManager for TLC.                             *)
(***************************************************************************)
EXTENDS OpenClawManager, TLC

(* The goroutines that run operations are interchangeable in safety runs. *)
MCSymmetry == Permutations(Ops)
=============================================================================
