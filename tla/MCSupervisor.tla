---------------------------- MODULE MCSupervisor ----------------------------
(***************************************************************************)
(* Small instances of Supervisor for TLC.                                  *)
(***************************************************************************)
EXTENDS SupervisorClaims, TLC

(* How a worker dies by itself: any crash, and the exit 64 that the         *)
(* supervisor's own tests exercise.                                         *)
MCDeathCodes == {"unexpected", "norestart"}

(* Versions are interchangeable in safety runs. *)
MCSymmetry == Permutations(Versions)
=============================================================================
