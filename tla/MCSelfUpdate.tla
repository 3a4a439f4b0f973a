---------------------------- MODULE MCSelfUpdate ----------------------------
(***************************************************************************)
(* Small instances of SelfUpdate for TLC.                                  *)
(***************************************************************************)
EXTENDS SelfUpdate, TLC

(* Requests are interchangeable, and so are versions. *)
MCSymmetry == Permutations(Handlers) \cup Permutations(Versions)
=============================================================================
