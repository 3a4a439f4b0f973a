-------------------------- MODULE SupervisorClaims --------------------------
(***************************************************************************)
(* A statement that a comment of the repository makes about the supervisor *)
(* and that its code does not keep; a run exhibits what breaks it.         *)
(***************************************************************************)
EXTENDS Supervisor

(* supervisor/doc.go: the supervisor "rolls back on health failures or      *)
(* repeated crashes", and the ledger entry names the version left behind.   *)
(* So a rollback moves current off the failing version. After an install    *)
(* that has not been restarted into, it moves current back onto it, and     *)
(* unless that version is blacklisted the next spawn runs it again.         *)
RollbackLeavesFailingVersion ==
    [][pc = "swap3" /\ pc' = "loop" /\ version \notin blacklist
         => current' # version]_vars
=============================================================================
