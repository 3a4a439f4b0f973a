---------------------------- MODULE SpawnPolicy ----------------------------
(***************************************************************************)
(* What clawmastd promises its operator, stated without any of its         *)
(* machinery: at most one worker process exists at a time, a worker is     *)
(* only ever started from a version nobody has banned, unless the list of  *)
(* bans could not be read for that start, a ban is never lifted, and the   *)
(* supervisor is never gone while a worker still runs.                     *)
(* Supervisor.tla is shown to implement this specification.                *)
(***************************************************************************)
CONSTANTS
    Versions,    \* the directories under <InstallRoot>/versions
    NoVersion    \* "no worker is running"

VARIABLES
    running,     \* the version whose worker process is alive, or NoVersion
    banned,      \* the versions listed in state/blacklist.json
    unread,      \* TRUE when the latest attempt to read that list failed
    down         \* TRUE when no supervisor process exists

policyVars == <<running, banned, unread, down>>

Init ==
    /\ running = NoVersion
    /\ banned = {}
    /\ unread = FALSE
    /\ down = FALSE

(* The supervisor reads the list of bans, or fails to, while no worker      *)
(* runs: what it found out holds for the next start only.                   *)
Consult ==
    /\ ~down
    /\ running = NoVersion
    /\ unread' \in BOOLEAN
    /\ UNCHANGED <<running, banned, down>>

(* A worker is started: only when none runs, and from a banned version only *)
(* when the list of bans could not be read.                                 *)
Start(v) ==
    /\ ~down
    /\ running = NoVersion
    /\ v \in banned => unread
    /\ running' = v
    /\ UNCHANGED <<banned, unread, down>>

(* The worker process ends, whatever the reason. *)
End ==
    /\ running' = NoVersion
    /\ UNCHANGED <<banned, unread, down>>

(* The operator or the install gate bans a version, for good. *)
Ban(v) ==
    /\ banned' = banned \cup {v}
    /\ UNCHANGED <<running, unread, down>>

(* The supervisor process ends, or the init system starts it again; neither *)
(* may leave a worker behind.                                               *)
Halt ==
    /\ running' = NoVersion
    /\ down' = TRUE
    /\ UNCHANGED <<banned, unread>>

Boot ==
    /\ down
    /\ running = NoVersion
    /\ down' = FALSE
    /\ UNCHANGED <<running, banned, unread>>

Next ==
    \/ Consult
    \/ \E v \in Versions : Start(v) \/ Ban(v)
    \/ End
    \/ Halt
    \/ Boot

Spec == Init /\ [][Next]_policyVars
=============================================================================
