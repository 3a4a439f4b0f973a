--------------------------- MODULE OpenClawManager ---------------------------
(***************************************************************************)
(* The worker's view of the OpenClaw gateway (internal/openclaw): the      *)
(* Snapshot that probes write, the operator's actions and Fix cascade that *)
(* HTTP handlers start, and the autoheal policy that starts a cascade of   *)
(* its own. Everything runs in goroutines of one process: the poller, one  *)
(* goroutine per action and one per autoheal trigger. The Snapshot is read *)
(* and written under the store's lock, currentAction and the time of the   *)
(* last start attempt are atomics that the lock does not protect, and      *)
(* nothing serialises the actions themselves.                              *)
(*                                                                         *)
(* The gateway and its CLI are outside: a probe may see it alive or not,   *)
(* and a command may do anything and return, at the latest at its timeout. *)
(* The cooldown and the warm-up grace are flags that time clears at any    *)
(* moment: the cooldown is configurable and may be shorter than a cascade. *)
(***************************************************************************)
EXTENDS Naturals

CONSTANTS
    UserOps,      \* goroutines that operator requests may run in
    Healers,      \* goroutines that autoheal cascades may run in; bounds of
                  \* the model, and the two sets may overlap: no further
                  \* operation starts when all are busy
    Poller,       \* the goroutine of Manager.Start
    None,         \* no current action
    Threshold,    \* AutohealConfig.Threshold
    Autoheal,     \* AutohealConfig.Enabled
    OSRestart,    \* osRestartCommand knows this platform
    Requests,     \* what operators ask for
    CliSeen       \* what a probe may find out about a missing CLI

Actions == {"start", "stop", "restart", "doctor"}

ASSUME ManagerAssumption ==
    /\ Threshold \in Nat \ {0}
    /\ Autoheal \in BOOLEAN /\ OSRestart \in BOOLEAN
    /\ Requests \subseteq Actions \cup {"fix"}
    /\ CliSeen \subseteq BOOLEAN /\ FALSE \in CliSeen
    /\ Poller \notin UserOps \cup Healers
    /\ None \notin Actions \cup {"fix"}

Ops     == UserOps \cup Healers
Probers == Ops \cup {Poller}

VARIABLES
    \* ---- Snapshot ----
    probed, alive, intent, missing,
    streak,       \* AutohealConsecutiveDown, up to Threshold
    cooling,      \* now is before AutohealNextEligible
    phase,
    \* ---- Manager ----
    action,       \* currentAction
    warm,         \* lastStartAttemptAt is less than WarmupGracePeriod ago
    log,          \* actionLog: whose it is, Running, and whether only its
                  \* owner's events are in it
    \* ---- the goroutines ----
    pc,           \* where each of them is
    kind,         \* what each operation does
    tier,         \* the cascade tier it is at; single actions are tier 3
    seen,         \* what the probe in progress has found, the Intent it
                  \* copied from the Snapshot when it began, and the current
                  \* action it read under the lock
    \* ---- observation only ----
    asked,        \* the last Intent an operator expressed
    recent,       \* an attempt to bring the gateway up ended within the grace
    downs,        \* down probes stored since the last alive one and since
                  \* the last autoheal trigger, up to Threshold
    met,          \* whether a start, restart or fix was in flight when the
                  \* probe read the current action
    alone         \* no two operations have overlapped so far

snapshot == <<probed, alive, intent, missing, streak, cooling, phase>>
ghosts   == <<asked, recent, downs, met, alone>>
vars     == <<snapshot, action, warm, log, pc, kind, tier, seen, ghosts>>

StartingActions == {"start", "restart", "fix"}

(* currentAction's name for an operation: autoheal runs as "fix". *)
Name(k) == IF k = "heal" THEN "fix" ELSE k

IsCascade(o) == kind[o] \in {"fix", "heal"}

Min2(a, b) == IF a < b THEN a ELSE b

Intents == {"unknown", "running", "stopped"}

Places  == {"idle", "begin", "reset", "cli", "cmd", "observe", "store",
            "locked", "judge", "final", "clear"}

FlagTypes ==
    /\ probed \in BOOLEAN /\ alive \in BOOLEAN /\ missing \in BOOLEAN
    /\ cooling \in BOOLEAN /\ warm \in BOOLEAN /\ recent \in BOOLEAN
    /\ alone \in BOOLEAN

Logs     == [owner : Ops \cup {None}, running : BOOLEAN, pure : BOOLEAN]
Findings == [alive : BOOLEAN, missing : BOOLEAN, intent : Intents,
             action : Actions \cup {"fix", None}]

(* Fields hold what their types allow; a cascade has three tiers and no     *)
(* streak outgrows the threshold.                                           *)
TypeOK ==
    /\ FlagTypes
    /\ intent \in Intents /\ asked \in Intents
    /\ streak \in 0..Threshold /\ downs \in 0..Threshold
    /\ phase \in {"unknown", "missing", "stopped", "starting", "running", "error"}
    /\ action \in Actions \cup {"fix", None}
    /\ log \in Logs
    /\ pc \in [Probers -> Places]
    /\ kind \in [Ops -> Actions \cup {"fix", "heal"}]
    /\ tier \in [Ops -> 1..3]
    /\ seen \in [Probers -> Findings]
    /\ met \in [Probers -> BOOLEAN]

(* Between probes, and between operations, locals have a fixed value. *)
NoFinding == [alive |-> FALSE, missing |-> FALSE, intent |-> "unknown",
              action |-> None]

Init ==
    /\ probed = FALSE /\ alive = FALSE /\ intent = "unknown" /\ missing = FALSE
    /\ streak = 0 /\ cooling = FALSE /\ phase = "unknown"
    /\ action = None /\ warm = FALSE
    /\ log = [owner |-> None, running |-> FALSE, pure |-> TRUE]
    /\ pc = [p \in Probers |-> IF p = Poller THEN "observe" ELSE "idle"]
    /\ kind = [o \in Ops |-> "doctor"]
    /\ tier = [o \in Ops |-> 3]
    /\ seen = [p \in Probers |-> NoFinding]
    /\ asked = "unknown" /\ recent = FALSE /\ downs = 0
    /\ met = [p \in Probers |-> FALSE] /\ alone = TRUE

(***************************************************************************)
(* Pure decisions.                                                         *)
(***************************************************************************)
(* ComputePhase for a probed Snapshot, the checks in the order of the code. *)
ComputePhase(isAlive, isMissing, i, act, grace) ==
    CASE isMissing              -> "missing"
      [] ~isMissing /\ i = "stopped" -> "stopped"
      [] ~isMissing /\ i # "stopped" /\ act \in StartingActions -> "starting"
      [] OTHER -> IF isAlive THEN "running"
                  ELSE IF grace THEN "starting" ELSE "error"

(* Mutant: an operator's stop is not looked at. *)
ShouldAutohealStopped(isAlive, isMissing, i, n, cool) ==
    Autoheal /\ ~isAlive /\ ~isMissing /\ n >= Threshold /\ ~cool

(* Mutant: only a gateway an operator has asked for is healed. *)
ShouldAutohealWanted(isAlive, isMissing, i, n, cool) ==
    Autoheal /\ ~isAlive /\ i = "running" /\ ~isMissing /\ n >= Threshold /\ ~cool

(* shouldAutoheal, for a streak of n probes. *)
ShouldAutoheal(isAlive, isMissing, i, n, cool) ==
    /\ Autoheal /\ ~isAlive /\ i # "stopped" /\ ~isMissing
    /\ n >= Threshold
    /\ ~cool

(***************************************************************************)
(* ProbeNow: a probe outside the lock, then one update under it.           *)
(***************************************************************************)
(* A goroutine is inside store.set, and holds the lock. *)
Locked == \E p \in Probers : pc[p] = "locked"

(* o has named itself in currentAction and has not left the slot yet. *)
InFlight(o) == pc[o] \notin {"idle", "begin"}

(* An operation that brings the gateway up is in flight. *)
BringingUp == \E o \in Ops : InFlight(o) /\ Name(kind[o]) \in StartingActions

(* probe begins with a copy of the Snapshot and asks the gateway. *)
Observe(p) ==
    /\ pc[p] = "observe" /\ ~Locked
    /\ \E a \in BOOLEAN, m \in CliSeen :
          seen' = [seen EXCEPT ![p] = [alive |-> a, missing |-> m, intent |-> intent,
                                       action |-> seen[p].action]]
    /\ pc' = [pc EXCEPT ![p] = "store"]
    /\ UNCHANGED <<snapshot, action, warm, log, kind, tier, ghosts>>

(* store.set is entered; under the lock, which an action does not take to   *)
(* name or to clear itself, the current action is read.                     *)
Enter(p) ==
    /\ pc[p] = "store" /\ ~Locked
    /\ seen' = [seen EXCEPT ![p].action = action]
    /\ met' = [met EXCEPT ![p] = BringingUp]
    /\ pc' = [pc EXCEPT ![p] = "locked"]
    /\ UNCHANGED <<snapshot, action, warm, log, kind, tier, asked, recent, downs,
                   alone>>

(* The streak after a probe that saw isAlive and, under the lock, the       *)
(* current action act: an action in flight holds it at zero.                *)
NextStreak(isAlive, act) ==
    IF act # None \/ isAlive THEN 0 ELSE Min2(streak + 1, Threshold)

(* What an operation that starts now does to the observation of overlaps. *)
NotesOverlap == alone' = (alone /\ \A q \in Ops : pc[q] = "idle")

(* Where the goroutine of prober p goes after its probe. *)
AfterProbe(p) == IF p = Poller THEN "observe" ELSE "judge"

(* The update of prober p triggers autoheal, if there is room for a cascade. *)
Fires(p) ==
    LET s == seen[p]
    IN  /\ s.action = None
        /\ ShouldAutoheal(s.alive, s.missing, intent,
                          NextStreak(s.alive, s.action), cooling)
        /\ \E h \in Healers : pc[h] = "idle"

(* What Store does to everything but Intent. *)
StoreProbe(p) ==
    LET s == seen[p]
    IN  /\ pc[p] = "locked"
        /\ probed' = TRUE /\ alive' = s.alive /\ missing' = s.missing
        /\ phase' = ComputePhase(s.alive, s.missing, intent, s.action, warm)
        /\ \/ /\ Fires(p)
              /\ streak' = 0 /\ cooling' = TRUE /\ downs' = 0 /\ NotesOverlap
              /\ \E h \in Healers :
                    /\ pc[h] = "idle"
                    /\ pc' = [pc EXCEPT ![p] = AfterProbe(p), ![h] = "begin"]
                    /\ kind' = [kind EXCEPT ![h] = "heal"]
           \/ /\ ~Fires(p)
              /\ streak' = NextStreak(s.alive, s.action) /\ UNCHANGED cooling
              /\ downs' = IF s.alive THEN 0 ELSE Min2(downs + 1, Threshold)
              /\ pc' = [pc EXCEPT ![p] = AfterProbe(p)]
              /\ UNCHANGED <<kind, alone>>
        /\ seen' = [seen EXCEPT ![p] = NoFinding]
        /\ met' = [met EXCEPT ![p] = FALSE]
        /\ UNCHANGED <<action, warm, log, tier, asked, recent>>

(* Mutant: the probe's own copy of Intent is written back. *)
StoreStaleIntent(p) == StoreProbe(p) /\ intent' = seen[p].intent

(* store.set: the probe's findings are merged into the Snapshot as it is    *)
(* now, the phase and the autoheal decision are made on the action read     *)
(* before and the attempt stamped by now, and a decision to heal starts the *)
(* trigger goroutine. Intent is kept from the Snapshot.                     *)
Store(p) == StoreProbe(p) /\ UNCHANGED intent

(***************************************************************************)
(* Operator requests, RunAction and Cascade.                               *)
(***************************************************************************)
(* The handler records the operator's intent, under the lock, and starts    *)
(* the goroutine.                                                           *)
Dispatch(o, k) ==
    /\ pc[o] = "idle"
    /\ k = "doctor" \/ ~Locked
    /\ pc' = [pc EXCEPT ![o] = "begin"]
    /\ kind' = [kind EXCEPT ![o] = k] /\ NotesOverlap
    /\ intent' = CASE k = "stop"   -> "stopped"
                   [] k = "doctor" -> intent
                   [] OTHER        -> "running"
    /\ asked' = CASE k = "stop"   -> "stopped"
                  [] k = "doctor" -> asked
                  [] OTHER        -> "running"
    /\ UNCHANGED <<probed, alive, missing, streak, cooling, phase, action, warm,
                   log, tier, seen, recent, downs, met>>

(* setCurrentAction stores the name ... *)
SetCurrentAction(o) ==
    /\ pc[o] = "begin"
    /\ action' = Name(kind[o])
    /\ pc' = [pc EXCEPT ![o] = "reset"]
    /\ UNCHANGED <<snapshot, warm, log, kind, tier, seen, ghosts>>

(* ... and then, under a lock of its own, starts a fresh action log. *)
ResetActionLog(o) ==
    /\ pc[o] = "reset"
    /\ log' = [owner |-> o, running |-> TRUE, pure |-> TRUE]
    /\ pc' = [pc EXCEPT ![o] = "cli"]
    /\ tier' = [tier EXCEPT ![o] = IF IsCascade(o) THEN 1 ELSE 3]
    /\ UNCHANGED <<snapshot, action, warm, kind, seen, ghosts>>

(* RecordActionEvent by operation o. *)
RecordActionEvent(o) == log' = [log EXCEPT !.pure = log.pure /\ log.owner = o]

(* A command is started: doctor --fix, gateway restart and the OS restart   *)
(* in a cascade, the requested one in an action.                            *)
RunCmd(o) ==
    /\ pc[o] = "cli"
    /\ ~IsCascade(o) \/ tier[o] < 3 \/ OSRestart
    /\ RecordActionEvent(o)
    /\ pc' = [pc EXCEPT ![o] = "cmd"]
    /\ UNCHANGED <<snapshot, action, warm, kind, tier, seen, ghosts>>

(* The third tier is skipped where there is no OS restart. *)
SkipOSRestart(o) ==
    /\ pc[o] = "cli" /\ IsCascade(o) /\ tier[o] = 3 /\ ~OSRestart
    /\ RecordActionEvent(o)
    /\ pc' = [pc EXCEPT ![o] = "final"]
    /\ UNCHANGED <<snapshot, action, warm, kind, tier, seen, ghosts>>

(* Operations that try to bring the gateway up, and their last command. *)
Attempts(o) == tier[o] = 3 /\ kind[o] \notin {"stop", "doctor"}

(* Mutant: the attempt is stamped only when the command reports success. *)
CmdReturnsStampsOk(o) ==
    /\ pc[o] = "cmd"
    /\ RecordActionEvent(o)
    /\ pc' = [pc EXCEPT ![o] = "observe"]
    /\ warm' \in {warm, warm \/ Attempts(o)}
    /\ recent' = (recent \/ Attempts(o))
    /\ UNCHANGED <<snapshot, action, kind, tier, seen, asked, downs, met,
                   alone>>

(* The command ends, with whatever outcome; stampStartAttempt follows for   *)
(* start, restart and the last tier of a cascade.                           *)
CmdReturns(o) ==
    /\ pc[o] = "cmd"
    /\ RecordActionEvent(o)
    /\ pc' = [pc EXCEPT ![o] = "observe"]
    /\ warm' = (warm \/ Attempts(o))
    /\ recent' = (recent \/ Attempts(o))
    /\ UNCHANGED <<snapshot, action, kind, tier, seen, asked, downs, met,
                   alone>>

(* healthyAfter: a cascade stops, and stamps, at the first tier after which *)
(* the Snapshot says alive.                                                 *)
Judge(o) ==
    /\ pc[o] = "judge" /\ ~Locked
    /\ \/ /\ tier[o] = 3
          /\ pc' = [pc EXCEPT ![o] = "final"]
          /\ UNCHANGED <<tier, warm, recent>>
       \/ /\ tier[o] < 3 /\ alive
          /\ pc' = [pc EXCEPT ![o] = "final"]
          /\ warm' = TRUE /\ recent' = TRUE
          /\ UNCHANGED tier
       \/ /\ tier[o] < 3 /\ ~alive
          /\ pc' = [pc EXCEPT ![o] = "cli"]
          /\ tier' = [tier EXCEPT ![o] = @ + 1]
          /\ UNCHANGED <<warm, recent>>
    /\ UNCHANGED <<snapshot, action, log, kind, seen, asked, downs, met,
                   alone>>

(* Mutant: the log is left running. *)
FinalizeActionLogNot(o) ==
    /\ pc[o] = "final"
    /\ pc' = [pc EXCEPT ![o] = "clear"]
    /\ UNCHANGED <<snapshot, action, warm, log, kind, tier, seen, ghosts>>

FinalizeActionLog(o) ==
    /\ pc[o] = "final"
    /\ log' = [log EXCEPT !.running = FALSE]
    /\ pc' = [pc EXCEPT ![o] = "clear"]
    /\ UNCHANGED <<snapshot, action, warm, kind, tier, seen, ghosts>>

(* Mutant: only the operation's own name would be cleared, and autoheal     *)
(* runs under another.                                                      *)
ClearCurrentActionOwn(o) ==
    /\ pc[o] = "clear"
    /\ action' = IF action = kind[o] THEN None ELSE action
    /\ pc' = [pc EXCEPT ![o] = "idle"]
    /\ kind' = [kind EXCEPT ![o] = "doctor"]
    /\ tier' = [tier EXCEPT ![o] = 3]
    /\ UNCHANGED <<snapshot, warm, log, seen, ghosts>>

(* The deferred clearCurrentAction, whoever set it. *)
ClearCurrentAction(o) ==
    /\ pc[o] = "clear"
    /\ action' = None
    /\ pc' = [pc EXCEPT ![o] = "idle"]
    /\ kind' = [kind EXCEPT ![o] = "doctor"]
    /\ tier' = [tier EXCEPT ![o] = 3]
    /\ UNCHANGED <<snapshot, warm, log, seen, ghosts>>

(***************************************************************************)
(* Time.                                                                   *)
(***************************************************************************)
GraceEnds ==
    /\ warm \/ recent
    /\ warm' = FALSE /\ recent' = FALSE
    /\ UNCHANGED <<snapshot, action, log, pc, kind, tier, seen, asked, downs, met,
                   alone>>

(* AutohealNextEligible is a plain deadline: a cascade may still run. *)
CooldownEnds ==
    /\ cooling
    /\ cooling' = FALSE
    /\ UNCHANGED <<probed, alive, intent, missing, streak, phase, action, warm,
                   log, pc, kind, tier, seen, ghosts>>

Run(o) ==
    \/ SetCurrentAction(o) \/ ResetActionLog(o) \/ RunCmd(o)
    \/ SkipOSRestart(o) \/ CmdReturns(o) \/ Judge(o)
    \/ FinalizeActionLog(o) \/ ClearCurrentAction(o)

ProbeNow(p) == Observe(p) \/ Enter(p) \/ Store(p)

Next ==
    \/ \E o \in UserOps, k \in Requests : Dispatch(o, k)
    \/ \E o \in Ops : Run(o)
    \/ \E p \in Probers : ProbeNow(p)
    \/ GraceEnds \/ CooldownEnds

Spec == Init /\ [][Next]_vars

(***************************************************************************)
(* Fairness: goroutines are scheduled, commands and probes have timeouts,  *)
(* and the cooldown ends. It is strong fairness because a goroutine may    *)
(* have to wait for the store's lock: a sync.RWMutex starves neither       *)
(* readers nor writers. Nothing is assumed of operators or of the gateway. *)
(***************************************************************************)
Fairness ==
    /\ \A o \in Ops : SF_vars(Run(o) \/ ProbeNow(o))
    /\ SF_vars(ProbeNow(Poller))
    /\ WF_vars(CooldownEnds)

FairSpec == Spec /\ Fairness

(***************************************************************************)
(* Properties.                                                             *)
(***************************************************************************)
(* A click is never lost to a probe that began before it: ProbeNow copies   *)
(* the Snapshot, blocks for seconds, and writes the copy back.              *)
IntentKept == intent = asked

(* Each cascade autoheal starts answers an outage of its own: since the     *)
(* last alive probe, and since the cascade before it was triggered, at      *)
(* least Threshold down probes have been stored, this one included, and the *)
(* operator has not asked for a stop; although poller, requests and earlier *)
(* cascades probe concurrently and share one action slot that any of them   *)
(* may clear. Nothing keeps it from starting while an earlier one runs.     *)
HealNeedsOutage ==
    [][\A o \in Ops : pc[o] = "idle" /\ pc'[o] = "begin" /\ kind'[o] = "heal"
         => downs + 1 >= Threshold /\ ~alive' /\ asked # "stopped"]_vars

(* The inductive invariant behind the two: the streak never runs ahead of   *)
(* the outage.                                                              *)
HealInv ==
    /\ IntentKept
    /\ streak \in Nat /\ downs \in 0..Threshold /\ streak <= downs
    /\ pc \in [Probers -> Places]

(* As long as no two operations have overlapped, the badge only falls to    *)
(* "error" by a probe that met no start, restart or fix in flight when it   *)
(* read the current action, and not within the grace after an attempt,      *)
(* whatever the command's exit code and however probe and action            *)
(* interleave: the badge is covered from setCurrentAction on, not from the  *)
(* click.                                                                   *)
NoErrorFlap ==
    [][alone /\ phase # "error" /\ phase' = "error"
         => ~recent /\ \A p \in Probers : pc[p] = "locked" => ~met[p]]_vars

(* As long as no two operations have overlapped, a client that sees no      *)
(* current action finds the action log settled, and with the events of one  *)
(* operation only.                                                          *)
LogSettled == alone /\ action = None => ~log.running /\ log.pure

(* Why: the one operation at work owns the slot from setCurrentAction and   *)
(* the log from its reset on.                                               *)
Serial ==
    /\ log.pure
    /\ \A o, q \in Ops : pc[o] # "idle" /\ pc[q] # "idle" => o = q
    /\ (\A o \in Ops : ~InFlight(o)) => action = None
    /\ (\A o \in Ops : pc[o] \in {"idle", "begin", "clear"}) => ~log.running
    /\ \A o \in Ops :
         /\ InFlight(o) => action = Name(kind[o])
         /\ pc[o] \notin {"idle", "begin", "reset"} => log.owner = o

(* ... which holds until operations overlap. *)
SerialInv == alone => Serial

(* The store's lock has at most one holder. *)
LockInv ==
    \A p, q \in Probers : pc[p] = "locked" /\ pc[q] = "locked" => p = q

(* What the badge rests on: a probe that meets an operation in flight has   *)
(* read its name, and every recent attempt has been stamped.                *)
BadgeInv ==
    /\ recent => warm
    /\ alone => \A p \in Probers : met[p] => seen[p].action \in StartingActions

(* An outage nobody asked for does not last: unless an operator acts or     *)
(* stops the gateway, or the CLI is missing, autoheal runs.                 *)
OutageIsHealed ==
    []<>(alive \/ intent = "stopped" \/ missing \/ action # None
           \/ \E o \in Ops : pc[o] # "idle" /\ kind[o] = "heal")

(* currentAction never sticks: a stuck value "would permanently disable     *)
(* autoheal and keep the badge blue forever" (action.go).                   *)
ActionClears == action # None ~> action = None
=============================================================================
