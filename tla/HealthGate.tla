----------------------------- MODULE HealthGate -----------------------------
(***************************************************************************)
(* The install health gate (internal/supervisor/healthgate.go) on a real   *)
(* clock, driven the way runOneSpawn drives it: one timer, set to NextWake *)
(* when the gate is armed and set again, floored by clampWake, on READY    *)
(* and on every undecided wake-up. Supervisor.tla abstracts this module to *)
(* "the gate may time out at any moment, and may pass after READY".        *)
(*                                                                         *)
(* Timers fire late: up to Late units after they are due, during which     *)
(* READY or a crash may be handled first.                                  *)
(***************************************************************************)
EXTENDS Clock

CONSTANTS
    Window,      \* GateWindow
    StableFor,   \* GateStableFor
    MinWake,     \* the floor in clampWake
    Late         \* how late the timer case of the select may run

(* 15 s of stability against a 10 ms floor and scheduling delays. *)
ASSUME GateAssumption ==
    /\ Window \in Nat \ {0} /\ StableFor \in Nat /\ MinWake \in Nat
    /\ Late \in Nat
    /\ MinWake + Late < StableFor

NoTime == -1     \* a timer that is not set, a time.Time that is zero

VARIABLES
    state,       \* HealthGate.state
    deadline,    \* HealthGate.deadline
    readyAt,     \* HealthGate.readyAt
    wake,        \* when gateTimer is due
    verdict      \* what became of the last watched install

vars == <<now, state, deadline, readyAt, wake, verdict>>

IsActive == state \in {"armed", "stabilizing"}

Times == Nat \cup {NoTime}

(* States are states, instants are instants, and READY was not received in  *)
(* the future.                                                              *)
TypeOK ==
    /\ now \in Nat /\ deadline \in Times /\ wake \in Times
    /\ readyAt \in Times /\ readyAt <= now
    /\ state \in {"inactive", "armed", "stabilizing"}
    /\ verdict \in {"none", "pass", "timeout", "crash"}

Init ==
    /\ now \in 0..MaxTime
    /\ state = "inactive" /\ deadline = NoTime /\ readyAt = NoTime
    /\ wake = NoTime /\ verdict = "none"

(* untilNonNegative *)
UntilNonNegative(t, n) == IF t - n < 0 THEN 0 ELSE t - n

(* Mutant: the wake-up after READY ignores the deadline. *)
NextWakeStableOnly(s, d, r, n) ==
    IF s = "stabilizing" THEN UntilNonNegative(r + StableFor, n)
    ELSE UntilNonNegative(d, n)

(* NextWake, for a gate in state s with deadline d and READY at r. *)
NextWake(s, d, r, n) ==
    IF s = "stabilizing" /\ r + StableFor < d
    THEN UntilNonNegative(r + StableFor, n)
    ELSE UntilNonNegative(d, n)

(* Mutant: the floor is taken for a ceiling. *)
ClampWakeCeiling(w) == IF w > MinWake THEN MinWake ELSE w

(* clampWake *)
ClampWake(w) == IF w < MinWake THEN MinWake ELSE w

(* prepareGate and the top of runOneSpawn: a stale marker leaves the gate   *)
(* off, otherwise it is armed and the timer set.                            *)
Arm(installedAt) ==
    /\ state = "inactive"
    /\ IF now < installedAt + Window
       THEN /\ state' = "armed"
            /\ deadline' = installedAt + Window
            /\ readyAt' = NoTime
            /\ verdict' = "none"
            /\ wake' = now + NextWake("armed", deadline', NoTime, now)
       ELSE UNCHANGED <<state, deadline, readyAt, verdict, wake>>
    /\ UNCHANGED now

(* Mutant: the timer keeps the deadline it was armed with. *)
OnReadyTimerKept ==
    /\ state = "armed"
    /\ state' = "stabilizing" /\ readyAt' = now
    /\ UNCHANGED <<now, deadline, wake, verdict>>

(* The first READY of the session; the timer is set again. *)
OnReady ==
    /\ state = "armed"
    /\ state' = "stabilizing" /\ readyAt' = now
    /\ wake' = now + ClampWake(NextWake("stabilizing", deadline, now, now))
    /\ UNCHANGED <<now, deadline, verdict>>

(* The worker crashed while it was watched: rollbackForInstallHealth        *)
(* resets the gate.                                                         *)
OnCrash ==
    /\ IsActive
    /\ state' = "inactive" /\ wake' = NoTime /\ verdict' = "crash"
    /\ UNCHANGED <<now, deadline, readyAt>>

(* The session ends for another reason (shutdown, exit 64 or 65): no        *)
(* verdict, and the next prepareGate resets the gate.                       *)
Reset ==
    /\ IsActive
    /\ state' = "inactive" /\ wake' = NoTime
    /\ UNCHANGED <<now, deadline, readyAt, verdict>>

(* Mutant: the deadline is tested before stability. *)
TickDeadlineFirst(n) ==
    IF n >= deadline THEN "timeout"
    ELSE IF state = "stabilizing" /\ n - readyAt >= StableFor THEN "pass"
    ELSE "none"

(* Tick: stability is tested before the deadline. *)
Tick(n) ==
    IF state = "stabilizing" /\ n - readyAt >= StableFor THEN "pass"
    ELSE IF n >= deadline THEN "timeout"
    ELSE "none"

(* gateTimer fires. *)
OnTimer ==
    /\ IsActive /\ wake # NoTime /\ wake <= now
    /\ verdict' = Tick(now)
    /\ state' = IF verdict' = "none" THEN state ELSE "inactive"
    /\ wake' = IF verdict' = "none"
               THEN now + ClampWake(NextWake(state, deadline, readyAt, now))
               ELSE NoTime
    /\ UNCHANGED <<now, deadline, readyAt>>

(* Time passes; a due timer is at most Late behind. *)
Advance ==
    /\ now < MaxTime
    /\ wake # NoTime => now < wake + Late
    /\ now' = now + 1
    /\ UNCHANGED <<state, deadline, readyAt, wake, verdict>>

Next ==
    \/ \E t \in 0..now : Arm(t)
    \/ OnReady \/ OnCrash \/ Reset \/ OnTimer \/ Advance

Spec == Init /\ [][Next]_vars

(***************************************************************************)
(* Properties.                                                             *)
(***************************************************************************)
(* An install that was READY early enough to be stable before the deadline  *)
(* is never timed out, however late the timer runs: Tick looks at stability *)
(* first.                                                                   *)
NoUnfairTimeout ==
    verdict = "timeout" /\ readyAt # NoTime => readyAt + StableFor > deadline

(* An install passes only if it was stable by the deadline, up to the       *)
(* lateness of the timer; in particular READY after the deadline, while the *)
(* timer is already due, does not save it.                                  *)
PassIsTimely ==
    verdict = "pass" => readyAt # NoTime /\ readyAt + StableFor <= deadline + Late

(* A watched install is judged on time: at the deadline before READY, and   *)
(* after it at the earlier of deadline and stability, or one minimal        *)
(* wake-up after READY when that is later.                                  *)
JudgedOnTime ==
    /\ state = "armed" => now <= deadline + Late
    /\ state = "stabilizing" =>
         \/ now <= readyAt + MinWake + Late
         \/ now <= deadline + Late /\ now <= readyAt + StableFor + Late

(* A timer that fires always decides: runOneSpawn never spins on Pending. *)
WakeDecides == IsActive /\ wake # NoTime /\ wake <= now => Tick(now) # "none"

(***************************************************************************)
(* The inductive invariant: where the timer stands in each state.          *)
(***************************************************************************)
TimerInv ==
    /\ wake # NoTime <=> IsActive
    /\ wake # NoTime => now <= wake + Late
    /\ IsActive => deadline # NoTime /\ verdict = "none"
    /\ state = "armed" => wake = deadline /\ readyAt = NoTime
    /\ state = "stabilizing" =>
         /\ readyAt # NoTime /\ readyAt <= now
         /\ \/ wake = readyAt + MinWake
            \/ wake = deadline
            \/ wake = readyAt + StableFor
         /\ wake >= deadline \/ wake >= readyAt + StableFor
         /\ \/ wake = readyAt + MinWake
            \/ wake <= deadline /\ wake <= readyAt + StableFor

Inv == TypeOK /\ TimerInv /\ NoUnfairTimeout /\ PassIsTimely
=============================================================================
