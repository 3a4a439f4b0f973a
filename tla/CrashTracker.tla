---------------------------- MODULE CrashTracker ----------------------------
(***************************************************************************)
(* The restart budget (internal/supervisor/backoff.go) on a real clock,    *)
(* driven the way loop drives it: RecordCrash, then either a rollback that *)
(* resets the tracker, or a backoff delay before the next spawn.           *)
(* Supervisor.tla abstracts this to "a crash leaves between one and one    *)
(* more crash in the window".                                              *)
(***************************************************************************)
EXTENDS Clock, Sequences

CONSTANTS
    Base, Max,       \* the delays of BackoffPolicy
    SteadyReset,
    CrashWindow,
    CrashCap,
    Width            \* bits of a time.Duration (64 in the code)

ASSUME PolicyAssumption ==
    /\ Base \in Nat \ {0} /\ Max \in Nat \ {0} /\ SteadyReset \in Nat \ {0}
    /\ CrashWindow \in Nat /\ CrashCap \in Nat \ {0}
    /\ Width \in Nat \ {0, 1, 2}

Half == 2^(Width - 1)

(* The value of n as a signed integer of Width bits. *)
Signed(n) ==
    LET m == n % (2 * Half) IN IF m >= Half THEN m - 2 * Half ELSE m

(* Base << shift *)
Shifted(shift) == Signed(Base * 2^shift)

Shortest == IF Base < Max THEN Base ELSE Max

(* No shift wraps around to a delay that is positive and yet too short. The *)
(* defaults have this from the nine factors 2 of 1 s = 10^9 ns: 10^9 << 34  *)
(* is the first to overflow 63 bits, and a multiple of 2^43 ns that is      *)
(* positive is longer than Max. (The first conjunct is arithmetic, for the  *)
(* provers' sake.)                                                          *)
ASSUME ShiftAssumption ==
    /\ Half \in Nat \ {0}
    /\ \A shift \in 0..(Width - 2) : Shifted(shift) <= 0 \/ Shifted(shift) >= Shortest

Never == -1          \* a zero time.Time

VARIABLES
    phase,           \* "session" (a worker runs) or "waiting" (sleep)
    running,         \* Tracker.running
    crashes,         \* Tracker.crashes
    delay,           \* what Delay returned for the wait in progress
    \* ---- observation only ----
    log,             \* every crash since the last rollback, with whether the
                     \* worker had been steady before it
    wakeAt           \* when the backoff ends

trackerVars == <<now, phase, running, crashes, delay, log, wakeAt>>

(* Times, counters and delays are in range. *)
TrackerTypeOK ==
    /\ now \in Nat /\ phase \in {"session", "waiting"}
    /\ running \in Nat \cup {Never} /\ wakeAt \in Nat
    /\ crashes \in Seq(Nat) /\ Len(crashes) < CrashCap
    /\ delay \in Nat
    /\ log \in Seq([at : Nat, steady : BOOLEAN])

TrackerInit ==
    /\ now = 0 /\ phase = "session" /\ running = Never /\ crashes = <<>>
    /\ delay = 0 /\ log = <<>> /\ wakeAt = 0

(* Mutant: the overflow test is missing. *)
NominalUnchecked(n) ==
    LET d == Shifted(IF n - 1 > Width - 2 THEN Width - 2 ELSE n - 1)
    IN  IF d > Max THEN Max ELSE d

(* BackoffPolicy.Delay before jitter, for n >= 1 consecutive crashes. *)
Nominal(n) ==
    LET shift == IF n - 1 > Width - 2 THEN Width - 2 ELSE n - 1
        d     == Shifted(shift)
    IN  IF d <= 0 \/ d > Max THEN Max ELSE d

(* jitter: a factor of 8, 9, 10 or 11 tenths, in integer arithmetic. *)
Jitter(d) == {(d * numer) \div 10 : numer \in 8..11}

(* READY: the session is Running. *)
MarkRunning ==
    /\ phase = "session" /\ running = Never
    /\ running' = now
    /\ UNCHANGED <<now, phase, crashes, delay, log, wakeAt>>

Steady == running # Never /\ now - running >= SteadyReset

(* Mutant: a steady run does not clear the counter. *)
CarriedAlways == crashes

(* The crashes that the next one is appended to. *)
Carried == IF Steady THEN <<>> ELSE crashes

(* The timestamps of s that are not before the start of the window at t, for *)
(* an s in order that ends with t: what the code's filter keeps is the rest *)
(* of s from the first of them on (MCCrashTracker compares the two).        *)
Trim(s, t) ==
    LET first == CHOOSE i \in 1..Len(s) :
                    /\ s[i] >= t - CrashWindow
                    /\ \A j \in 1..(i - 1) : s[j] < t - CrashWindow
    IN  SubSeq(s, first, Len(s))

(* Mutant: the budget is exceeded before it is enforced. *)
ShouldRollbackLate(s) == Len(s) > CrashCap

ShouldRollback(s) == Len(s) >= CrashCap

ThisCrash == [at |-> now, steady |-> Steady]

(* RecordCrash, then ShouldRollback: a full window is rolled back and the    *)
(* tracker reset, otherwise the loop waits out the delay.                    *)
RecordCrash ==
    LET kept == Trim(Append(Carried, now), now)
    IN  /\ phase = "session"
        /\ running' = Never
        /\ IF ShouldRollback(kept)
           THEN /\ crashes' = <<>> /\ log' = <<>>
                /\ UNCHANGED <<phase, delay, wakeAt>>
           ELSE /\ crashes' = kept /\ log' = Append(log, ThisCrash)
                /\ phase' = "waiting"
                /\ delay' \in Jitter(Nominal(Len(kept)))
                /\ wakeAt' = now + delay'
        /\ UNCHANGED now

(* Another rollback (install gate, exit 65, spawn failure) resets it. *)
TrackerReset ==
    /\ phase = "session"
    /\ crashes' = <<>> /\ running' = Never /\ log' = <<>>
    /\ UNCHANGED <<now, phase, delay, wakeAt>>

(* sleep returns and the next worker is spawned. *)
Wake ==
    /\ phase = "waiting" /\ now >= wakeAt
    /\ phase' = "session"
    /\ UNCHANGED <<now, running, crashes, delay, log, wakeAt>>

TimePasses ==
    /\ now < MaxTime
    /\ now' = now + 1
    /\ UNCHANGED <<phase, running, crashes, delay, log, wakeAt>>

TrackerNext == MarkRunning \/ RecordCrash \/ TrackerReset \/ Wake \/ TimePasses

TrackerSpec == TrackerInit /\ [][TrackerNext]_trackerVars

(***************************************************************************)
(* Properties.                                                             *)
(***************************************************************************)
(* The last k crashes of s came within one window of each other, with no    *)
(* steady run between them.                                                 *)
Burst(s, k) ==
    LET n == Len(s)
    IN  /\ k <= n
        /\ s[n].at - s[n - k + 1].at <= CrashWindow
        /\ \A i \in (n - k + 2)..n : ~s[i].steady

(* The trimmed slice never forgets a crash that matters and never counts    *)
(* one that does not: while the loop waits, Consecutive is the length of    *)
(* the longest burst of crashes, and so the delay is decided by exactly the *)
(* crashes the policy speaks of, although the slice is trimmed only when    *)
(* another crash is recorded.                                               *)
CountsTheBurst ==
    log # <<>> => \A k \in 1..Len(log) : Burst(log, k) <=> k <= Len(crashes)

(* "ShouldRollback reports whether the crash-cap has been hit inside the    *)
(* sliding window": a crash rolls the version back if, and only if, it ends *)
(* a burst of CrashCap crashes since the last rollback, of whichever        *)
(* workers; it neither gives up a version early nor puts up with one more.  *)
RollbackIsEarned ==
    [][RecordCrash
         => (log' = <<>> <=> Burst(Append(log, ThisCrash), CrashCap))]_trackerVars

(* What makes it so: the log is in order, and the slice is the end of it,   *)
(* with neither a steady run nor a window's length inside and one of the    *)
(* two before it.                                                           *)
BurstInv ==
    LET n == Len(log)
        c == Len(crashes)
    IN  /\ \A i \in 1..n : log[i].at <= now
        /\ \A i, j \in 1..n : i <= j => log[i].at <= log[j].at
        /\ c <= n /\ (n > 0 => c > 0)
        /\ \A i \in 1..c : crashes[i] = log[n - c + i].at
        /\ \A i \in (n - c + 2)..n : ~log[i].steady
        /\ n > 0 => log[n].at - log[n - c + 1].at <= CrashWindow
        /\ c < n => \/ log[n - c + 1].steady
                   \/ log[n].at - log[n - c].at > CrashWindow

(* The delay is positive and below 1.2 times the maximum, however many      *)
(* crashes there were and whatever the shift overflows to: a crash loop     *)
(* never turns into a busy loop.                                            *)
DelayInRange ==
    phase = "waiting" => /\ delay * 10 >= 8 * Shortest - 9
                         /\ delay * 10 < 12 * Max
=============================================================================
