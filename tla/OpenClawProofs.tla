--------------------------- MODULE OpenClawProofs ---------------------------
(***************************************************************************)
(* Clicks are never lost, autoheal never fires without an outage, and as   *)
(* long as operations do not overlap log and badge are honest, for any     *)
(* number of concurrent requests and cascades and any threshold.           *)
(***************************************************************************)
EXTENDS OpenClawManager, TLAPS

USE ManagerAssumption

(* A step of a goroutine moves only that goroutine, and never to "begin". *)
LEMMA RunMoves ==
    ASSUME HealInv, NEW o \in Ops, Run(o)
    PROVE  /\ UNCHANGED <<intent, asked, streak, downs, cooling, seen, met, alone>>
           /\ pc[o] # "idle"
           /\ \E place \in Places \ {"begin"} : pc' = [pc EXCEPT ![o] = place]
<1>1. CASE SetCurrentAction(o)
    BY <1>1 DEF SetCurrentAction, Places, snapshot, ghosts
<1>2. CASE ResetActionLog(o)
    BY <1>2 DEF ResetActionLog, Places, snapshot, ghosts
<1>3. CASE RunCmd(o)
    BY <1>3 DEF RunCmd, Places, snapshot, ghosts
<1>4. CASE SkipOSRestart(o)
    BY <1>4 DEF SkipOSRestart, Places, snapshot, ghosts
<1>5. CASE CmdReturns(o)
    BY <1>5 DEF CmdReturns, Places, snapshot
<1>6. CASE Judge(o)
    BY <1>6 DEF Judge, Places, snapshot
<1>7. CASE FinalizeActionLog(o)
    BY <1>7 DEF FinalizeActionLog, Places, snapshot, ghosts
<1>8. CASE ClearCurrentAction(o)
    BY <1>8 DEF ClearCurrentAction, Places, snapshot, ghosts
<1>9. QED
    BY <1>1, <1>2, <1>3, <1>4, <1>5, <1>6, <1>7, <1>8 DEF Run

(* What a probe that stores does: either nobody is woken and the streak     *)
(* grows no faster than the outage, or an idle healer is, at the threshold. *)
LEMMA StoreDecides ==
    ASSUME HealInv, NEW p \in Probers, Store(p)
    PROVE  /\ UNCHANGED <<intent, asked>>
           /\ streak' \in Nat /\ downs' \in 0..Threshold /\ streak' <= downs'
           /\ pc[p] = "locked"
           /\ \/ /\ pc' = [pc EXCEPT ![p] = AfterProbe(p)]
                 /\ UNCHANGED <<kind, alone, cooling>>
              \/ /\ downs + 1 >= Threshold /\ ~alive' /\ intent # "stopped"
                 /\ NotesOverlap /\ cooling' = TRUE
                 /\ \E h \in Healers :
                      /\ pc[h] = "idle"
                      /\ pc' = [pc EXCEPT ![p] = AfterProbe(p), ![h] = "begin"]
                      /\ kind' = [kind EXCEPT ![h] = "heal"]
<1> DEFINE s == seen[p]
           n == NextStreak(s.alive, s.action)
<1>1. /\ pc[p] = "locked" /\ alive' = s.alive
      /\ UNCHANGED <<intent, asked>>
    BY DEF Store, StoreProbe
<1>2. n \in Nat /\ n <= downs + 1 /\ n <= Threshold
    BY DEF HealInv, NextStreak, Min2
<1>3. CASE Fires(p)
  <2>1. /\ streak' = 0 /\ cooling' = TRUE /\ downs' = 0 /\ NotesOverlap
        /\ \E h \in Healers :
              /\ pc[h] = "idle"
              /\ pc' = [pc EXCEPT ![p] = AfterProbe(p), ![h] = "begin"]
              /\ kind' = [kind EXCEPT ![h] = "heal"]
    BY <1>3 DEF Store, StoreProbe
  <2>2. ~s.alive /\ intent # "stopped" /\ n >= Threshold
    BY <1>3 DEF Fires, ShouldAutoheal
  <2>3. downs + 1 >= Threshold
    BY <1>2, <2>2 DEF HealInv
  <2>4. streak' \in Nat /\ downs' \in 0..Threshold /\ streak' <= downs'
    BY <2>1
  <2>5. ~alive'
    BY <1>1, <2>2
  <2>6. QED
    BY <1>1, <2>1, <2>2, <2>3, <2>4, <2>5
<1>4. CASE ~Fires(p)
  <2>1. /\ streak' = n /\ UNCHANGED <<kind, alone, cooling>>
        /\ downs' = IF s.alive THEN 0 ELSE Min2(downs + 1, Threshold)
        /\ pc' = [pc EXCEPT ![p] = AfterProbe(p)]
    BY <1>4 DEF Store, StoreProbe
  <2>2. streak' \in Nat /\ downs' \in 0..Threshold /\ streak' <= downs'
    BY <1>2, <2>1 DEF HealInv, NextStreak, Min2
  <2>3. QED
    BY <1>1, <2>1, <2>2
<1>5. QED
    BY <1>3, <1>4

(* Every step of every goroutine and of time preserves the invariant. *)
LEMMA StepHealInv == HealInv /\ [Next]_vars => HealInv'
<1> SUFFICES ASSUME HealInv, [Next]_vars PROVE HealInv'
    OBVIOUS
<1>0. Ops \subseteq Probers /\ UserOps \subseteq Ops /\ Healers \subseteq Ops
    BY DEF Probers, Ops
<1>1. ASSUME NEW o \in UserOps, NEW k \in Requests, Dispatch(o, k) PROVE HealInv'
  <2>1. intent' = asked'
    BY <1>1 DEF Dispatch, HealInv, IntentKept
  <2>2. pc' = [pc EXCEPT ![o] = "begin"] /\ UNCHANGED <<streak, downs>>
    BY <1>1 DEF Dispatch
  <2>3. QED
    BY <1>0, <2>1, <2>2 DEF HealInv, IntentKept, Places
<1>2. ASSUME NEW o \in Ops, Run(o) PROVE HealInv'
  <2>1. PICK place \in Places \ {"begin"} : pc' = [pc EXCEPT ![o] = place]
    BY <1>2, RunMoves
  <2>2. UNCHANGED <<intent, asked, streak, downs>>
    BY <1>2, RunMoves
  <2>3. QED
    BY <2>1, <2>2 DEF HealInv, IntentKept
<1>3. ASSUME NEW p \in Probers, Observe(p) \/ Enter(p) PROVE HealInv'
  <2>1. /\ \E place \in {"store", "locked"} : pc' = [pc EXCEPT ![p] = place]
        /\ UNCHANGED <<intent, asked, streak, downs>>
    BY <1>3 DEF Observe, Enter, snapshot, ghosts
  <2>2. QED
    BY <2>1 DEF HealInv, IntentKept, Places
<1>4. ASSUME NEW p \in Probers, Store(p) PROVE HealInv'
  <2>1. pc' \in [Probers -> Places]
    BY <1>0, <1>4, StoreDecides DEF HealInv, Places, AfterProbe
  <2>2. QED
    BY <1>4, <2>1, StoreDecides DEF HealInv, IntentKept
<1>5. CASE GraceEnds
    BY <1>5 DEF GraceEnds, snapshot, HealInv, IntentKept
<1>6. CASE CooldownEnds
    BY <1>6 DEF CooldownEnds, ghosts, HealInv, IntentKept
<1>7. CASE UNCHANGED vars
    BY <1>7 DEF vars, snapshot, ghosts, HealInv, IntentKept
<1>8. QED
    BY <1>1, <1>2, <1>3, <1>4, <1>5, <1>6, <1>7 DEF Next, ProbeNow

(* The invariant holds in every reachable state. *)
LEMMA HealInvariance == Spec => []HealInv
<1>1. Init => HealInv
  <2> SUFFICES ASSUME Init PROVE HealInv
    OBVIOUS
  <2>1. pc \in [Probers -> Places]
    BY DEF Init, Places, Probers
  <2>2. intent = asked /\ streak = 0 /\ downs = 0
    BY DEF Init
  <2>3. QED
    BY <2>1, <2>2 DEF HealInv, IntentKept
<1>2. QED
    BY <1>1, StepHealInv, PTL DEF Spec

(* No click is ever overwritten by a probe, however many requests, probes   *)
(* and cascades run at once.                                                *)
THEOREM ClicksAreKept == Spec => []IntentKept
<1>1. HealInv => IntentKept
    BY DEF HealInv
<1>2. QED
    BY <1>1, HealInvariance, PTL

(***************************************************************************)
(* Types, proved apart from the rest: no other proof needs more of them    *)
(* than HealInv says.                                                      *)
(***************************************************************************)
(* A step of an operation keeps the types of what it writes. *)
LEMMA RunTypes ==
    ASSUME TypeOK, HealInv, NEW o \in Ops, Run(o)
    PROVE  TypeOK'
<1>0. UNCHANGED <<probed, alive, missing, cooling, intent, asked, streak, downs,
                  phase, seen, met, alone>>
    BY DEF Run, SetCurrentAction, ResetActionLog, RunCmd, SkipOSRestart, CmdReturns,
       Judge, FinalizeActionLog, ClearCurrentAction, snapshot, ghosts
<1>1. warm' \in BOOLEAN /\ recent' \in BOOLEAN
  <2>1. warm \in BOOLEAN /\ recent \in BOOLEAN
    BY DEF TypeOK, FlagTypes
  <2>2. CASE CmdReturns(o)
    BY <2>2, Zenon DEF CmdReturns
  <2>3. CASE Judge(o)
    BY <2>1, <2>3, Zenon DEF Judge
  <2>4. CASE UNCHANGED <<warm, recent>>
    BY <2>1, <2>4
  <2>5. QED
    BY <2>2, <2>3, <2>4 DEF Run, SetCurrentAction, ResetActionLog, RunCmd,
       SkipOSRestart, FinalizeActionLog, ClearCurrentAction, ghosts
<1>2. log' \in Logs
  <2>1. log \in Logs /\ log.running \in BOOLEAN /\ log.owner \in Ops \cup {None}
    BY DEF TypeOK, Logs
  <2>2. CASE log' = log
    BY <2>1, <2>2
  <2>3. CASE log' = [owner |-> o, running |-> TRUE, pure |-> TRUE]
    BY <2>3 DEF Logs
  <2>4. CASE RecordActionEvent(o)
    <3> DEFINE b == log.pure /\ log.owner = o
    <3>1. b \in BOOLEAN
      BY Zenon
    <3>2. log' = [log EXCEPT !.pure = b]
      BY <2>4 DEF RecordActionEvent
    <3> HIDE DEF b
    <3>3. QED
      BY <2>1, <3>1, <3>2 DEF Logs
  <2>5. CASE log' = [log EXCEPT !.running = FALSE]
    BY <2>1, <2>5 DEF Logs
  <2>6. QED
    BY <2>2, <2>3, <2>4, <2>5 DEF Run, SetCurrentAction, ResetActionLog, RunCmd,
       SkipOSRestart, CmdReturns, Judge, FinalizeActionLog, ClearCurrentAction
<1>3. pc' \in [Probers -> Places]
    BY RunMoves DEF TypeOK
<1>4. kind' \in [Ops -> Actions \cup {"fix", "heal"}]
    BY DEF TypeOK, Run, SetCurrentAction, ResetActionLog, RunCmd, SkipOSRestart,
       CmdReturns, Judge, FinalizeActionLog, ClearCurrentAction, Actions
<1>5. tier' \in [Ops -> 1..3]
  <2>1. tier \in [Ops -> 1..3]
    BY DEF TypeOK
  <2>2. \/ tier' = tier
        \/ tier' = [tier EXCEPT ![o] = 1] \/ tier' = [tier EXCEPT ![o] = 3]
        \/ tier[o] < 3 /\ tier' = [tier EXCEPT ![o] = tier[o] + 1]
    BY <2>1 DEF Run, SetCurrentAction, ResetActionLog, RunCmd, SkipOSRestart,
       CmdReturns, Judge, FinalizeActionLog, ClearCurrentAction
  <2>3. QED
    BY <2>1, <2>2
<1>6. action' \in Actions \cup {"fix", None}
    BY DEF TypeOK, Run, SetCurrentAction, ResetActionLog, RunCmd, SkipOSRestart,
       CmdReturns, Judge, FinalizeActionLog, ClearCurrentAction, Name
<1>7. FlagTypes'
    BY <1>0, <1>1 DEF TypeOK, FlagTypes
<1>8. QED
    BY <1>0, <1>2, <1>3, <1>4, <1>5, <1>6, <1>7 DEF TypeOK

(* Every step of every goroutine and of time preserves the types. *)
LEMMA TypeStep ==
    ASSUME TypeOK, HealInv, [Next]_vars
    PROVE  TypeOK'
<1> USE DEF TypeOK, snapshot, ghosts
<1>1. ASSUME NEW o \in UserOps, NEW k \in Requests, Dispatch(o, k) PROVE TypeOK'
  <2>1. o \in Ops /\ o \in Probers /\ k \in Actions \cup {"fix", "heal"}
    BY DEF Ops, Probers
  <2>2. intent' \in Intents /\ asked' \in Intents
    BY <1>1 DEF Dispatch, Intents
  <2>3. alone' \in BOOLEAN
    BY <1>1, Zenon DEF Dispatch, NotesOverlap
  <2>4. FlagTypes'
    BY <1>1, <2>3 DEF Dispatch, FlagTypes
  <2>5. QED
    BY <1>1, <2>1, <2>2, <2>4 DEF Dispatch, Places
<1>2. ASSUME NEW o \in Ops, Run(o) PROVE TypeOK'
    BY <1>2, RunTypes
<1>3. ASSUME NEW p \in Probers, Observe(p) PROVE TypeOK'
  <2>1. PICK a \in BOOLEAN, m \in CliSeen :
           seen' = [seen EXCEPT ![p] = [alive |-> a, missing |-> m, intent |-> intent,
                                        action |-> seen[p].action]]
    BY <1>3 DEF Observe
  <2>2. [alive |-> a, missing |-> m, intent |-> intent, action |-> seen[p].action]
          \in Findings
    BY DEF Findings
  <2>3. seen' \in [Probers -> Findings]
    BY <2>1, <2>2
  <2>4. FlagTypes'
    BY <1>3 DEF Observe, FlagTypes
  <2>5. QED
    BY <1>3, <2>3, <2>4 DEF Observe, Places
<1>4. ASSUME NEW p \in Probers, Enter(p) PROVE TypeOK'
  <2>1. seen' = [seen EXCEPT ![p] = [seen[p] EXCEPT !.action = action]]
    BY <1>4 DEF Enter
  <2>2. [seen[p] EXCEPT !.action = action] \in Findings
    BY DEF Findings
  <2>3. seen' \in [Probers -> Findings]
    BY <2>1, <2>2
  <2>4. met' \in [Probers -> BOOLEAN]
    <3> DEFINE b == BringingUp
    <3>1. b \in BOOLEAN
      BY Zenon DEF BringingUp
    <3>2. met' = [met EXCEPT ![p] = b]
      BY <1>4 DEF Enter
    <3> HIDE DEF b
    <3>3. QED
      BY <3>1, <3>2
  <2>5. FlagTypes'
    BY <1>4 DEF Enter, FlagTypes
  <2>6. QED
    BY <1>4, <2>3, <2>4, <2>5 DEF Enter, Places
<1>5. ASSUME NEW p \in Probers, Store(p) PROVE TypeOK'
  <2> DEFINE s == seen[p]
  <2>0. Healers \subseteq Ops
    BY DEF Ops
  <2>1. s.alive \in BOOLEAN /\ s.missing \in BOOLEAN
    BY DEF Findings
  <2>2. /\ probed' = TRUE /\ alive' = s.alive /\ missing' = s.missing
        /\ UNCHANGED <<warm, recent, intent, asked, action, log, tier>>
        /\ seen' = [seen EXCEPT ![p] = NoFinding] /\ met' = [met EXCEPT ![p] = FALSE]
        /\ phase' = ComputePhase(s.alive, s.missing, intent, s.action, warm)
    BY <1>5 DEF Store, StoreProbe
  <2>3. downs' \in 0..Threshold /\ streak' \in 0..Threshold
    <3>1. streak' \in Nat /\ downs' \in 0..Threshold /\ streak' <= downs'
      BY <1>5, StoreDecides
    <3>2. QED
      BY <3>1
  <2>4. seen' \in [Probers -> Findings] /\ met' \in [Probers -> BOOLEAN]
    BY <2>2 DEF NoFinding, Findings, Intents
  <2>5. phase' \in {"unknown", "missing", "stopped", "starting", "running", "error"}
    BY <2>2 DEF ComputePhase
  <2>6. cooling' \in BOOLEAN
    BY <1>5, StoreDecides DEF FlagTypes
  <2>7. alone' \in BOOLEAN
    <3>1. NotesOverlap => alone' \in BOOLEAN
      BY Zenon DEF NotesOverlap
    <3>2. QED
      BY <1>5, <3>1, StoreDecides DEF FlagTypes
  <2>8. FlagTypes'
    BY <2>1, <2>2, <2>6, <2>7 DEF FlagTypes
  <2>9. kind' \in [Ops -> Actions \cup {"fix", "heal"}]
    BY <1>5, <2>0, StoreDecides
  <2>10. HealInv'
    BY <1>5, StepHealInv DEF Next, ProbeNow
  <2>11. QED
    BY <2>2, <2>3, <2>4, <2>5, <2>8, <2>9, <2>10 DEF HealInv
<1>6. CASE GraceEnds
  <2>1. FlagTypes'
    BY <1>6 DEF GraceEnds, FlagTypes
  <2>2. QED
    BY <1>6, <2>1 DEF GraceEnds
<1>7. CASE CooldownEnds
  <2>1. FlagTypes'
    BY <1>7 DEF CooldownEnds, FlagTypes
  <2>2. QED
    BY <1>7, <2>1 DEF CooldownEnds
<1>8. CASE UNCHANGED vars
    BY <1>8 DEF vars, FlagTypes
<1>9. QED
    BY <1>1, <1>2, <1>3, <1>4, <1>5, <1>6, <1>7, <1>8 DEF Next, ProbeNow

(* The Snapshot, the action log and the goroutines keep their types: no      *)
(* cascade has a fourth tier and no streak outgrows the threshold.           *)
THEOREM ManagerTypes == Spec => []TypeOK
<1>1. Init => TypeOK
  <2> SUFFICES ASSUME Init PROVE TypeOK
    OBVIOUS
  <2>1. FlagTypes
    BY Zenon DEF Init, FlagTypes
  <2>2. log \in Logs
    BY DEF Init, Logs
  <2>3. seen \in [Probers -> Findings] /\ met \in [Probers -> BOOLEAN]
    BY DEF Init, NoFinding, Findings, Intents
  <2>4. kind \in [Ops -> Actions \cup {"fix", "heal"}]
    BY DEF Init, Actions
  <2>5. QED
    BY <2>1, <2>2, <2>3, <2>4 DEF Init, TypeOK, Places, Intents
<1>2. QED
    BY <1>1, TypeStep, HealInvariance, PTL DEF Spec

(* However many cascades and requests run at once, and however short the    *)
(* cooldown: every cascade that autoheal starts has Threshold down probes   *)
(* of its own behind it, none of them counted for an earlier cascade, and   *)
(* no operator's stop against it.                                           *)
THEOREM HealsOnlyOutages == Spec => HealNeedsOutage
<1> DEFINE Heals(o) == pc[o] = "idle" /\ pc'[o] = "begin" /\ kind'[o] = "heal"
           Due      == downs + 1 >= Threshold /\ ~alive' /\ asked # "stopped"
<1>1. HealInv /\ TypeOK /\ [Next]_vars => [\A o \in Ops : Heals(o) => Due]_vars
  <2> SUFFICES ASSUME HealInv, TypeOK, Next, NEW h \in Ops, Heals(h) PROVE Due
    OBVIOUS
  <2>0. h \in Probers /\ UserOps \subseteq Ops
    BY DEF Probers, Ops
  <2>1. ASSUME NEW o \in UserOps, NEW k \in Requests, Dispatch(o, k) PROVE FALSE
    <3>1. pc' = [pc EXCEPT ![o] = "begin"] /\ kind' = [kind EXCEPT ![o] = k]
      BY <2>1 DEF Dispatch
    <3>2. k # "heal"
      BY DEF Actions
    <3>3. CASE o = h
      BY <2>0, <3>1, <3>2, <3>3 DEF TypeOK
    <3>4. CASE o # h
      BY <2>0, <3>1, <3>4 DEF HealInv
    <3>5. QED
      BY <3>3, <3>4
  <2>2. ASSUME NEW o \in Ops, Run(o) PROVE FALSE
    <3>1. PICK place \in Places \ {"begin"} : pc' = [pc EXCEPT ![o] = place]
      BY <2>2, RunMoves
    <3>2. QED
      BY <2>0, <3>1 DEF HealInv
  <2>3. ASSUME NEW p \in Probers, Observe(p) \/ Enter(p) PROVE FALSE
    BY <2>0, <2>3 DEF Observe, Enter, HealInv
  <2>4. ASSUME NEW p \in Probers, Store(p) PROVE Due
    <3>1. pc' # [pc EXCEPT ![p] = AfterProbe(p)]
      BY <2>0 DEF HealInv, AfterProbe
    <3>2. QED
      BY <2>4, <3>1, StoreDecides DEF HealInv, IntentKept
  <2>5. ASSUME GraceEnds \/ CooldownEnds PROVE FALSE
    BY <2>5 DEF GraceEnds, CooldownEnds
  <2>6. QED
    BY <2>1, <2>2, <2>3, <2>4, <2>5 DEF Next, ProbeNow
<1>2. QED
    BY <1>1, HealInvariance, ManagerTypes, PTL DEF Spec, HealNeedsOutage

(***************************************************************************)
(* As long as no two operations have overlapped.                           *)
(***************************************************************************)
(* The operation at work keeps the slot and the log to itself.               *)
LEMMA SerialStep ==
    ASSUME HealInv, TypeOK, SerialInv, [Next]_vars
    PROVE  SerialInv'
<1> SUFFICES ASSUME alone' PROVE Serial'
    BY DEF SerialInv
<1>0. /\ Ops \subseteq Probers /\ Poller \notin Ops
      /\ UserOps \subseteq Ops /\ Healers \subseteq Ops
      /\ pc \in [Probers -> Places] /\ log \in Logs
      /\ kind \in [Ops -> Actions \cup {"fix", "heal"}]
    BY DEF Probers, Ops, TypeOK
<1>1. ASSUME NEW o \in UserOps, NEW k \in Requests, Dispatch(o, k) PROVE Serial'
  <2>1. alone /\ \A q \in Ops : pc[q] = "idle"
    BY <1>1 DEF Dispatch, NotesOverlap
  <2>2. /\ pc' = [pc EXCEPT ![o] = "begin"] /\ kind' = [kind EXCEPT ![o] = k]
        /\ UNCHANGED <<action, log>>
    BY <1>1 DEF Dispatch
  <2>3. log.pure /\ action = None /\ ~log.running
    BY <2>1 DEF SerialInv, Serial, InFlight
  <2>4. QED
    BY <1>0, <2>1, <2>2, <2>3 DEF Serial, InFlight
<1>2. ASSUME NEW o \in Ops, Run(o) PROVE Serial'
  <2>1. alone /\ Serial /\ pc[o] # "idle"
    BY <1>2, RunMoves DEF SerialInv
  <2>2. \A q \in Ops : q # o => pc[q] = "idle"
    BY <2>1 DEF Serial
  <2>3. CASE SetCurrentAction(o)
    <3>1. /\ action' = Name(kind[o]) /\ pc' = [pc EXCEPT ![o] = "reset"]
          /\ UNCHANGED <<log, kind>> /\ pc[o] = "begin"
      BY <2>3 DEF SetCurrentAction
    <3>2. QED
      BY <1>0, <2>1, <2>2, <3>1 DEF Serial, InFlight
  <2>4. CASE ResetActionLog(o)
    <3>1. /\ log' = [owner |-> o, running |-> TRUE, pure |-> TRUE]
          /\ pc' = [pc EXCEPT ![o] = "cli"] /\ UNCHANGED <<action, kind>>
          /\ pc[o] = "reset"
      BY <2>4 DEF ResetActionLog
    <3>2. QED
      BY <1>0, <2>1, <2>2, <3>1 DEF Serial, InFlight
  <2>5. CASE RunCmd(o) \/ SkipOSRestart(o) \/ CmdReturns(o)
    <3>1. /\ pc[o] \in {"cli", "cmd"} /\ UNCHANGED <<action, kind>>
          /\ RecordActionEvent(o)
          /\ \E place \in {"cmd", "observe", "final"} : pc' = [pc EXCEPT ![o] = place]
      BY <2>5 DEF RunCmd, SkipOSRestart, CmdReturns
    <3>2. log.owner = o /\ log.pure
      BY <2>1, <3>1 DEF Serial
    <3>3. log'.pure /\ log'.owner = o
      BY <1>0, <3>1, <3>2 DEF RecordActionEvent, Logs
    <3>4. QED
      BY <1>0, <2>1, <2>2, <3>1, <3>3 DEF Serial, InFlight
  <2>6. CASE Judge(o)
    <3>1. /\ pc[o] = "judge" /\ UNCHANGED <<action, log, kind>>
          /\ \E place \in {"cli", "final"} : pc' = [pc EXCEPT ![o] = place]
      BY <2>6 DEF Judge
    <3>2. QED
      BY <1>0, <2>1, <2>2, <3>1 DEF Serial, InFlight
  <2>7. CASE FinalizeActionLog(o)
    <3>1. /\ log' = [log EXCEPT !.running = FALSE] /\ UNCHANGED <<action, kind>>
          /\ pc[o] = "final" /\ pc' = [pc EXCEPT ![o] = "clear"]
      BY <2>7 DEF FinalizeActionLog
    <3>2. ~log'.running /\ log'.pure = log.pure /\ log'.owner = log.owner
      BY <1>0, <3>1 DEF Logs
    <3>3. QED
      BY <1>0, <2>1, <2>2, <3>1, <3>2 DEF Serial, InFlight
  <2>8. CASE ClearCurrentAction(o)
    <3>1. /\ action' = None /\ UNCHANGED log
          /\ pc[o] = "clear" /\ pc' = [pc EXCEPT ![o] = "idle"]
      BY <2>8 DEF ClearCurrentAction
    <3>2. ~log.running
      BY <2>1, <2>2, <3>1 DEF Serial
    <3>3. QED
      BY <1>0, <2>1, <2>2, <3>1, <3>2 DEF Serial, InFlight
  <2>9. QED
    BY <1>2, <2>3, <2>4, <2>5, <2>6, <2>7, <2>8 DEF Run
<1>3. ASSUME NEW p \in Probers, Observe(p) \/ Enter(p) PROVE Serial'
  <2>1. /\ \E place \in {"store", "locked"} : pc' = [pc EXCEPT ![p] = place]
        /\ pc[p] \in {"observe", "store"} /\ UNCHANGED <<action, log, kind, alone>>
    BY <1>3 DEF Observe, Enter, ghosts
  <2>2. QED
    BY <1>0, <2>1 DEF SerialInv, Serial, InFlight
<1>4. ASSUME NEW p \in Probers, Store(p) PROVE Serial'
  <2>1. UNCHANGED <<action, log>> /\ pc[p] = "locked"
    BY <1>4 DEF Store, StoreProbe
  <2>2. CASE pc' = [pc EXCEPT ![p] = AfterProbe(p)] /\ UNCHANGED <<kind, alone>>
    <3>1. p \in Ops => AfterProbe(p) = "judge"
      BY <1>0 DEF AfterProbe
    <3>2. QED
      BY <1>0, <2>1, <2>2, <3>1 DEF SerialInv, Serial, InFlight
  <2>3. CASE /\ NotesOverlap
             /\ \E h \in Healers :
                   /\ pc[h] = "idle"
                   /\ pc' = [pc EXCEPT ![p] = AfterProbe(p), ![h] = "begin"]
                   /\ kind' = [kind EXCEPT ![h] = "heal"]
    <3>1. PICK h \in Healers :
             /\ pc' = [pc EXCEPT ![p] = AfterProbe(p), ![h] = "begin"]
             /\ kind' = [kind EXCEPT ![h] = "heal"]
      BY <2>3
    <3>2. alone /\ \A q \in Ops : pc[q] = "idle"
      BY <2>3 DEF NotesOverlap
    <3>3. log.pure /\ action = None /\ ~log.running
      BY <3>2 DEF SerialInv, Serial, InFlight
    <3>4. p \notin Ops
      BY <2>1, <3>2
    <3>5. pc'[h] = "begin" /\ \A q \in Ops \ {h} : pc'[q] = "idle"
      BY <1>0, <3>1, <3>2, <3>4
    <3>6. QED
      BY <1>0, <2>1, <3>3, <3>5 DEF Serial, InFlight
  <2>4. QED
    BY <1>4, <2>2, <2>3, StoreDecides
<1>5. CASE GraceEnds \/ CooldownEnds \/ UNCHANGED vars
    BY <1>5 DEF GraceEnds, CooldownEnds, vars, ghosts, SerialInv, Serial, InFlight
<1>6. QED
    BY <1>1, <1>2, <1>3, <1>4, <1>5 DEF Next, ProbeNow

(* The slot and the log stay with the one operation at work. *)
LEMMA SerialInvariance == Spec => []SerialInv
<1>1. Init => SerialInv
  <2> SUFFICES ASSUME Init PROVE Serial
    BY DEF SerialInv
  <2>1. \A o \in Ops : pc[o] = "idle"
    BY DEF Init, Probers, Ops
  <2>2. log.pure /\ ~log.running /\ action = None
    BY DEF Init
  <2>3. QED
    BY <2>1, <2>2 DEF Serial, InFlight
<1>2. HealInv /\ TypeOK /\ SerialInv /\ [Next]_vars => SerialInv'
    BY SerialStep
<1>3. QED
    BY <1>1, <1>2, HealInvariance, ManagerTypes, PTL DEF Spec

(* Until two operations overlap, with any number of goroutines and with     *)
(* autoheal on or off, a client that sees no current action finds the log   *)
(* settled and unmixed, whatever was asked for and however it ended.        *)
THEOREM SerialLogSettled == Spec => []LogSettled
<1>1. TypeOK /\ SerialInv => LogSettled
  <2> SUFFICES ASSUME TypeOK, SerialInv, alone, action = None
               PROVE  ~log.running /\ log.pure
    BY DEF LogSettled
  <2>1. \A o \in Ops : Name(kind[o]) # None
    BY DEF TypeOK, Name, Actions
  <2>2. \A o \in Ops : ~InFlight(o)
    BY <2>1 DEF SerialInv, Serial
  <2>3. QED
    BY <2>2 DEF SerialInv, Serial, InFlight
<1>2. QED
    BY <1>1, SerialInvariance, ManagerTypes, PTL

(* The store's lock has one holder. *)
LEMMA LockStep ==
    ASSUME HealInv, LockInv, [Next]_vars
    PROVE  LockInv'
<1>0. Ops \subseteq Probers /\ UserOps \subseteq Ops /\ Healers \subseteq Ops
    BY DEF Probers, Ops
<1>1. ASSUME NEW o \in UserOps, NEW k \in Requests, Dispatch(o, k) PROVE LockInv'
    BY <1>0, <1>1 DEF Dispatch, LockInv, HealInv
<1>2. ASSUME NEW o \in Ops, Run(o) PROVE LockInv'
  <2>1. \E place \in Places \ {"locked"} : pc' = [pc EXCEPT ![o] = place]
    BY <1>2 DEF Run, SetCurrentAction, ResetActionLog, RunCmd, SkipOSRestart,
       CmdReturns, Judge, FinalizeActionLog, ClearCurrentAction, Places
  <2>2. QED
    BY <1>0, <2>1 DEF LockInv, HealInv
<1>3. ASSUME NEW p \in Probers, Observe(p) \/ Enter(p) PROVE LockInv'
    BY <1>3 DEF Observe, Enter, Locked, LockInv, HealInv
<1>4. ASSUME NEW p \in Probers, Store(p) PROVE LockInv'
  <2>1. \A q \in Probers : pc'[q] = "locked" => pc[q] = "locked"
    BY <1>0, <1>4, StoreDecides DEF HealInv, AfterProbe
  <2>2. QED
    BY <2>1 DEF LockInv
<1>5. CASE GraceEnds \/ CooldownEnds \/ UNCHANGED vars
    BY <1>5 DEF GraceEnds, CooldownEnds, vars, LockInv
<1>6. QED
    BY <1>1, <1>2, <1>3, <1>4, <1>5 DEF Next, ProbeNow

(* Whoever meets an operation in flight reads its name, and every attempt   *)
(* is stamped.                                                              *)
LEMMA BadgeStep ==
    ASSUME HealInv, TypeOK, SerialInv, BadgeInv, [Next]_vars
    PROVE  BadgeInv'
<1> DEFINE Stamped == recent => warm
           Named   == alone => \A p \in Probers :
                        met[p] => seen[p].action \in StartingActions
<1>0. Stamped /\ Named /\ Ops \subseteq Probers
    BY DEF BadgeInv, Probers
<1>a. SUFFICES Stamped' /\ Named'
    BY DEF BadgeInv
<1>1. ASSUME NEW o \in UserOps, NEW k \in Requests, Dispatch(o, k)
      PROVE  Stamped' /\ Named'
    BY <1>0, <1>1 DEF Dispatch, NotesOverlap
<1>2. ASSUME NEW o \in Ops, Run(o) PROVE Stamped' /\ Named'
  <2>1. Named'
    BY <1>0, <1>2, RunMoves
  <2>2. Stamped'
    <3>1. CASE CmdReturns(o)
      BY <1>0, <3>1, Zenon DEF CmdReturns
    <3>2. CASE Judge(o)
      <4>1. UNCHANGED <<warm, recent>> \/ (warm' = TRUE /\ recent' = TRUE)
        BY <3>2, SMT DEF Judge
      <4>2. QED
        BY <1>0, <4>1
    <3>3. CASE UNCHANGED <<warm, recent>>
      BY <1>0, <3>3
    <3>4. QED
      BY <1>2, <3>1, <3>2, <3>3 DEF Run, SetCurrentAction, ResetActionLog, RunCmd,
         SkipOSRestart, FinalizeActionLog, ClearCurrentAction, ghosts
  <2>3. QED
    BY <2>1, <2>2
<1>3. ASSUME NEW p \in Probers, Observe(p) PROVE Stamped' /\ Named'
  <2>1. UNCHANGED <<warm, recent, met, alone>>
    BY <1>3 DEF Observe, ghosts
  <2>2. PICK a \in BOOLEAN, m \in CliSeen :
           seen' = [seen EXCEPT ![p] = [alive |-> a, missing |-> m, intent |-> intent,
                                        action |-> seen[p].action]]
    BY <1>3 DEF Observe
  <2>3. \A q \in Probers : seen'[q].action = seen[q].action
    BY <2>2 DEF TypeOK, Findings
  <2>4. QED
    BY <1>0, <2>1, <2>3
<1>4. ASSUME NEW p \in Probers, Enter(p) PROVE Stamped' /\ Named'
  <2>1. /\ seen' = [seen EXCEPT ![p].action = action]
        /\ met' = [met EXCEPT ![p] = BringingUp] /\ UNCHANGED <<warm, recent, alone>>
    BY <1>4 DEF Enter
  <2>2. alone /\ BringingUp => action \in StartingActions
    BY DEF SerialInv, Serial, BringingUp
  <2>3. seen'[p].action = action /\ \A q \in Probers \ {p} : seen'[q] = seen[q]
    BY <2>1 DEF TypeOK, Findings
  <2>4. QED
    BY <1>0, <2>1, <2>2, <2>3 DEF TypeOK
<1>5. ASSUME NEW p \in Probers, Store(p) PROVE Stamped' /\ Named'
  <2>1. /\ seen' = [seen EXCEPT ![p] = NoFinding] /\ met' = [met EXCEPT ![p] = FALSE]
        /\ UNCHANGED <<warm, recent>>
    BY <1>5 DEF Store, StoreProbe
  <2>2. alone' => alone
    BY <1>5, StoreDecides DEF NotesOverlap
  <2>3. QED
    BY <1>0, <2>1, <2>2 DEF TypeOK
<1>6. CASE GraceEnds \/ CooldownEnds \/ UNCHANGED vars
    BY <1>0, <1>6 DEF GraceEnds, CooldownEnds, vars, ghosts
<1>7. QED
    BY <1>1, <1>2, <1>3, <1>4, <1>5, <1>6 DEF Next, ProbeNow

(* Until two operations overlap, the badge turns to "error" neither by a    *)
(* probe that read the current action while an operation that brings the    *)
(* gateway up was in flight, nor within the grace after its last command,   *)
(* whatever begins, ends or is clicked between that read and the store.     *)
THEOREM SerialNoErrorFlap == Spec => NoErrorFlap
<1> DEFINE Falls == alone /\ phase # "error" /\ phase' = "error"
           Calm  == ~recent /\ \A p \in Probers : pc[p] = "locked" => ~met[p]
           Known == HealInv /\ TypeOK /\ SerialInv /\ BadgeInv /\ LockInv
<1>1. Init => BadgeInv /\ LockInv
    BY DEF Init, BadgeInv, LockInv
<1>2. Known /\ [Next]_vars => BadgeInv' /\ LockInv'
    BY BadgeStep, LockStep
<1>3. Known /\ [Next]_vars => [Falls => Calm]_vars
  <2> SUFFICES ASSUME Known, Next, Falls PROVE Calm
    OBVIOUS
  <2>1. ASSUME NEW p \in Probers, Store(p) PROVE Calm
    <3>1. /\ phase' = ComputePhase(seen[p].alive, seen[p].missing, intent,
                                   seen[p].action, warm)
          /\ pc[p] = "locked"
      BY <2>1 DEF Store, StoreProbe
    <3>2. seen[p].action \notin StartingActions /\ ~warm
      BY <3>1 DEF ComputePhase
    <3>3. ~recent /\ ~met[p]
      BY <3>2 DEF BadgeInv
    <3>4. \A q \in Probers : pc[q] = "locked" => q = p
      BY <3>1 DEF LockInv
    <3>5. QED
      BY <3>3, <3>4
  <2>2. ASSUME NEW o \in Ops, Run(o) PROVE UNCHANGED phase
    BY <2>2 DEF Run, SetCurrentAction, ResetActionLog, RunCmd, SkipOSRestart,
       CmdReturns, Judge, FinalizeActionLog, ClearCurrentAction, snapshot
  <2>3. ASSUME NEW o \in UserOps, NEW k \in Requests, Dispatch(o, k) PROVE UNCHANGED phase
    BY <2>3 DEF Dispatch
  <2>4. ASSUME NEW p \in Probers, Observe(p) \/ Enter(p) PROVE UNCHANGED phase
    BY <2>4 DEF Observe, Enter, snapshot
  <2>5. GraceEnds \/ CooldownEnds => UNCHANGED phase
    BY DEF GraceEnds, CooldownEnds, snapshot
  <2>6. QED
    BY <2>1, <2>2, <2>3, <2>4, <2>5 DEF Next, ProbeNow
<1>4. QED
    BY <1>1, <1>2, <1>3, HealInvariance, ManagerTypes, SerialInvariance, PTL
    DEF Spec, NoErrorFlap
=============================================================================
