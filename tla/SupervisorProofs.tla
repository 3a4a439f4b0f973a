-------------------------- MODULE SupervisorProofs --------------------------
(***************************************************************************)
(* Proofs, for every value of the constants, that Supervisor keeps its     *)
(* safety invariants and implements SpawnPolicy.                           *)
(***************************************************************************)
EXTENDS Supervisor, TLAPS

USE NoVersionAssumption, CrashCapAssumption, ChanCapAssumption, FaultsAssumption

(* Every step of clawmastd, of the worker and of the world around them      *)
(* preserves the inductive invariant.                                       *)
LEMMA StepInv == Inv /\ [Next]_vars => Inv'
<1> SUFFICES ASSUME Inv, [Next]_vars PROVE Inv'
    OBVIOUS
<1> USE DEF Inv, TypeOK, DataTypeOK, FlagTypeOK, SessionInv, VersionInv,
        LinksInv, ExitInv, BudgetInv, GateInv, GateTracksReady,
        SilentExitOnlyOnRequest, FatalOnlyAfterTear, GateActive, Alive, Links, Kinds, Outcomes,
        Steps, Classes, disk, worker, ghosts
<1>1. CASE LoopStopped
    BY <1>1 DEF LoopStopped, Return
<1>2. CASE ResolveFails
    BY <1>2 DEF ResolveFails, Return
<1>3. CASE CheckBlacklist
    BY <1>3 DEF CheckBlacklist
<1>4. CASE PrepareGate
  <2>1. failed' \subseteq {"blacklist", "marker"} /\ marker' \in Links
    BY <1>4 DEF PrepareGate, DeleteGateMarker, MarkerFails
  <2>2. DataTypeOK'
    BY <1>4, <2>1 DEF PrepareGate
  <2>3. FlagTypeOK'
    BY <1>4, Zenon DEF PrepareGate
  <2>4. (SessionInv /\ VersionInv /\ LinksInv /\ ExitInv /\ BudgetInv /\ GateInv)'
    BY <1>4 DEF PrepareGate, DeleteGateMarker, MarkerFails
  <2>5. QED
    BY <2>2, <2>3, <2>4
<1>5. CASE Spawn
    BY <1>5 DEF Spawn
<1>6. CASE SpawnFails
    BY <1>6 DEF SpawnFails
<1>7. CASE OnShutdown
    BY <1>7 DEF OnShutdown, BeginStop
<1>8. CASE OnStartDeadline
    BY <1>8 DEF OnStartDeadline, BeginStop
<1>9. CASE OnWatchdog
    BY <1>9 DEF OnWatchdog, BeginStop
<1>10. CASE OnGateTick
  <2>0. failed' \subseteq {"blacklist", "marker"} /\ marker' \in Links
    BY <1>10 DEF OnGateTick, BeginStop, DeleteGateMarker, MarkerFails
  <2>1. DataTypeOK'
    BY <1>10, <2>0 DEF OnGateTick, BeginStop
  <2>2. FlagTypeOK'
    BY <1>10, Zenon DEF OnGateTick, BeginStop
  <2>3. (SessionInv /\ VersionInv /\ LinksInv /\ ExitInv /\ BudgetInv /\ GateInv)'
    BY <1>10 DEF OnGateTick, BeginStop, DeleteGateMarker, MarkerFails
  <2>4. QED
    BY <2>1, <2>2, <2>3
<1>11. CASE OnMessage
    BY <1>11 DEF OnMessage
<1>12. CASE OnExit
  <2>1. DataTypeOK'
    BY <1>12 DEF OnExit, Reap
  <2>2. FlagTypeOK'
    BY <1>12, Zenon DEF OnExit, Reap
  <2>3. (SessionInv /\ VersionInv /\ LinksInv /\ ExitInv /\ BudgetInv /\ GateInv)'
    BY <1>12 DEF OnExit, Reap
  <2>4. QED
    BY <2>1, <2>2, <2>3
<1>13. CASE StopReaped
  <2>1. DataTypeOK'
    BY <1>13 DEF StopReaped, Reap
  <2>2. FlagTypeOK'
    BY <1>13, Zenon DEF StopReaped, Reap
  <2>3. (SessionInv /\ VersionInv /\ LinksInv /\ ExitInv /\ BudgetInv /\ GateInv)'
    BY <1>13 DEF StopReaped, Reap
  <2>4. QED
    BY <2>1, <2>2, <2>3
<1>14. CASE StopKill
    BY <1>14 DEF StopKill
<1>15. CASE OutcomeReturns
    BY <1>15 DEF OutcomeReturns, Return
<1>16. CASE OutcomeRollsBack
    BY <1>16 DEF OutcomeRollsBack
<1>17. CASE CondemnInstall
    BY <1>17 DEF CondemnInstall, FailsInstall
<1>18. CASE DiscardMarker
  <2>1. failed' \subseteq {"blacklist", "marker"} /\ marker' \in Links
    BY <1>18 DEF DiscardMarker, DeleteGateMarker, MarkerFails
  <2>2. DataTypeOK'
    BY <1>18, <2>1 DEF DiscardMarker
  <2>3. FlagTypeOK'
    BY <1>18, Zenon DEF DiscardMarker
  <2>4. (SessionInv /\ VersionInv /\ LinksInv /\ ExitInv /\ BudgetInv /\ GateInv)'
    BY <1>18 DEF DiscardMarker, DeleteGateMarker, MarkerFails
  <2>5. QED
    BY <2>2, <2>3, <2>4
<1>19. CASE RecordCrash
    BY <1>19 DEF RecordCrash
<1>20. CASE Backoff
    BY <1>20 DEF Backoff, Return
<1>21. CASE Swap
  <2> USE DEF swapFrame
  <2>1. CASE Rollback
    BY <2>1 DEF Rollback, Return, HasRollbackTarget
  <2>2. CASE SwapStep1
    <3>1. DataTypeOK'
      BY <2>2 DEF SwapStep1
    <3>2. FlagTypeOK'
      BY <2>2, Zenon DEF SwapStep1
    <3>3. (SessionInv /\ VersionInv /\ LinksInv /\ ExitInv /\ BudgetInv /\ GateInv)'
      BY <2>2 DEF SwapStep1
    <3>4. QED
      BY <3>1, <3>2, <3>3
  <2>3. CASE SwapStep2
    BY <2>3 DEF SwapStep2
  <2>4. CASE SwapStep3
    <3>1. DataTypeOK'
      BY <2>4 DEF SwapStep3
    <3>2. FlagTypeOK'
      BY <2>4, Zenon DEF SwapStep3
    <3>3. (SessionInv /\ VersionInv /\ LinksInv /\ ExitInv /\ BudgetInv /\ GateInv)'
      BY <2>4 DEF SwapStep3
    <3>4. QED
      BY <3>1, <3>2, <3>3
  <2>5. CASE SwapFails
    BY <2>5 DEF SwapFails, Return
  <2>6. QED
    BY <1>21, <2>1, <2>2, <2>3, <2>4, <2>5 DEF Swap
<1>22. CASE RequestStop
    BY <1>22 DEF RequestStop
<1>23. CASE ListenerFails
  <2>1. DataTypeOK'
    BY <1>23 DEF ListenerFails
  <2>2. FlagTypeOK'
    BY <1>23, Zenon DEF ListenerFails
  <2>3. (SessionInv /\ VersionInv /\ LinksInv /\ ExitInv /\ BudgetInv /\ GateInv)'
    BY <1>23 DEF ListenerFails
  <2>4. QED
    BY <2>1, <2>2, <2>3
<1>24. CASE SupervisorKilled
  <2>1. DataTypeOK'
    BY <1>24 DEF SupervisorKilled, Return
  <2>2. FlagTypeOK'
    BY <1>24, Zenon DEF SupervisorKilled, Return
  <2>3. (SessionInv /\ VersionInv /\ LinksInv /\ ExitInv /\ BudgetInv /\ GateInv)'
    BY <1>24 DEF SupervisorKilled, Return
  <2>4. QED
    BY <2>1, <2>2, <2>3
<1>25. CASE InitRestarts
    BY <1>25 DEF InitRestarts
<1>26. CASE WorkerReady
    BY <1>26 DEF WorkerReady, Notify, supervisorVars
<1>27. CASE Heartbeat
    BY <1>27 DEF Heartbeat, Notify, supervisorVars
<1>28. CASE WorkerLeaves
    BY <1>28 DEF WorkerLeaves, Notify, supervisorVars
<1>29. CASE WorkerExits
    BY <1>29 DEF WorkerExits, supervisorVars
<1>30. CASE WorkerHangs
    BY <1>30 DEF WorkerHangs, supervisorVars
<1>31. CASE WorkerDies
    BY <1>31 DEF WorkerDies, supervisorVars
<1>32. CASE HandleChannelSet
    BY <1>32 DEF HandleChannelSet, supervisorVars
<1>33. CASE InstallWritePrevious
    BY <1>33 DEF InstallWritePrevious, installFrame, supervisorVars
<1>34. CASE InstallClearCurrent
    BY <1>34 DEF InstallClearCurrent, installFrame, supervisorVars
<1>35. CASE InstallWriteCurrent
    BY <1>35 DEF InstallWriteCurrent, installFrame, supervisorVars
<1>36. CASE InstallFinish
  <2>1. DataTypeOK'
    BY <1>36 DEF InstallFinish, installFrame, supervisorVars
  <2>2. FlagTypeOK'
    BY <1>36, Zenon DEF InstallFinish, installFrame, supervisorVars
  <2>3. (SessionInv /\ VersionInv /\ LinksInv /\ ExitInv /\ BudgetInv /\ GateInv)'
    BY <1>36 DEF InstallFinish, installFrame, supervisorVars
  <2>4. QED
    BY <2>1, <2>2, <2>3
<1>37. ASSUME NEW v \in Versions, InstallStart(v) PROVE Inv'
    BY <1>37 DEF InstallStart, installFrame, supervisorVars
<1>38. ASSUME NEW v \in Versions, HandleBlacklistAdd(v) PROVE Inv'
    BY <1>38 DEF HandleBlacklistAdd, supervisorVars
<1>39. CASE InstallFails
    BY <1>39 DEF InstallFails, installFrame, supervisorVars
<1>40. CASE UNCHANGED vars
    BY <1>40 DEF vars
<1>41. QED
    BY <1>1, <1>2, <1>3, <1>4, <1>5, <1>6, <1>7, <1>8, <1>9, <1>10, <1>11,
       <1>12, <1>13, <1>14, <1>15, <1>16, <1>17, <1>18, <1>19, <1>20, <1>21,
       <1>22, <1>23, <1>24, <1>25, <1>26, <1>27, <1>28, <1>29, <1>30, <1>31,
       <1>32, <1>33, <1>34, <1>35, <1>36, <1>37, <1>38, <1>39, <1>40
    DEF Next, Loop, Select, Stop, Switch, Outside, Worker, Handle, Install

(* The inductive invariant holds in every reachable state. *)
THEOREM Invariance == Spec => []Inv
<1>1. Init => Inv
  <2> SUFFICES ASSUME Init PROVE Inv
    OBVIOUS
  <2>1. FlagTypeOK
    BY Zenon DEF Init, FlagTypeOK
  <2>2. DataTypeOK
    BY DEF Init, DataTypeOK, Links, Kinds, Outcomes, Steps, Classes
  <2>3. SessionInv /\ VersionInv /\ LinksInv /\ ExitInv
    BY DEF Init, SessionInv, VersionInv, LinksInv, ExitInv,
           SilentExitOnlyOnRequest, FatalOnlyAfterTear
  <2>4. BudgetInv /\ GateInv
    BY DEF Init, BudgetInv, GateInv, GateTracksReady
  <2>5. QED
    BY <2>1, <2>2, <2>3, <2>4 DEF Inv, TypeOK
<1>2. QED
    BY <1>1, StepInv, PTL DEF Spec

(* Type correctness: in particular the notify channel and the crash window  *)
(* stay within their bounds, for every capacity and every CrashCap.         *)
THEOREM TypeCorrect == Spec => []TypeOK
<1>1. Inv => TypeOK
    BY DEF Inv
<1>2. QED
    BY <1>1, Invariance, PTL

(* current is never lost except inside rotateSymlinks or between the first  *)
(* two renames of SwapCurrentPrevious, and the latter loses no target.      *)
THEOREM TornLinks == Spec => []FatalOnlyAfterTear
<1>1. Inv => FatalOnlyAfterTear
    BY DEF Inv, ExitInv
<1>2. QED
    BY <1>1, Invariance, PTL

(* Run returns nil only when it was asked to stop. *)
THEOREM NoSilentExit == Spec => []SilentExitOnlyOnRequest
<1>1. Inv => SilentExitOnlyOnRequest
    BY DEF Inv, ExitInv
<1>2. QED
    BY <1>1, Invariance, PTL

(* The crash-cap rollback comes before any further spawn. *)
THEOREM BudgetRespected == Spec => []CrashBudget
<1>1. Inv => CrashBudget
    BY DEF Inv, SessionInv, BudgetInv, CrashBudget, Alive
<1>2. QED
    BY <1>1, Invariance, PTL

(* The gate follows READY: it cannot pass a worker that is not Running. *)
THEOREM GateFollowsReady == Spec => []GateTracksReady
<1>1. Inv => GateTracksReady
    BY DEF Inv, GateInv
<1>2. QED
    BY <1>1, Invariance, PTL

(***************************************************************************)
(* A failed install that has been recorded never runs again, except by a   *)
(* spawn that could not read the record.                                   *)
(***************************************************************************)
LEMMA StepCondemn == Inv /\ CondemnInv /\ [Next]_vars => CondemnInv'
<1> SUFFICES ASSUME Inv, CondemnInv, [Next]_vars PROVE CondemnInv'
    OBVIOUS
<1> USE DEF Inv, SessionInv, VersionInv, CondemnInv, CondemnedNeverRun, Alive,
        DeleteGateMarker, MarkerFails, disk, worker, ghosts
<1>1. CASE Loop
    BY <1>1 DEF Loop, LoopStopped, ResolveFails, CheckBlacklist, PrepareGate,
                Spawn, SpawnFails
<1>2. CASE Select
    BY <1>2 DEF Select, OnShutdown, OnStartDeadline, OnWatchdog, OnGateTick,
                OnMessage, OnExit, BeginStop, Reap
<1>3. CASE Stop
    BY <1>3 DEF Stop, StopReaped, StopKill, Reap
<1>4. CASE Switch
    BY <1>4 DEF Switch, OutcomeReturns, OutcomeRollsBack, CondemnInstall,
                DiscardMarker, RecordCrash, Backoff, Swap, Rollback,
                SwapStep1, SwapStep2, SwapStep3, SwapFails, swapFrame
<1>5. CASE Outside
    BY <1>5 DEF Outside, RequestStop, ListenerFails, SupervisorKilled,
                InitRestarts
<1>6. CASE Worker
    BY <1>6 DEF Worker, WorkerReady, Heartbeat, WorkerLeaves, WorkerExits,
                WorkerHangs, WorkerDies, supervisorVars
<1>7. CASE Handle
    BY <1>7 DEF Handle, HandleChannelSet, HandleBlacklistAdd, supervisorVars
<1>8. CASE Install
    BY <1>8 DEF Install, InstallStart, InstallWritePrevious,
                InstallClearCurrent, InstallWriteCurrent, InstallFinish, InstallFails,
                installFrame, supervisorVars
<1>9. CASE UNCHANGED vars
    BY <1>9 DEF vars
<1>10. QED
    BY <1>1, <1>2, <1>3, <1>4, <1>5, <1>6, <1>7, <1>8, <1>9 DEF Next

(* Under every combination of faults: once its failed install gate is in    *)
(* the blacklist, a version runs again, across kills and restarts of        *)
(* clawmastd, reinstalls and rollbacks, only in a spawn for which the list  *)
(* could not be loaded.                                                     *)
THEOREM CondemnedStaysDown == Spec => []CondemnedNeverRun
<1>1. Init => CondemnInv
    BY DEF Init, CondemnInv, CondemnedNeverRun, Alive
<1>2. CondemnInv => CondemnedNeverRun
    BY DEF CondemnInv
<1>3. QED
    BY <1>1, <1>2, Invariance, StepCondemn, PTL DEF Spec

(***************************************************************************)
(* A marked version is watched, unless this spawn failed on the marker.    *)
(***************************************************************************)
LEMMA StepMarker == Inv /\ MarkerInv /\ [Next]_vars => MarkerInv'
<1> SUFFICES ASSUME Inv, MarkerInv, [Next]_vars PROVE MarkerInv'
    OBVIOUS
<1> USE DEF Inv, SessionInv, VersionInv, LinksInv, MarkerInv,
        MarkedIsWatched, Alive, DeleteGateMarker, MarkerFails, disk, worker, ghosts
<1>1. CASE Loop
  <2>1. CASE PrepareGate
    BY <2>1 DEF PrepareGate
  <2>2. CASE Spawn
    BY <2>2 DEF Spawn
  <2>3. CASE LoopStopped \/ ResolveFails \/ CheckBlacklist \/ SpawnFails
    BY <2>3 DEF LoopStopped, ResolveFails, CheckBlacklist, SpawnFails, Return
  <2>4. QED
    BY <1>1, <2>1, <2>2, <2>3 DEF Loop
<1>2. CASE Select
    BY <1>2 DEF Select, OnShutdown, OnStartDeadline, OnWatchdog, OnGateTick,
                OnMessage, OnExit, BeginStop, Reap
<1>3. CASE Stop
    BY <1>3 DEF Stop, StopReaped, StopKill, Reap
<1>4. CASE Switch
    BY <1>4 DEF Switch, OutcomeReturns, OutcomeRollsBack, CondemnInstall,
                DiscardMarker, RecordCrash, Backoff, Swap, Rollback,
                SwapStep1, SwapStep2, SwapStep3, SwapFails, swapFrame, Return
<1>5. CASE Outside
    BY <1>5 DEF Outside, RequestStop, ListenerFails, SupervisorKilled,
                InitRestarts, Return
<1>6. CASE Worker
    BY <1>6 DEF Worker, WorkerReady, Heartbeat, WorkerLeaves, WorkerExits,
                WorkerHangs, WorkerDies, supervisorVars
<1>7. CASE Handle
    BY <1>7 DEF Handle, HandleChannelSet, HandleBlacklistAdd, supervisorVars
<1>8. CASE Install
    BY <1>8 DEF Install, InstallStart, InstallWritePrevious,
                InstallClearCurrent, InstallWriteCurrent, InstallFinish, InstallFails,
                installFrame, supervisorVars
<1>9. CASE UNCHANGED vars
    BY <1>9 DEF vars
<1>10. QED
    BY <1>1, <1>2, <1>3, <1>4, <1>5, <1>6, <1>7, <1>8, <1>9 DEF Next

(* Under every combination of faults: a version that still has its marker   *)
(* on disk runs outside the install gate only in a spawn that failed to     *)
(* read or to delete the marker.                                            *)
THEOREM MarkedStaysWatched == Spec => []MarkedIsWatched
<1>1. Init => MarkerInv
    BY DEF Init, MarkerInv, MarkedIsWatched, Alive
<1>2. MarkerInv => MarkedIsWatched
    BY DEF MarkerInv
<1>3. QED
    BY <1>1, <1>2, Invariance, StepMarker, PTL DEF Spec

(***************************************************************************)
(* Refinement of SpawnPolicy.                                              *)
(***************************************************************************)
(* Every step of the supervisor is a step, or a stutter, of the policy. *)
LEMMA StepPolicy == Inv /\ Inv' /\ [Next]_vars => [Policy!Next]_(Policy!policyVars)
<1> SUFFICES ASSUME Inv, Inv', [Next]_vars
             PROVE  Policy!Next \/ UNCHANGED Policy!policyVars
    OBVIOUS
<1> USE DEF Inv, SessionInv, VersionInv, Alive, disk, worker, ghosts,
        DeleteGateMarker, MarkerFails, Policy!policyVars
<1>1. CASE Spawn
  <2>1. Policy!Start(version) /\ version \in Versions
    BY <1>1 DEF Spawn, Policy!Start
  <2>2. QED
    BY <2>1 DEF Policy!Next
<1>2. CASE CondemnInstall
  <2>1. Policy!Ban(version) \/ UNCHANGED Policy!policyVars
    BY <1>2 DEF CondemnInstall, Policy!Ban
  <2>2. version \in Versions
    BY <1>2 DEF CondemnInstall
  <2>3. QED
    BY <2>1, <2>2 DEF Policy!Next
<1>3. ASSUME NEW v \in Versions, HandleBlacklistAdd(v)
      PROVE  Policy!Next
  <2>1. Policy!Ban(v)
    BY <1>3 DEF HandleBlacklistAdd, supervisorVars, Policy!Ban
  <2>2. QED
    BY <2>1 DEF Policy!Next
<1>4. CASE \/ StopKill \/ WorkerDies \/ WorkerExits
  <2>1. Policy!End
    BY <1>4 DEF StopKill, WorkerDies, WorkerExits, supervisorVars, Policy!End
  <2>2. QED
    BY <2>1 DEF Policy!Next
<1>5. CASE InitRestarts
  <2>1. Policy!Boot
    BY <1>5 DEF InitRestarts, Policy!Boot
  <2>2. QED
    BY <2>1 DEF Policy!Next
<1>6. CASE \/ LoopStopped \/ ResolveFails \/ OutcomeReturns \/ Backoff
           \/ Swap \/ SupervisorKilled
  <2>1. Policy!Halt \/ UNCHANGED Policy!policyVars
    BY <1>6 DEF LoopStopped, ResolveFails, OutcomeReturns, Backoff, Swap,
                Rollback, SwapStep1, SwapStep2, SwapStep3, SwapFails, swapFrame,
                SupervisorKilled, Return, Policy!Halt
  <2>2. QED
    BY <2>1 DEF Policy!Next
<1>7. CASE CheckBlacklist
  <2>1. Policy!Consult
    <3>1. ("blacklist" \in failed') \in BOOLEAN
      OBVIOUS
    <3>2. QED
      BY <1>7, <3>1 DEF CheckBlacklist, Policy!Consult
  <2>2. QED
    BY <2>1 DEF Policy!Next
<1>8. CASE Select
    BY <1>8 DEF Select, OnShutdown, OnStartDeadline, OnWatchdog, OnGateTick,
                OnMessage, OnExit, BeginStop, Reap
<1>9. CASE \/ StopReaped \/ OutcomeRollsBack \/ DiscardMarker \/ RecordCrash
           \/ RequestStop \/ ListenerFails
    BY <1>9 DEF StopReaped, Reap, OutcomeRollsBack, DiscardMarker, RecordCrash,
                RequestStop, ListenerFails
<1>10. CASE \/ WorkerReady \/ Heartbeat \/ WorkerLeaves \/ WorkerHangs
            \/ HandleChannelSet
    BY <1>10 DEF WorkerReady, Heartbeat, WorkerLeaves, WorkerHangs,
                 HandleChannelSet, supervisorVars
<1>11. CASE Install
    BY <1>11 DEF Install, InstallStart, InstallWritePrevious,
                 InstallClearCurrent, InstallWriteCurrent, InstallFinish, InstallFails,
                 installFrame, supervisorVars
<1>12. CASE UNCHANGED vars
    BY <1>12 DEF vars
<1>13. CASE PrepareGate \/ SpawnFails
    BY <1>13 DEF PrepareGate, SpawnFails
<1>14. QED
    BY <1>1, <1>2, <1>3, <1>4, <1>5, <1>6, <1>7, <1>8, <1>9, <1>10, <1>11,
       <1>12, <1>13
    DEF Next, Loop, Stop, Switch, Outside, Worker, Handle

(* Supervisor implements SpawnPolicy, for every set of versions, every      *)
(* crash cap, every channel capacity and every combination of faults: a     *)
(* banned version is only started when the list of bans could not be read.  *)
THEOREM Refinement == Spec => ImplementsPolicy
<1>1. Init => Policy!Init
    BY DEF Init, Policy!Init, Alive
<1>2. QED
    BY <1>1, Invariance, StepPolicy, PTL DEF Spec, ImplementsPolicy, Policy!Spec
=============================================================================
