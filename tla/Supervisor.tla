----------------------------- MODULE Supervisor -----------------------------
(***************************************************************************)
(* clawmastd's state machine (internal/supervisor) together with the       *)
(* worker process it supervises (cmd/clawmast, internal/agent) and the     *)
(* files both of them write: the current/previous links, the install-gate  *)
(* marker and the blacklist.                                               *)
(*                                                                         *)
(* Time is abstracted: a timer that is armed may fire at any moment, a     *)
(* marker may or may not be stale when it is read, and the sliding window  *)
(* of the crash tracker may have forgotten any number of older crashes.    *)
(* HealthGate.tla and CrashTracker.tla model those clocks exactly, and     *)
(* BlacklistFile.tla the writing of the blacklist.                         *)
(*                                                                         *)
(* The process around clawmastd is systemd running the shipped unit. The   *)
(* launchd plist behaves differently and is not modelled: it restarts      *)
(* clawmastd after every exit but 0, and when clawmastd is killed the      *)
(* worker, which leads a process group of its own, lives on beside the     *)
(* next one.                                                               *)
(***************************************************************************)
EXTENDS Naturals, Sequences

CONSTANTS
    Versions,     \* version labels, the directories under versions/
    NoVersion,    \* an absent link or marker
    CrashCap,     \* BackoffParams.CrashCap
    ChanCap,      \* capacity of Listener.ch (16 in the code)
    DeathCodes,   \* exit classes of a worker that dies on its own
    Faults        \* which best-effort operations may fail

ASSUME NoVersionAssumption == NoVersion \notin Versions
ASSUME CrashCapAssumption  == CrashCap \in Nat \ {0}
ASSUME ChanCapAssumption   == ChanCap \in Nat \ {0}

(* Classification of a worker's exit, exitcode.go. *)
Classes == {"graceful", "norestart", "rollback", "unexpected"}

(* "spawn": cmd.Start fails; "blacklist": blacklist.Add fails inside the   *)
(* supervisor; "unreadable": blacklist.Load fails, on a read error or on a *)
(* damaged document (BlacklistFile.tla shows how one can be published);    *)
(* "marker": the marker cannot be read, written or deleted;                *)
(* "listener": Listener.Serve returns on a read error; "swap": a rename of *)
(* SwapCurrentPrevious fails; "install": a system call of rotateSymlinks   *)
(* fails; "kill": the supervisor process is killed.                        *)
FaultKinds == {"spawn", "blacklist", "unreadable", "marker", "listener",
               "swap", "install", "kill"}

ASSUME FaultsAssumption == /\ Faults \subseteq FaultKinds
                           /\ DeathCodes \subseteq Classes

VARIABLES
    \* ---- on disk ----
    current,      \* target of <root>/current
    previous,     \* target of <root>/previous
    stash,        \* target of <root>/.swap.tmp
    marker,       \* version in state/install-gate.json
    blacklist,    \* versions in state/blacklist.json
    \* ---- clawmastd, in memory ----
    pc,           \* where Supervisor.loop / runOneSpawn is
    version,      \* the version being spawned or supervised
    outcome,      \* spawnOutcome.kind
    curState,     \* Starting or Running
    gate,         \* HealthGate.state
    crashes,      \* len(Tracker.crashes)
    chan,         \* Listener.ch, oldest message first
    listening,    \* Listener.Serve has not returned
    ctxDone,      \* SIGTERM or SIGINT reached clawmastd
    exit,         \* what Run returned
    \* ---- the worker process ----
    proc,         \* its life cycle
    code,         \* the exit class it has chosen or died with
    sigterm,      \* it has been sent SIGTERM
    rollbackCh,   \* the one-slot channels of runWorker
    restartCh,
    install,      \* how far the install handler got in Apply
    target,       \* the version Apply is installing
    \* ---- observation only ----
    condemned,    \* versions whose failed install gate has been recorded
    failed        \* state files an operation of this spawn failed on

disk   == <<current, previous, stash, marker, blacklist>>
ghosts == <<condemned, failed>>
worker == <<proc, code, sigterm, rollbackCh, restartCh, install, target>>
vars   == <<disk, pc, version, outcome, curState, gate, crashes, chan,
            listening, ctxDone, exit, worker, ghosts>>

GateActive == gate \in {"armed", "stabilizing"}
Alive      == proc \in {"boot", "up", "hung", "leaving"}

Links    == Versions \cup {NoVersion}
Kinds    == {"READY", "WATCHDOG", "STOPPING"}
Outcomes == {"none", "crash", "norestart", "rollback", "stopped",
             "healthTimeout", "spawnFailure"}
Steps    == {"idle", "prevCleared", "prevWritten", "curCleared", "curWritten"}

DataTypeOK ==
    /\ current \in Links /\ previous \in Links /\ stash \in Links
    /\ marker \in Links
    /\ blacklist \subseteq Versions
    /\ pc \in {"loop", "prepare", "spawn", "select", "stop", "outcome",
               "unmark", "swap", "swap1", "swap2", "swap3", "backoff",
               "done"}
    /\ version \in Links
    /\ outcome \in Outcomes
    /\ curState \in {"Starting", "Running"}
    /\ gate \in {"inactive", "armed", "stabilizing", "passed", "failed"}
    /\ crashes \in 0..CrashCap
    /\ chan \in Seq(Kinds) /\ Len(chan) <= ChanCap
    /\ exit \in {"none", "ok", "stop64", "stop65", "fatal", "swapError",
                "killed"}
    /\ proc \in {"none", "boot", "up", "hung", "leaving", "dead"}
    /\ code \in Classes
    /\ install \in Steps
    /\ target \in Links
    /\ condemned \subseteq Versions
    /\ failed \subseteq {"blacklist", "marker"}

FlagTypeOK ==
    /\ listening \in BOOLEAN /\ ctxDone \in BOOLEAN
    /\ sigterm \in BOOLEAN /\ rollbackCh \in BOOLEAN /\ restartCh \in BOOLEAN

(* Every variable keeps its type: the notify channel never outgrows its     *)
(* capacity and the crash window never outgrows CrashCap.                   *)
TypeOK == DataTypeOK /\ FlagTypeOK

(***************************************************************************)
(* install.sh has laid down one version and its current link; clawmastd    *)
(* has just been started.                                                  *)
(***************************************************************************)
Init ==
    /\ current \in Versions
    /\ previous = NoVersion /\ stash = NoVersion
    /\ marker = NoVersion /\ blacklist = {}
    /\ pc = "loop" /\ version = NoVersion /\ outcome = "none"
    /\ curState = "Starting" /\ gate = "inactive" /\ crashes = 0
    /\ chan = <<>> /\ listening = TRUE /\ ctxDone = FALSE /\ exit = "none"
    /\ proc = "none" /\ code = "unexpected" /\ sigterm = FALSE
    /\ rollbackCh = FALSE /\ restartCh = FALSE
    /\ install = "idle" /\ target = NoVersion
    /\ condemned = {} /\ failed = {}

(***************************************************************************)
(* Helpers shared by the actions.                                          *)
(***************************************************************************)
(* Run returns r. *)
Return(r) == pc' = "done" /\ exit' = r

(* An operation on the gate marker fails, which is logged and ignored. *)
MarkerFails ==
    /\ "marker" \in Faults
    /\ failed' = failed \cup {"marker"} /\ UNCHANGED marker

(* DeleteGateMarker: after a failure the marker stays. *)
DeleteGateMarker ==
    \/ marker' = NoVersion /\ UNCHANGED failed
    \/ MarkerFails

(* Listener.Serve: a datagram for a full channel is dropped, and nothing is *)
(* delivered once Serve has returned.                                       *)
Notify(k) ==
    chan' = IF listening /\ Len(chan) < ChanCap THEN Append(chan, k) ELSE chan

(* session.waitCh has delivered: the process is reaped and its memory gone. *)
Reap ==
    /\ proc = "dead"
    /\ proc' = "none" /\ code' = "unexpected"
    /\ sigterm' = FALSE /\ rollbackCh' = FALSE /\ restartCh' = FALSE
    /\ UNCHANGED <<install, target>>

(***************************************************************************)
(* loop: resolve, blacklist check, gate, spawn.                            *)
(***************************************************************************)
LoopStopped ==
    /\ pc = "loop" /\ ctxDone
    /\ Return("ok")
    /\ UNCHANGED <<disk, version, outcome, curState, gate, crashes, chan,
                   listening, ctxDone, worker, ghosts>>

(* ResolveWorker fails when there is no current link. *)
ResolveFails ==
    /\ pc = "loop" /\ ~ctxDone /\ current = NoVersion
    /\ Return("fatal")
    /\ UNCHANGED <<disk, version, outcome, curState, gate, crashes, chan,
                   listening, ctxDone, worker, ghosts>>

(* Mutant: the blacklist is read and not consulted. *)
CheckBlacklistSkipped ==
    /\ pc = "loop" /\ ~ctxDone /\ current # NoVersion
    /\ version' = current
    /\ pc' = "prepare" /\ failed' = {}
    /\ UNCHANGED <<disk, outcome, curState, gate, crashes, chan, listening,
                   ctxDone, exit, worker, condemned>>

(* checkBlacklist: a listed version is rolled back before it is spawned; a  *)
(* list that cannot be loaded is logged and the version is spawned anyway.  *)
CheckBlacklist ==
    /\ pc = "loop" /\ ~ctxDone /\ current # NoVersion
    /\ version' = current
    /\ \/ /\ pc' = IF current \in blacklist THEN "swap" ELSE "prepare"
          /\ failed' = {}
       \/ /\ "unreadable" \in Faults
          /\ pc' = "prepare" /\ failed' = {"blacklist"}
    /\ UNCHANGED <<disk, outcome, curState, gate, crashes, chan, listening,
                   ctxDone, exit, worker, condemned>>

(* prepareGate: no marker (or an unreadable one) leaves the gate off, a     *)
(* marker for another version or a stale one is discarded, and otherwise    *)
(* the gate is armed.                                                       *)
PrepareGate ==
    /\ pc = "prepare"
    /\ pc' = "spawn"
    /\ \/ /\ marker = NoVersion
          /\ gate' = "inactive" /\ UNCHANGED <<marker, failed>>
       \/ gate' = "inactive" /\ MarkerFails
       \/ /\ marker # NoVersion
          /\ gate' = "inactive" /\ DeleteGateMarker
       \/ /\ marker = version
          /\ gate' = "armed" /\ UNCHANGED <<marker, failed>>
    /\ UNCHANGED <<current, previous, stash, blacklist, version, outcome, curState,
                   crashes, chan, listening, ctxDone, exit, worker, condemned>>

Spawn ==
    /\ pc = "spawn"
    /\ pc' = "select" /\ curState' = "Starting"
    /\ proc' = "boot" /\ install' = "idle" /\ target' = NoVersion
    /\ UNCHANGED <<disk, version, outcome, gate, crashes, chan, listening,
                   ctxDone, exit, code, sigterm, rollbackCh, restartCh,
                   ghosts>>

SpawnFails ==
    /\ pc = "spawn" /\ "spawn" \in Faults
    /\ pc' = "outcome" /\ outcome' = "spawnFailure"
    /\ UNCHANGED <<disk, version, curState, gate, crashes, chan, listening,
                   ctxDone, exit, worker, ghosts>>

(***************************************************************************)
(* runOneSpawn: one action per case of its select.                         *)
(***************************************************************************)
(* session.stop has begun; o is the outcome reported once the worker is    *)
(* reaped.                                                                 *)
BeginStop(o) ==
    /\ pc' = "stop" /\ outcome' = o /\ sigterm' = TRUE
    /\ UNCHANGED <<disk, version, curState, crashes, chan, listening, ctxDone,
                   exit, proc, code, rollbackCh, restartCh, install, target,
                   ghosts>>

OnShutdown ==
    /\ pc = "select" /\ ctxDone
    /\ BeginStop("stopped") /\ UNCHANGED gate

OnStartDeadline ==
    /\ pc = "select" /\ curState = "Starting"
    /\ BeginStop("crash") /\ UNCHANGED gate

(* Mutant: the watchdog timer is not armed by READY. *)
OnWatchdogUnarmed ==
    /\ pc = "select" /\ curState = "Starting"
    /\ BeginStop("crash") /\ UNCHANGED gate

OnWatchdog ==
    /\ pc = "select" /\ curState = "Running"
    /\ BeginStop("crash") /\ UNCHANGED gate

(* Mutant: Tick has no case for Stabilizing. *)
OnGateTickArmedOnly ==
    /\ pc = "select" /\ gate = "armed"
    /\ gate' = "failed" /\ BeginStop("healthTimeout")

(* Mutant: the marker survives a pass. *)
OnGateTickKeepsMarker ==
    /\ pc = "select"
    /\ \/ GateActive /\ gate' = "failed" /\ BeginStop("healthTimeout")
       \/ /\ gate = "stabilizing" /\ gate' = "inactive"
          /\ UNCHANGED <<disk, pc, version, outcome, curState, crashes, chan,
                         listening, ctxDone, exit, worker, ghosts>>

(* gateTimer: Tick either times out, and the worker is stopped, or passes,  *)
(* and the marker is deleted and the gate reset.                            *)
OnGateTick ==
    /\ pc = "select"
    /\ \/ GateActive /\ gate' = "failed" /\ BeginStop("healthTimeout")
       \/ /\ gate = "stabilizing" /\ gate' = "inactive"
          /\ DeleteGateMarker
          /\ UNCHANGED <<current, previous, stash, blacklist, pc, version, outcome,
                         curState, crashes, chan, listening, ctxDone, exit,
                         worker, condemned>>

(* Mutant: the gate is not told of READY. *)
OnMessageGateUnaware ==
    /\ pc = "select" /\ chan # <<>>
    /\ chan' = Tail(chan)
    /\ curState' = IF Head(chan) = "READY" THEN "Running" ELSE curState
    /\ UNCHANGED <<disk, pc, version, outcome, gate, crashes, listening,
                   ctxDone, exit, worker, ghosts>>

(* A message: READY moves Starting to Running and an armed gate to          *)
(* Stabilizing; WATCHDOG re-arms a timer; STOPPING is only logged. The      *)
(* channel does not say which worker sent it.                               *)
OnMessage ==
    /\ pc = "select" /\ chan # <<>>
    /\ chan' = Tail(chan)
    /\ IF Head(chan) = "READY" /\ curState = "Starting"
       THEN /\ curState' = "Running"
            /\ gate' = IF gate = "armed" THEN "stabilizing" ELSE gate
       ELSE UNCHANGED <<curState, gate>>
    /\ UNCHANGED <<disk, pc, version, outcome, crashes, listening, ctxDone,
                   exit, worker, ghosts>>

(* waitCh: a spontaneous graceful exit is demoted to unexpected. *)
OnExit ==
    /\ pc = "select"
    /\ Reap
    /\ pc' = "outcome"
    /\ outcome' = IF code \in {"norestart", "rollback"} THEN code ELSE "crash"
    /\ UNCHANGED <<disk, version, curState, gate, crashes, chan, listening,
                   ctxDone, exit, ghosts>>

(* session.stop: the worker exits within StopGrace ... *)
StopReaped ==
    /\ pc = "stop"
    /\ Reap
    /\ pc' = "outcome"
    /\ UNCHANGED <<disk, version, outcome, curState, gate, crashes, chan,
                   listening, ctxDone, exit, ghosts>>

(* Mutant: only a worker that has reacted to SIGTERM is killed. *)
StopKillResponsive ==
    /\ pc = "stop" /\ proc = "leaving"
    /\ proc' = "dead" /\ code' = "unexpected"
    /\ UNCHANGED <<disk, pc, version, outcome, curState, gate, crashes, chan,
                   listening, ctxDone, exit, sigterm, rollbackCh, restartCh,
                   install, target, ghosts>>

(* ... or is killed when the grace has expired. *)
StopKill ==
    /\ pc = "stop" /\ Alive
    /\ proc' = "dead" /\ code' = "unexpected"
    /\ UNCHANGED <<disk, pc, version, outcome, curState, gate, crashes, chan,
                   listening, ctxDone, exit, sigterm, rollbackCh, restartCh,
                   install, target, ghosts>>

(***************************************************************************)
(* loop: the switch on the outcome.                                        *)
(***************************************************************************)
(* outcomeStopped and outcomeNoRestart end Run. *)
OutcomeReturns ==
    /\ pc = "outcome"
    /\ \/ outcome = "stopped"   /\ Return("ok")
       \/ outcome = "norestart" /\ Return("stop64")
    /\ outcome' = "none"
    /\ UNCHANGED <<disk, version, curState, gate, crashes, chan, listening,
                   ctxDone, worker, ghosts>>

(* outcomeRollback, and a spawn failure outside the gate, roll back now. *)
OutcomeRollsBack ==
    /\ pc = "outcome"
    /\ \/ outcome = "rollback"
       \/ outcome = "spawnFailure" /\ ~GateActive
    /\ pc' = "swap" /\ outcome' = "none"
    /\ UNCHANGED <<disk, version, curState, gate, crashes, chan, listening,
                   ctxDone, exit, worker, ghosts>>

(* Which outcomes fail an install: its gate timed out, or the worker        *)
(* crashed or could not be spawned while the gate was watching.             *)
FailsInstall ==
    \/ outcome = "healthTimeout"
    \/ outcome \in {"crash", "spawnFailure"} /\ GateActive

(* Mutant: the failed install is not blacklisted. *)
CondemnInstallUnlisted ==
    /\ pc = "outcome" /\ FailsInstall
    /\ pc' = "unmark" /\ outcome' = "none"
    /\ gate' = IF outcome = "crash" THEN "failed" ELSE gate
    /\ condemned' = condemned \cup {version}
    /\ UNCHANGED <<disk, version, curState, crashes, chan, listening, ctxDone,
                   exit, worker, failed>>

(* rollbackForInstallHealth, first step: the version is blacklisted. A      *)
(* failed write is logged and ignored.                                      *)
CondemnInstall ==
    /\ pc = "outcome" /\ FailsInstall
    /\ pc' = "unmark" /\ outcome' = "none"
    /\ gate' = IF outcome = "crash" THEN "failed" ELSE gate
    /\ \/ /\ blacklist' = blacklist \cup {version}
          /\ condemned' = condemned \cup {version}
       \/ "blacklist" \in Faults /\ UNCHANGED <<blacklist, condemned>>
    /\ UNCHANGED <<current, previous, stash, marker, version, curState, crashes, chan,
                   listening, ctxDone, exit, worker, failed>>

(* ... second and third: the marker is deleted and the gate reset. *)
DiscardMarker ==
    /\ pc = "unmark"
    /\ DeleteGateMarker /\ gate' = "inactive"
    /\ pc' = "swap"
    /\ UNCHANGED <<current, previous, stash, blacklist, version, outcome, curState,
                   crashes, chan, listening, ctxDone, exit, worker, condemned>>

(* outcomeCrash outside the gate: RecordCrash keeps the new crash and those *)
(* of the older ones that are still inside the window.                      *)
RecordCrash ==
    /\ pc = "outcome" /\ outcome = "crash" /\ ~GateActive
    /\ \E n \in 1..(crashes + 1) :
          /\ crashes' = n
          /\ pc' = IF n >= CrashCap THEN "swap" ELSE "backoff"
    /\ outcome' = "none"
    /\ UNCHANGED <<disk, version, curState, gate, chan, listening, ctxDone,
                   exit, worker, ghosts>>

(* sleep: the delay elapses, or the shutdown request ends it. *)
Backoff ==
    /\ pc = "backoff"
    /\ \/ ~ctxDone /\ pc' = "loop" /\ UNCHANGED exit
       \/ ctxDone /\ Return("ok")
    /\ UNCHANGED <<disk, version, outcome, curState, gate, crashes, chan,
                   listening, ctxDone, worker, ghosts>>

(* Mutant: a missing previous link is not noticed. *)
HasRollbackTargetUnchecked == current # NoVersion /\ current # previous

(* SwapCurrentPrevious has something to swap with. *)
HasRollbackTarget ==
    /\ current # NoVersion
    /\ previous # NoVersion
    /\ current # previous

(* What a step inside SwapCurrentPrevious leaves alone. *)
swapFrame == <<marker, blacklist, version, outcome, curState, gate, chan,
               listening, ctxDone, worker, ghosts>>

(* rollback: SwapCurrentPrevious finds nothing to swap with, and Run stops   *)
(* with code 65, or clears a stray .swap.tmp and goes on to its renames.     *)
Rollback ==
    /\ pc = "swap"
    /\ IF HasRollbackTarget
       THEN stash' = NoVersion /\ pc' = "swap1" /\ UNCHANGED exit
       ELSE Return("stop65") /\ UNCHANGED stash
    /\ UNCHANGED <<swapFrame, current, previous, crashes>>

(* rename(current, .swap.tmp) *)
SwapStep1 ==
    /\ pc = "swap1"
    /\ stash' = current /\ current' = NoVersion /\ pc' = "swap2"
    /\ UNCHANGED <<swapFrame, previous, crashes, exit>>

(* Mutant: the stashed link is put back where it came from. *)
SwapStep2Undone ==
    /\ pc = "swap2"
    /\ current' = stash /\ stash' = previous /\ previous' = NoVersion
    /\ pc' = "swap3"
    /\ UNCHANGED <<swapFrame, crashes, exit>>

(* rename(previous, current) *)
SwapStep2 ==
    /\ pc = "swap2"
    /\ current' = previous /\ previous' = NoVersion /\ pc' = "swap3"
    /\ UNCHANGED <<swapFrame, stash, crashes, exit>>

(* rename(.swap.tmp, previous); then the tracker is reset. *)
SwapStep3 ==
    /\ pc = "swap3"
    /\ previous' = stash /\ stash' = NoVersion /\ crashes' = 0
    /\ pc' = "loop"
    /\ UNCHANGED <<swapFrame, current, exit>>

(* A rename fails and Run returns the error. After the second one the first *)
(* is undone, which may fail as well.                                       *)
SwapFails ==
    /\ "swap" \in Faults /\ pc \in {"swap1", "swap2", "swap3"}
    /\ Return("swapError")
    /\ \/ pc = "swap2" /\ current' = stash /\ stash' = NoVersion
       \/ UNCHANGED <<current, stash>>
    /\ UNCHANGED <<swapFrame, previous, crashes>>

(***************************************************************************)
(* The world around clawmastd.                                             *)
(***************************************************************************)
(* systemctl stop, or Ctrl-C: ctx is cancelled. *)
RequestStop ==
    /\ pc # "done" /\ ~ctxDone
    /\ ctxDone' = TRUE
    /\ UNCHANGED <<disk, pc, version, outcome, curState, gate, crashes, chan,
                   listening, exit, worker, ghosts>>

(* Listener.Serve returns on a read error; what is buffered is delivered,   *)
(* then the closed channel is skipped forever.                              *)
ListenerFails ==
    /\ "listener" \in Faults /\ listening /\ pc # "done"
    /\ listening' = FALSE
    /\ UNCHANGED <<disk, pc, version, outcome, curState, gate, crashes, chan,
                   ctxDone, exit, worker, ghosts>>

(* clawmastd is killed. Under the systemd unit, which leaves KillMode at    *)
(* its default, the worker is in the same control group and goes with it.   *)
(* launchd has no such group: see the module's header.                      *)
SupervisorKilled ==
    /\ "kill" \in Faults /\ pc # "done"
    /\ Return("killed")
    /\ proc' = "none" /\ code' = "unexpected"
    /\ sigterm' = FALSE /\ rollbackCh' = FALSE /\ restartCh' = FALSE
    /\ UNCHANGED <<disk, version, outcome, curState, gate, crashes, chan,
                   listening, ctxDone, install, target, ghosts>>

(* The systemd unit's Restart=on-failure starts a fresh clawmastd after any *)
(* exit other than 0 and 64 (SuccessExitStatus): Run begins again with      *)
(* empty memory and a new notify socket.                                    *)
InitRestarts ==
    /\ pc = "done" /\ exit \notin {"ok", "stop64"} /\ ~ctxDone
    /\ pc' = "loop" /\ exit' = "none"
    /\ version' = NoVersion /\ outcome' = "none" /\ curState' = "Starting"
    /\ gate' = "inactive" /\ crashes' = 0 /\ chan' = <<>> /\ listening' = TRUE
    /\ UNCHANGED <<disk, ctxDone, worker, ghosts>>

(***************************************************************************)
(* The worker. Its HTTP server accepts requests before READY is sent.      *)
(***************************************************************************)
supervisorVars == <<pc, version, outcome, curState, gate, crashes, listening,
                    ctxDone, exit, ghosts>>

(* runWorker sends READY and enters its select. *)
WorkerReady ==
    /\ proc = "boot"
    /\ proc' = "up" /\ Notify("READY")
    /\ UNCHANGED <<disk, supervisorVars, code, sigterm, rollbackCh, restartCh,
                   install, target>>

(* heartbeat *)
Heartbeat ==
    /\ proc \in {"up", "leaving"}
    /\ Notify("WATCHDOG")
    /\ UNCHANGED <<disk, supervisorVars, worker>>

(* Mutant: the select has no case for rollbackCh. *)
WorkerLeavesNotOnRollback ==
    /\ proc = "up" /\ (sigterm \/ restartCh)
    /\ code' = "graceful"
    /\ proc' = "leaving" /\ Notify("STOPPING")
    /\ UNCHANGED <<disk, supervisorVars, sigterm, rollbackCh, restartCh,
                   install, target>>

(* runWorker leaves its select and sends STOPPING: on SIGTERM, on a rollback *)
(* request (exit 65) or on a restart request (exit 0). When several are      *)
(* ready Go picks any of them.                                               *)
WorkerLeaves ==
    /\ proc = "up"
    /\ \/ (sigterm \/ restartCh) /\ code' = "graceful"
       \/ rollbackCh /\ code' = "rollback"
    /\ proc' = "leaving" /\ Notify("STOPPING")
    /\ UNCHANGED <<disk, supervisorVars, sigterm, rollbackCh, restartCh,
                   install, target>>

(* Shutdown is over; main exits with the chosen code, whatever handlers are *)
(* still doing.                                                             *)
WorkerExits ==
    /\ proc = "leaving"
    /\ proc' = "dead"
    /\ UNCHANGED <<disk, supervisorVars, chan, code, sigterm, rollbackCh,
                   restartCh, install, target>>

(* The worker freezes: no heartbeat, no reaction to SIGTERM. *)
WorkerHangs ==
    /\ proc \in {"boot", "up"}
    /\ proc' = "hung"
    /\ UNCHANGED <<disk, supervisorVars, chan, code, sigterm, rollbackCh,
                   restartCh, install, target>>

(* The worker panics, is killed, or its main returns an error. *)
WorkerDies ==
    /\ Alive
    /\ \E c \in DeathCodes : code' = c
    /\ proc' = "dead"
    /\ UNCHANGED <<disk, supervisorVars, chan, sigterm, rollbackCh, restartCh,
                   install, target>>

(* POST /api/blacklist: the entry is written, and marking the running       *)
(* version also schedules exit 65.                                          *)
HandleBlacklistAdd(v) ==
    /\ proc \in {"boot", "up"}
    /\ blacklist' = blacklist \cup {v}
    /\ rollbackCh' = (rollbackCh \/ v = version)
    /\ UNCHANGED <<current, previous, stash, marker, supervisorVars, chan, proc, code,
                   sigterm, restartCh, install, target>>

(* POST /api/settings/channel: the preference is saved and a restart        *)
(* scheduled.                                                               *)
HandleChannelSet ==
    /\ proc \in {"boot", "up"}
    /\ restartCh' = TRUE
    /\ UNCHANGED <<disk, supervisorVars, chan, proc, code, sigterm, rollbackCh,
                   install, target>>

(***************************************************************************)
(* POST /api/updates/install, from the point where Apply has the new        *)
(* version directory in place: rotateSymlinks, one action per system call,  *)
(* then the gate marker and the scheduled restart. The worker may die       *)
(* between any two of them.                                                 *)
(***************************************************************************)
(* What an install step leaves alone. *)
installFrame == <<supervisorVars, stash, blacklist, chan, proc, code, sigterm,
                  rollbackCh>>

(* Apply refuses the running version; otherwise previous is removed, unless *)
(* current already names the version being installed, or is missing since   *)
(* an earlier Apply failed.                                                 *)
InstallStart(v) ==
    /\ proc \in {"boot", "up"} /\ target = NoVersion
    /\ v # version
    /\ target' = v
    /\ \/ /\ current \notin {v, NoVersion}
          /\ previous' = NoVersion /\ install' = "prevCleared"
       \/ current = v /\ install' = "prevWritten" /\ UNCHANGED previous
       \/ current = NoVersion /\ install' = "curCleared" /\ UNCHANGED previous
    /\ UNCHANGED <<installFrame, current, marker, restartCh>>

InstallWritePrevious ==
    /\ Alive /\ install = "prevCleared"
    /\ previous' = current /\ install' = "prevWritten"
    /\ UNCHANGED <<installFrame, current, marker, restartCh, target>>

InstallClearCurrent ==
    /\ Alive /\ install = "prevWritten"
    /\ current' = NoVersion /\ install' = "curCleared"
    /\ UNCHANGED <<installFrame, previous, marker, restartCh, target>>

InstallWriteCurrent ==
    /\ Alive /\ install = "curCleared" /\ target # NoVersion
    /\ current' = target /\ install' = "curWritten"
    /\ UNCHANGED <<installFrame, previous, marker, restartCh, target>>

(* WriteGateMarker, then the restart; a marker that cannot be written makes *)
(* Apply return an error, and no restart is scheduled.                      *)
InstallFinish ==
    /\ Alive /\ install = "curWritten"
    /\ \/ marker' = target /\ restartCh' = TRUE
       \/ "marker" \in Faults /\ UNCHANGED <<marker, restartCh>>
    /\ install' = "idle" /\ target' = NoVersion
    /\ UNCHANGED <<installFrame, current, previous>>

(* A system call of rotateSymlinks fails: Apply returns the error and       *)
(* leaves the links as they are.                                            *)
InstallFails ==
    /\ "install" \in Faults /\ Alive /\ target # NoVersion
    /\ install \in {"prevCleared", "prevWritten", "curCleared"}
    /\ install' = IF install = "curCleared" THEN install ELSE "idle"
    /\ target' = NoVersion
    /\ UNCHANGED <<installFrame, current, previous, marker, restartCh>>

(***************************************************************************)
(* Specification.                                                          *)
(***************************************************************************)
Loop    == LoopStopped \/ ResolveFails \/ CheckBlacklist \/ PrepareGate
             \/ Spawn \/ SpawnFails
Select  == OnShutdown \/ OnStartDeadline \/ OnWatchdog \/ OnGateTick
             \/ OnMessage \/ OnExit
Stop    == StopReaped \/ StopKill
Swap    == Rollback \/ SwapStep1 \/ SwapStep2 \/ SwapStep3 \/ SwapFails
Switch  == OutcomeReturns \/ OutcomeRollsBack \/ CondemnInstall
             \/ DiscardMarker \/ RecordCrash \/ Backoff \/ Swap
Outside == RequestStop \/ ListenerFails \/ SupervisorKilled \/ InitRestarts
Install == \/ \E v \in Versions : InstallStart(v)
           \/ InstallWritePrevious \/ InstallClearCurrent
           \/ InstallWriteCurrent \/ InstallFinish \/ InstallFails
Handle  == HandleChannelSet \/ \E v \in Versions : HandleBlacklistAdd(v)
Worker  == WorkerReady \/ Heartbeat \/ WorkerLeaves \/ WorkerExits
             \/ WorkerHangs \/ WorkerDies

Next == Loop \/ Select \/ Stop \/ Switch \/ Outside \/ Worker \/ Handle
          \/ Install

Spec == Init /\ [][Next]_vars

(***************************************************************************)
(* Fairness. clawmastd's goroutine always takes its next step. In the      *)
(* select a case that stays ready is eventually picked; the start deadline *)
(* and the gate's deadline are fixed instants, so a session that stays     *)
(* Starting, or a gate that stays active, meets them. The watchdog is only *)
(* certain to fire when nothing feeds it: the worker hangs, or has not     *)
(* come as far as its heartbeat. A worker that has a reason to leave its   *)
(* select leaves, and then exits. Nothing is assumed of operators, of      *)
(* faults, or of a worker's health.                                        *)
(***************************************************************************)
Fairness ==
    /\ WF_vars(LoopStopped \/ ResolveFails \/ CheckBlacklist \/ PrepareGate)
    /\ WF_vars(Spawn \/ SpawnFails)
    /\ WF_vars(Stop)
    /\ WF_vars(Switch)
    /\ WF_vars(OnShutdown)
    /\ WF_vars(OnMessage)
    /\ WF_vars(OnExit)
    /\ WF_vars(OnStartDeadline)
    /\ WF_vars(OnGateTick)
    /\ WF_vars(OnWatchdog /\ proc \in {"hung", "boot"})
    /\ WF_vars(WorkerLeaves)
    /\ WF_vars(WorkerExits)
    /\ WF_vars(InitRestarts)

FairSpec == Spec /\ Fairness

(***************************************************************************)
(* Properties.                                                             *)
(***************************************************************************)
(* The worker's life as SpawnPolicy sees it. *)
Policy == INSTANCE SpawnPolicy WITH
    running <- IF Alive THEN version ELSE NoVersion,
    banned  <- blacklist,
    unread  <- "blacklist" \in failed,
    down    <- pc = "done"

(* loop.go implements the policy: one worker at a time, never a worker of a *)
(* blacklisted version even when the entry was written while an earlier     *)
(* worker ran or the supervisor was killed halfway through a rollback,      *)
(* unless the list could not be read for that very spawn, and never a       *)
(* supervisor that returned with its worker alive.                          *)
ImplementsPolicy == Policy!Spec

(* A version whose failed install gate has been recorded never runs again   *)
(* while the blacklist can be read, although the worker may reinstall it    *)
(* and the supervisor may be killed between the blacklist write, the marker *)
(* deletion and the swap of rollbackForInstallHealth: when it runs, its own *)
(* spawn is one whose blacklist.Load failed (checkBlacklist fails open), a  *)
(* reading that failed for an earlier spawn excuses nothing.                *)
CondemnedNeverRun == Alive /\ version \in condemned => "blacklist" \in failed

(* Run cannot resolve a worker only when current was lost halfway: inside   *)
(* rotateSymlinks, between its removal and its creation, or inside          *)
(* SwapCurrentPrevious, between the first two renames; and in the second    *)
(* case both targets are still on disk, under previous and .swap.tmp.       *)
FatalOnlyAfterTear ==
    exit = "fatal" => \/ install = "curCleared"
                      \/ stash # NoVersion /\ previous # NoVersion

(* Run returns nil, which the init system takes as final, only after a      *)
(* shutdown request; a lost gate, rollback or listener never ends           *)
(* supervision silently.                                                    *)
SilentExitOnlyOnRequest == exit = "ok" => ctxDone

(* No worker runs on a spent crash budget: the third crash inside the       *)
(* window rolls back before the next spawn.                                 *)
CrashBudget == Alive => crashes < CrashCap

(* While a session runs, an active gate is Armed exactly until the READY    *)
(* that moves the session to Running, so it cannot pass before READY and a  *)
(* Running worker is never judged as not started.                           *)
GateTracksReady ==
    pc = "select" /\ GateActive => (gate = "armed" <=> curState = "Starting")

(* A version that still has its own marker on disk is never run without the *)
(* gate watching (or having just failed) it, kills and reinstalls included, *)
(* unless reading or deleting the marker failed in this very spawn.         *)
MarkedIsWatched ==
    Alive /\ marker = version => gate # "inactive" \/ "marker" \in failed

(***************************************************************************)
(* The inductive invariant behind the properties above, in named parts.    *)
(***************************************************************************)
(* A worker process exists exactly while runOneSpawn is waiting for it. *)
SessionInv == pc \in {"select", "stop"} <=> proc # "none"

(* Past the resolve step a version has been chosen, and until the spawn it  *)
(* is the one current names and, if the list could be read, not listed.     *)
VersionInv ==
    /\ pc \notin {"loop", "done"} => version \in Versions
    /\ pc \in {"prepare", "spawn"} => /\ current = version
                                      /\ version \in blacklist => "blacklist" \in failed

(* current is missing only inside, or after a failure inside, the windows   *)
(* of rotateSymlinks and of SwapCurrentPrevious; an install never targets   *)
(* the running version.                                                     *)
LinksInv ==
    /\ current = NoVersion =>
         \/ install = "curCleared"
         \/ /\ pc \in {"swap2", "loop", "done"}
            /\ stash # NoVersion /\ previous # NoVersion
    /\ install = "curCleared" => current = NoVersion
    /\ pc = "swap1" => current # NoVersion /\ previous # NoVersion
    /\ pc = "swap2" => /\ stash # NoVersion /\ previous # NoVersion
                       /\ install # "curCleared"
    /\ install \notin {"idle", "curCleared"} => target # NoVersion
    /\ proc # "none" => target # version

(* Run's result agrees with how it came about. *)
ExitInv ==
    /\ exit = "none" <=> pc # "done"
    /\ outcome = "stopped" /\ pc # "done" => ctxDone
    /\ SilentExitOnlyOnRequest
    /\ FatalOnlyAfterTear

(* A spent budget is only ever seen on the way through rollback. *)
BudgetInv ==
    pc \notin {"swap", "swap1", "swap2", "swap3", "done"} => crashes < CrashCap

(* The gate is armed before READY and stabilizing after it. *)
GateInv ==
    /\ pc = "spawn" => gate \in {"inactive", "armed"}
    /\ GateTracksReady

Inv == TypeOK /\ SessionInv /\ VersionInv /\ LinksInv /\ ExitInv
         /\ BudgetInv /\ GateInv

(* What has been recorded stays listed. *)
CondemnInv == condemned \subseteq blacklist /\ CondemnedNeverRun

(* The gate is armed for every marked spawn whose marker could be read. *)
MarkerInv ==
    /\ pc = "spawn" /\ marker = version => gate = "armed" \/ "marker" \in failed
    /\ MarkedIsWatched

(* A shutdown request is honoured from every state: backing off, inside     *)
(* a rollback, with a worker that ignores SIGTERM, or while swapping        *)
(* between two blacklisted versions.                                        *)
StopHonoured == ctxDone ~> pc = "done"

(* A worker that hangs, before or after READY, is replaced. *)
HungIsReplaced == proc = "hung" ~> proc # "hung"

(* Every install gate comes to a verdict, or loses its worker to another    *)
(* outcome: it never watches one worker forever.                            *)
GateDecides ==
    pc = "select" /\ GateActive ~> ~(pc = "select" /\ GateActive)

(* Marking the running version bad ends its worker, whatever else its       *)
(* select could pick.                                                       *)
MarkedBadStops == rollbackCh ~> ~Alive

(* The loop never spins: again and again it has a worker, or is about to    *)
(* start one, or has returned. Unless every version the links can still     *)
(* lead to is blacklisted, which makes checkBlacklist swap them for ever.   *)
LoopMakesProgress ==
    []<>(\/ Alive \/ pc \in {"spawn", "done"}
         \/ {current, previous, stash} \cap Versions \subseteq blacklist)
=============================================================================
