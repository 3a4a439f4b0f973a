# Verification of clawmast

clawmast supervises and manages a local OpenClaw gateway. Two processes carry
its logic: `clawmastd`, a small supervisor that spawns, watches, restarts and
rolls back one worker, and the worker (`clawmast run`), which serves the HTTP
API, installs new versions of clawmast itself and keeps the OpenClaw gateway
alive. This directory models both, and the files they share, in TLA+; checks
the models with TLC and proves the central properties with TLAPS.

Run `tlc -config X.cfg M` for a run and `tlapm M.tla` for a `*Proofs` module,
in this directory. `PROJECT.json` lists runs, mutants, findings, hazards,
theorems, and for each definition the source lines it models.

## 1. Inventory

| Component | State | Operations | What makes it correct |
|---|---|---|---|
| Supervisor loop (`internal/supervisor/loop.go`, `supervisor.go`, `session.go`, `exitcode.go`) | loop position, session state, pending outcome, shutdown flag | check blacklist, prepare gate, spawn, the select over shutdown / notify / watchdog / start deadline / gate timer / exit, stop with SIGTERM then SIGKILL, outcome switch, rollback, backoff | one worker at a time, a banned version only when the blacklist cannot be read, never gone with its worker alive (under systemd), shutdown always honoured, a hang always noticed |
| current/previous links (`supervisor/symlinks.go`, `selfupdate/rotate_unix.go`) | the targets of `current`, `previous`, `.swap.tmp` | three-rename swap by the supervisor, remove-and-create rotation by the worker | a worker can always be resolved, except inside a torn update |
| Install health gate (`healthgate.go`, `selfupdate/marker.go`) | gate state, deadline, READY instant, timer; the marker file | arm, READY, tick, crash | fair and timely verdicts; a freshly installed version is watched; a failed one does not run again as long as its files can be read and written |
| Crash tracker and backoff (`backoff.go`) | crash times, start of the running spell | record, reset, delay | exactly the current burst is counted; delays in range |
| Notify listener (`notify.go`, `internal/sdnotify`) | a bounded channel that outlives sessions | receive, drop when full, end on error | no message, or a lost one, makes the supervisor stick |
| Worker process (`cmd/clawmast/run.go`) | life cycle, exit code, one-slot rollback and restart channels | READY, heartbeat, leave, exit, hang, die | marking the running version bad ends it |
| Self update (`internal/selfupdate`, `agent/handlers.go`) | staging directory, version directories, links, marker; one `Apply` per request | clear staging, download and verify, publish, rotate the links, write the marker, ask for a restart | what is published is what was signed; the running version is not touched; there is a way back |
| Blacklist file (`internal/blacklist`) | the file, its staging file | `Add`: load, stage, rename | no partial document, no lost entry |
| Update check (`internal/updater`, `agent/server.go`) | cached outcome of the last background check | fetch manifest, fetch signature, verify, record | an alarm only for a check that a publication overlapped, offers of the own channel only, a hint that ends up right |
| Channel preference (`agent/channel.go`, `handlers_channel.go`) | `state/channel`, the channel resolved at boot, a scheduled restart | set, resolve at boot | the last pick is kept and takes effect |
| History ledger (`supervisor/history.go`, `internal/history`) | `state/history.json` | append, read | a torn tail does no damage to earlier entries |
| Bearer token (`agent/auth.go`) | `state/token` | load or create at boot | the token stays the same |
| OpenClaw manager (`internal/openclaw`) | Snapshot, current action, action log, autoheal streak and cooldown, one goroutine per operation | probe, start/stop/restart/doctor, Fix cascade, autoheal | clicks are kept; autoheal fires on confirmed outages only, and eventually; the action slot clears; the badge does not flap |
| OpenClaw probing (`openclaw/status.go`, `gateway_addr.go`, `exec.go`, `discover.go`) | address cache, liveness and CLI verdicts in the Snapshot, crash count | HTTP probe, CLI enrichment, address resolution | verdicts converge to the truth where the address does; crashes are counted once; a useless answer of the CLI changes nothing |
| HTTP routing, CLI, release builder, web UI | none | | section 8 |

**Interactions.** The worker reports to the supervisor through sd_notify
datagrams (READY, WATCHDOG, STOPPING), which carry no worker identity, and
through its exit code (0, 64 = do not restart, 65 = roll back, anything else =
crash). The supervisor acts on the worker with signals. Links, marker and
blacklist are files that both write without a lock; the history is written by
the supervisor and read by the worker. Within the worker, HTTP
handlers, the poller, actions, cascades and the autoheal trigger are
goroutines: the Snapshot is updated under a lock, the current action is an
atomic read in the middle of that update, and the operations themselves are not
serialised.

**What is hard.** `clawmastd` or the worker dies between two renames, or
between the blacklist write, the marker deletion and the swap of a failed
install. A datagram of a dead worker reaches its successor's session. The gate
timer races READY, a crash and its own deadline. The worker rotates the links,
or overwrites the marker, under the supervisor that is about to swap or delete
them. Two requests share one staging file, one action slot, one log. A probe
writes back what it read seconds earlier. Two installs of one version share its
staging directory. A release is published between the fetch of its manifest and
the fetch of its signature. A kill leaves half a line in the ledger or an empty
token file. `PROJECT.json` lists these and the
other hazards, each at its line with the properties that cover it.

## 2. Modules

| Module | Models | Uses |
|---|---|---|
| `SpawnPolicy` | what the supervisor promises, without its machinery: at most one worker, of a banned version only when the list of bans could not be read for that start, bans are for good, never a worker without a supervisor | |
| `Supervisor` | supervisor, worker, notify channel, links, marker, blacklist, installs, faults and kills: the composition | `SpawnPolicy` (refinement mapping `Policy`) |
| `SupervisorClaims` | statements of comments and docs that the code does not keep | `Supervisor` |
| `MCSupervisor` | exit classes and symmetry for TLC | `SupervisorClaims` |
| `Clock` | the clock that gate and tracker read | |
| `HealthGate` | the gate on a clock, timers late by up to `Late` | `Clock` |
| `CrashTracker` | crash window and delays on a clock, `Width`-bit durations | `Clock` |
| `MCCrashTracker` | the comparison of the tracker's window with the code's filter, for TLC | `CrashTracker` |
| `BlacklistFile` | `blacklist.Add` system call by system call, several writers | |
| `SelfUpdate`, `MCSelfUpdate` | `selfupdate.Apply` system call by system call, several requests, the supervisor reduced to what it does to the tree | |
| `UpdateChannel` | release, mirror, update check, channel switch and restart | |
| `StateFiles` | history ledger, token and channel preference under kills and failed calls | |
| `OpenClawManager`, `MCOpenClaw` | probes, actions, cascade, autoheal, phase, action log; symmetry for TLC | |
| `GatewayProbe` | overlapping probes, CLI enrichment, the address cache and its resolver | |
| `*Proofs` | the proofs about the module of that name (`ClockProofs`: about gate and tracker; `OpenClawProofs`: about `OpenClawManager`) | |

Operators whose comment begins with "Mutant:" are not part of any
specification. Each is a plausible slip in the definition that follows it;
replacing that definition by it must break a property, which shows that the
property depends on the code.

### Supervisor: correspondence to the code

`pc` is the position in `loop` and `runOneSpawn`: `loop` (top of the loop),
`prepare`, `spawn`, `select`, `stop` (inside `session.stop`), `outcome` (the
switch on the outcome), `unmark` and `swap`..`swap3` (inside `rollback*` and
`SwapCurrentPrevious`), `backoff`, `done` (Run has returned, or the process is
gone). The actions:

* `LoopStopped`, `ResolveFails`, `CheckBlacklist`, `PrepareGate`, `Spawn`,
  `SpawnFails`: one loop iteration up to the running worker.
* `OnShutdown`, `OnStartDeadline`, `OnWatchdog`, `OnGateTick`, `OnMessage`,
  `OnExit`: the cases of the select, each with everything its handler does
  (feeding the watchdog, moving the gate, deleting the marker on a pass).
* `StopReaped`, `StopKill`: the SIGTERM, wait, SIGKILL sequence.
* `OutcomeReturns`, `OutcomeRollsBack`, `CondemnInstall`, `DiscardMarker`,
  `RecordCrash`, `Backoff`: the outcome switch. `CondemnInstall` and
  `DiscardMarker` are the two halves of `rollbackForInstallHealth`, with a
  possible kill between them.
* `Rollback`, `SwapStep1..3`, `SwapFails`: the guard of the rollback, then one
  action per rename. When the second fails the first is undone, as in the code.
* `RequestStop`, `ListenerFails`, `SupervisorKilled`, `InitRestarts`: the
  outside, which is systemd with the unit the repository ships. The worker is
  killed with its supervisor, because it is in the same control group, and
  systemd starts the supervisor again unless it returned nil or one of the codes
  the unit names. launchd does neither; section 7 says what that changes.
* `WorkerReady`, `Heartbeat`, `WorkerLeaves`, `WorkerExits`, `WorkerHangs`,
  `WorkerDies`: the worker process; `HandleBlacklistAdd`, `HandleChannelSet`
  and `InstallStart` .. `InstallFails` its handlers, with one action per system
  call of `rotateSymlinks`.

Time is abstracted here: an armed timer may fire at any moment, a marker may be
stale when read, the sliding window may have forgotten older crashes.
`HealthGate` and `CrashTracker` model these clocks, and `BlacklistFile` the
write that is one step here.

`CheckBlacklist` fails open, as the code does: when the list cannot be read or
decoded the version `current` names is spawned, listed or not. Two variables only
observe: `condemned`, the versions whose failed install has been recorded, and
`failed`, the state files (`blacklist`, `marker`) an operation of this spawn has
failed on. `SpawnPolicy`'s `unread` is `"blacklist" \in failed`.

`Faults` names the best-effort operations that may fail in a run: `spawn`,
`blacklist` (its write), `unreadable` (its read), `marker`, `listener`, `swap`,
`install`, `kill`.

### OpenClawManager: correspondence to the code

A goroutine's `pc` is `begin` (dispatched), `reset` (the action is named, its
log not yet started), `cli`, `cmd` (a command runs), `observe`, `store` (a probe
is under way), `locked` (inside `store.set`, the current action read, nothing
written yet), `judge`, `final`, `clear`. `Dispatch` is the HTTP handler, which
sets the Intent and starts the goroutine; `SetCurrentAction`, `ResetActionLog`,
`RunCmd`, `CmdReturns`, `Judge`, `SkipOSRestart`, `FinalizeActionLog`,
`ClearCurrentAction` are `RunAction` and `Cascade`. `ProbeNow` is three steps:
`Observe` outside the lock; `Enter`, which takes it and reads `currentAction`, an
atomic the lock does not protect; and `Store`, where the time of the last attempt
is read and the phase and the autoheal decision are computed and written. Steps
that need the lock wait while it is held; naming and clearing an action do not.

Warm-up grace and cooldown are flags that time clears at any moment. The cooldown
is whatever `CLAWMAST_OPENCLAW_AUTOHEAL_COOLDOWN` says, so it may end while the
cascade it belongs to runs, and a second cascade may start beside it. `UserOps`
and `Healers` are the goroutines that requests and cascades may run in; they may
overlap, and bound how many run at once. The gateway may be alive or not at any
probe, and a command may do anything. `asked`, `recent`, `downs`, `met` and
`alone` only observe; the last says that no two operations have overlapped yet.

### The file modules: correspondence to the code

`SelfUpdate`, `BlacklistFile` and `StateFiles` have one action per system call
that another process or goroutine can see. Each request has a `pc`, named after
the call it makes next, and a `file`: where the file it has open is by now
(`staged` under its temporary name, `published` because somebody renamed that
name over the target, `unlinked` because somebody removed it). This is what
makes a shared staging name dangerous, and it is why a write may reach the
published file. `os.WriteFile` is two steps, the truncation and the write.
`Fail`, `SaveWriteFails`, `SetFails` are the error returns with the clean-up the
code does; `WorkerGone` and `Kill` end every request where it is.

`SelfUpdate`: `Begin` is the guard of `Apply`; `ClearStaging`, `MakeStaging`,
`OpenBinary`, `CopyBinary`, `WriteManifest`, `Discard` its staging half;
`Unpublish` and `Promote` the publication; `ReadCurrent` .. `WriteCurrent` are
`rotateSymlinks`; `OpenMarker` .. `RenameMarker` `WriteGateMarker`. `Spawn`,
`Rollback` and `DeleteMarker` are the supervisor. A directory is `absent`,
`whole` (exactly the signed binary) or `bad`. `raced`, `together` and `hurt` only
observe: which versions were installed by two requests at once, whether two
requests ever overlapped, and whether an `Apply` was cut off at a step that
leaves a name missing.

`StateFiles`: a ledger line is the entries begun in it, whether the last one is
incomplete (`cut`) and whether its newline is missing (`open`). `Decoded` is what
`decodeAll` returns. `Boot`, `LoadToken`, `CreateToken`, `WriteToken` are
`LoadOrCreateToken` in `runWorker`.

### UpdateChannel: correspondence to the code

A release is a number; `train` gives the channel its manifest names, which need
not be the directory it is mirrored to. `ServeManifest` and `ServeSignature` are
the two files appearing on the site in either order. `StartCheck`,
`FetchManifest`, `FetchSignature` are `RunBackgroundChecks`, `runUpdateCheck` and
`Client.Check`, with every error `classifyUpdaterError` can report for them;
`Outcome` is what `recordBackgroundCheck` caches. `SetChannel` is the handler,
`WorkerRestarts` the restart it schedules, `Boot` the channel resolution of
`runWorker`. `unsettled` only observes: the checks during which the two files
disagreed at some moment between their fetches.

### GatewayProbe: correspondence to the code

`ProbeBegins` copies the Snapshot and runs `Discover`; `ProbeFast` is the HTTP
probe at the cached address, with `NeedsEnrichment` for its outcome; `ProbeCli`
the CLI call; `ProbeStores` what `ProbeNow` does under the lock. `ResolverAsks`
and `ResolverStores` are the resolver goroutine, the CLI answering in between:
with the gateway's port, or with any of the errors after which `Usable` fails and
the cache stays as it is. The CLI comes and goes as often as it likes.
`older`, `overtaken`, `overtakes` and `misled` only observe: which pending
verdicts were formed before which, and how often an older one was stored after a
newer one, or an address after the gateway had moved.

### CrashTracker: correspondence to the code

`RecordCrash` is `Tracker.RecordCrash` with what `loop` does next: `Carried` is the
slice after the steady-run rule, `Trim` the sliding window, `ShouldRollback` the
cap, and either the reset after a rollback or the delay (`Nominal`, `Jitter`)
follows. `Trim` is written as the rest of the slice from the first timestamp in
the window. The code filters; on timestamps in order, as the tracker's are, the
two agree, and `MCCrashTracker` has TLC compare them on every ordered sequence of
up to four crashes. `log` only observes: every crash since the last rollback,
with whether a steady run preceded it.

## 3. Runs that pass

| Run | Instance | Shows |
|---|---|---|
| `supervisor_faults` | 2 versions, crash cap 2, channel of 1, all faults but `spawn` and `listener` | `ImplementsPolicy`, the refinement of `SpawnPolicy`; `CondemnedNeverRun`: a version whose failed install is recorded runs again only in a spawn for which the blacklist could not be read; `MarkedIsWatched`: a version with its marker on disk runs unwatched only after an operation on the marker failed; `FatalOnlyAfterTear`: no worker to resolve only inside a torn link update, and after a torn swap both targets are still on disk; `GateTracksReady` |
| `supervisor_live` | 2 versions, `spawn` and `listener`, fairness | `StopHonoured`, `HungIsReplaced`, `GateDecides`, `MarkedBadStops`; `LoopMakesProgress`: the loop comes to a worker, a spawn or its return again and again, unless all it can reach is blacklisted |
| `health_gate` | window 7, stability 4, floor 1, lateness 2, clock to 20 | `NoUnfairTimeout`, `PassIsTimely`, `JudgedOnTime`, `WakeDecides` |
| `crash_tracker` | window 8, cap 5, steady 4, base 2, max 3, 4-bit durations, clock to 18 | `CountsTheBurst`: the trimmed window equals the burst by its definition over the whole log; `RollbackIsEarned`: a crash rolls back exactly when it completes a burst of the cap's length; `DelayInRange`; and that `Trim` is the code's filter |
| `blacklist_file` | 3 writers, 2 versions, failures and kills | `NoPartialDocument`: only overlapping calls publish a partial document, and only until the next call alone; `AckedIsListed` |
| `self_update` | 2 requests at once, 3 versions, 4 requests in all, failures and kills | `PublishedIsWhole`: only a race for one version publishes a damaged binary; `RunningKept`: the directory of the running worker is never touched; `WayBack`: with one install at a time one of the links names a whole directory at every instant; `AckedIsInstalled` |
| `update_channel` | 2 channels, 2 releases, 2 picks, one death, fairness | `NoFalseAlarm`: a failed signature is reported only by a check that a publication overlapped, never by one during which the site is at rest, the network dead or a file missing; `PickTakesEffect`; `HintConverges`: the cached hint ends up right |
| `state_files` | 4 ledger entries, 2 tokens, 2 channel requests at once | `TearCostsOne` and `EarlierEntriesKept`: a torn entry costs at most one later one and never an earlier one; `TokenStable`; `PickKept` |
| `openclaw_safety` | poller and two goroutines, each for a start, a stop or an autoheal cascade; threshold 2, cooldown of any length | `IntentKept`; `HealNeedsOutage`: each cascade answers an outage of its own, nobody having asked for a stop; and until two operations overlap `LogSettled` and `NoErrorFlap` |
| `openclaw_live` | poller, one goroutine for doctor requests, one for cascades, no OS restart, threshold 2, fairness | `OutageIsHealed`; `ActionClears` |
| `gateway_probe` | poller and one action, 2 ports, one fall, any number of CLI changes and of useless answers, one probe of the action, fairness | `TypeOK`: a useless answer is never cached; `CrashCountHonest`: every crash counted is a fall, an overtaken verdict or a late address, each counted once; `VerdictConverges`: the verdict follows a gateway that stays down, stays up at the cached address, or stays up beside a CLI that keeps answering; `CliNoticed` |

The type invariants of all other modules, and `CrashBudget`,
`SilentExitOnlyOnRequest` and `OfferIsOurs`, are proved for every instance
(section 5) and not repeated here.

**Bounds.** Two versions are enough for every link configuration of the swap
and the rotation (distinct, equal, one missing); that a condemned version, the
rollback target and a fresh install can all differ is left to the proofs. A channel of one already is full, drops READY and keeps
a stale message; a crash cap of two has a crash below and one at the cap. The
clocks run past two windows with every order of deadline, stability and READY.
The delays let five crashes fall into one window, so that the budget is spent;
in 4-bit durations the shift overflows to zero and to negative values within
the cap. In `OpenClawManager` the streak stops at the threshold, beyond which
nothing distinguishes it. Two goroutines that each run any operation have every
pair of them overlap, two cascades among them, beside the poller; a start and a
stop differ in the Intent and in the attempt they stamp, the cascade is the third
kind, and restart, doctor, a fix click and a missing CLI are left to the theorems,
which have them all. For liveness a doctor is the request that neither asks for a
stop nor brings the gateway up, and so can only be in autoheal's way.
In `SelfUpdate` two requests are enough for every overlap, three versions for a
request each and the running one, and four requests in all for an install after
a torn one after a race. In `BlacklistFile` a third writer can come upon what a
race of two has left. In `UpdateChannel` two releases can be half published in
either order under one check, and a worker can die before and after the restart
it was asked for. In `GatewayProbe` one fall already moves the port, is seen by
two probes out of order and by the resolver late; the CLI may be installed and
removed without bound.
`CHECK_DEADLOCK FALSE` is set for `Supervisor`, `CrashTracker` and `SelfUpdate`,
which may end: after `stop64`, or a nil return, nothing restarts the supervisor,
the tracker's clock is bounded, and so are the install requests of a tree that a
race has left without a runnable version.

**Fairness.** In `Supervisor`: the goroutine of `loop` always takes its next
step; a select case that stays ready is eventually picked (Go picks at random
among the ready ones); start deadline and gate deadline are fixed instants; the
watchdog is certain to fire only while nothing feeds it, that is for a worker
that hangs or has not begun its heartbeat; a worker that has a reason to leave
its select leaves and exits; systemd restarts a dead supervisor.
Nothing is assumed of operators, faults, or a healthy worker's heartbeat. In
`OpenClawManager`: goroutines are scheduled, commands and probes have timeouts
in the code, the cooldown ends. It is strong fairness, one condition for each
goroutine, because a goroutine may have to wait for the store's lock, and a
`sync.RWMutex` starves neither readers nor writers. Nothing is assumed of
operators or the gateway.
In `UpdateChannel`: the background timer is reset after every check and fires,
fetches have timeouts, a scheduled restart happens and the supervisor boots the
next worker; nothing is assumed of publisher, network or operator. In
`GatewayProbe`: the poller's timer fires, HTTP requests and
commands end at their timeouts, the enrichment interval passes; nothing is
assumed of the gateway, the host or the actions, and nothing of the answers of
`gateway status`: there is no fairness on `ResolverAsks`, and that the CLI answers
again and again is a premise of the one conjunct of `VerdictConverges` that needs
it.

## 4. Disagreements met while modelling

The run `claim_rollback` states what `doc.go` says of the rollback and finds a
behaviour of the code that contradicts it: a worker that crashes after its
install rotated the links is selected again. The quotation is under "findings"
in `PROJECT.json`.

Further differences between text and code are part of the models, and the
properties are stated so as to say exactly what does hold:

* With both links blacklisted the loop swaps them without spawning, pausing or
  returning (`loop.go:41`), where `loop.go:29` says that it spawns and "either
  respawns after backoff or returns". `LoopMakesProgress` names the exception.
* Two concurrent `Add` calls share the staging file, because it is removed before
  the O_EXCL open, and one may publish the file the other has just created
  (`blacklist.go:98`), where line 62 says that "a reader never observes a partial
  document". `NoPartialDocument` limits it to overlapping calls.
* A blacklist that cannot be decoded is ignored for that spawn, and a banned
  version comes up (`supervisor.go:172`). The comment calls it "a near-impossible
  case outside of operator hand-edits"; `BlacklistFile` has two overlapping `Add`
  calls of the worker do it. `CondemnedNeverRun` and `ImplementsPolicy` name the
  exception.
* launchd restarts `clawmastd` after any non-zero exit, 64 and 65 included, where
  the plist's comment says that it respects 64 "via SuccessfulExit"
  (`com.clawmast.clawmastd.plist.tmpl:41`).
* While neither version can be spawned the loop swaps the links and tries the
  other one without any pause (`loop.go:86`).
* The badge is to stay blue "from click to warmup-complete" (`phase.go:80`). The
  handler sets the Intent (`handlers_openclaw.go:232`) before the goroutine names
  the action (`action.go:91`), and a probe stored in between shows a gateway that
  was stopped as `error`. `NoErrorFlap` holds from the naming on.
* The cooldown may be shorter than a cascade (`run.go:267`). A request that ends
  clears the action slot of a running cascade, and a second cascade may then fire
  beside the first; `HealNeedsOutage` says that it needs an outage of its own, not
  that it is alone.
* A release published between the two fetches of an update check makes it say
  "signature failed - do not install this binary", also when both files are in
  place by the time it says so (`updater/client.go:106`). `NoFalseAlarm` limits it
  to such checks.
* A CLI that is there but never answers leaves the address as it is
  (`gateway_addr.go:121`): a gateway on another port is shown down for as long.
* A stop clicked during an autoheal cascade is undone by its next tier
  (`cascade.go:92`): Intent is read when autoheal fires and not again, where
  `autoheal.go:19` says "A deliberate operator stop is honoured above
  crash-resilience".
* `Apply` "only renames into place after the SHA-256 check passes": two requests
  for one version share `.<version>.partial` (`install_unix.go:67`), and one may
  publish the binary the other has just truncated. `PublishedIsWhole` limits it
  to such a race.
* Two requests for different versions rotate the links in between each other and
  may leave links and marker of different versions (`handlers.go:271`).
* A kill between the rewriting of `previous` and that of `current`
  (`rotate_unix.go:58`) leaves both links on the old version; the next install
  then has no way back while it rotates. `WayBack` names the exception.
* `RunBackgroundChecks` prefers "a stale cache entry ... over clearing the cache
  on transient failures" (`server.go:296`), but `recordBackgroundCheck` stores
  every failure over the last good outcome (`server.go:334`).
* An update is offered whenever the version differs from the running one
  (`handlers.go:161`), also when it is older.
* A torn history entry "never corrupts earlier entries", but the next one is
  glued to it, acknowledged and unreadable (`supervisor/history.go:72`).
* Two channel requests at once share the staging file (`channel.go:89`) and may
  leave an empty preference, where line 73 says that an interrupted write cannot
  leave a truncated file behind.
* A late answer of the resolver, or a gateway that moves to another port, counts
  as a crash of the gateway (`poller.go:257`, `gateway_addr.go:158`).
* CLIMissing is not looked at again while the gateway is steadily down
  (`status.go:149`): a CLI that is installed then is noticed only after the
  gateway comes up. `CliNoticed` is therefore about a gateway that is up.
* The notify channel outlives the session (`loop.go:315`): a READY left by the
  last worker makes the next one Running, where `sdnotify_unix.go:69` speaks of
  the receipt of its own READY.
* A gate that passes after the watched worker installed another version deletes
  that version's marker (`loop.go:293`).
* A channel switch or a second install inside the observation window ends in a
  clean exit that counts as a failed install (`loop.go:96`): the healthy version
  is blacklisted.
* A kill between the renames of the swap (`symlinks.go:70`) leaves no `current`
  and nothing restores it from `.swap.tmp`; the comment at line 26 calls the
  swap atomic. `FatalOnlyAfterTear` is what does hold.
* `rotateSymlinks` writes `previous` first (`rotate_unix.go:72`), the reverse of
  the comment at line 38.
* The supervisor writes the blacklist (`supervisor.go:244`), which
  `blacklist.go:15` says only the worker does.
* The first retry waits `base` (`backoff.go:60`) where the comment at line 50
  gives `base * 2^1`.
* Of two requests in flight the first to finish clears the one action slot
  (`openclaw/poller.go:395`), and autoheal may fire beside the other; both write
  into one action log.
* After a stop click the stored phase waits for the next probe
  (`openclaw/poller.go:370`), where `phase.go:72` says "immediately".

## 5. Proofs

Every theorem holds for all values of the constants that satisfy the named
assumptions.

| Module | Theorems | Assumptions |
|---|---|---|
| `SupervisorProofs` | `TypeCorrect`, `Refinement`, `CondemnedStaysDown`, `MarkedStaysWatched`, `TornLinks`, `NoSilentExit`, `BudgetRespected`, `GateFollowsReady` | `NoVersion` is no version, positive cap and channel, `Faults` and `DeathCodes` are subsets of the known kinds |
| `ClockProofs` | `GateTypes`, `Fair`, `Timely`, `OnTime`, `NoIdleWake` | `MinWake + Late < StableFor` (10 ms floor, 15 s stability) |
| | `TrackerTypes`, `TrackerCountsTheBurst`, `RollbacksAreEarned`, `DelaysInRange` | positive delays, cap and steady time; `ShiftAssumption` (below) |
| `BlacklistFileProofs` | `BlacklistTypes`, `WholeDocuments`, `EntriesKept` | any number of writers; the markers for "no file" and "partial" are no lists |
| `SelfUpdateProofs` | `SelfUpdateTypes`, `PublishedWhole`, `RunningUntouched`, `AlwaysAWayBack`, `AcknowledgedInstall` | any number of requests and versions |
| `UpdateChannelProofs` | `ChannelTypes`, `ForgeryIsNoAccident`, `OffersAreOurs` | any number of channels, checks and releases |
| `StateFilesProofs` | `FileTypes`, `OneEntryPerTear`, `LedgerAppendOnly`, `TokenForLife`, `PicksAreKept` | any number of entries, tokens and requests |
| `OpenClawProofs` | `ManagerTypes`, `ClicksAreKept`, `HealsOnlyOutages`, `SerialLogSettled`, `SerialNoErrorFlap` | `ManagerAssumption`; any number of goroutines, with autoheal or without |
| `GatewayProbeProofs` | `ProbeTypes`, `CrashesAreExplained` | any number of probers, ports and falls; "no port" is no port |

**Supervisor.** `Inv` is inductive and has one named part per idea. `TypeOK`
alone does not survive a step: that a spawned version exists needs `VersionInv`
(past the resolve step a version is chosen, and until the spawn it is the one
`current` names and not blacklisted), that the crash window stays within the
cap needs `BudgetInv` (a spent budget is seen only on the way through rollback),
and `FatalOnlyAfterTear` needs `LinksInv`, which says at every position which
links may be missing. `SessionInv` ties the position to the existence of the
worker and is what makes the mapping to `SpawnPolicy` work: a blacklist entry
can only be written by the worker while one runs, so the blacklist read before
a spawn is not stale at the spawn, and a failed read is still noted there. `GateInv` links the gate's state to READY.
`StepInv` shows that each action preserves `Inv`. `StepPolicy` maps each step to
a step of `SpawnPolicy` or a stutter, with `Inv` before and after it.
`CondemnInv` and `MarkerInv` are proved relative to `Inv`: every condemned version
is listed, and one that is about to run or runs was spawned on an unread list; a
marked spawn has its gate armed or has met a failing operation on the marker.

**HealthGate.** `TimerInv` says where the timer stands in each state: due at the
deadline while armed, and while stabilizing at the earlier of deadline and
stability, or at most the floor later. From this the clock cannot pass a
verdict that is due, and a timer that fires finds one.

**CrashTracker.** `BurstInv` says that the log is in order and the slice is the end
of it, with neither a steady run nor more than a window inside, and one of the two
right before it; `BurstLength` turns this into the definition of a burst.
`CrashEndsBurst` is about the crash being recorded, before anything is decided: it
gives `BurstInv` after a step that waits and `RollbackIsEarned` for one that rolls
back, which no state invariant could say because the rollback clears the log.
That `Trim` finds a first timestamp in the window is an induction over the slice.
The library's induction theorems cannot be used (see below), so `SetInduction`
proves the principle for a set in place of a predicate, from cardinalities: a
set that holds 0 and the successors of its members but not n could be mapped
one-to-one into a proper subset of its part below n. `DelayInRange` rests on
`ShiftAssumption`: no shift wraps around to a delay that is positive and yet
shorter than both `Base` and `Max`. For the defaults this is arithmetic: 1 s is
10^9 ns and has nine factors 2, the first shift to overflow 63 bits is 34, and
what is left is then a multiple of 2^43 ns, more than `Max`. TLC evaluates the
assumption for the instance it runs. Its first conjunct, that a power of two is
a positive natural, is only there because the provers know nothing of
exponentiation.

**BlacklistFile.** `LoneInv` follows a call that has had no other beside it: the
staged file is its own, and what it renames is its own list. `StagingInv` says
that whatever is loaded or staged, by whichever call, holds every acknowledged
version; this is why overlapping calls can lose each other's entry and never an
older one.

**SelfUpdate.** `RequestInv`: a request installs a version that is not the running
one. `RaceInv` ties the observers to what overlaps. `StageInv` is the heart of
`PublishedIsWhole`: a staged binary that is not whole while a request relies on
it is still going to be rewritten or discarded by somebody, and if that is
somebody else the version is in `raced`. `AckInv` says what a request alone has
achieved at each step, `LinkInv` which link is good at each step, with `Rest` for
the moments between installs.

**UpdateChannel.** `FetchInv`: for a check between its two fetches the site still
serves, as both files, the release whose manifest it has, or the check is noted in
`unsettled`; a worker that is down holds no outcome.

**StateFiles.** One invariant per file. `LinesInv`: only the last line can be open
and nothing in it has been acknowledged. `LossInv` charges each tear with one
spoilt entry or with the torn tail that waits to spoil one, which is the
strengthening `TearCostsOne` needs. `TokenInv`: once a worker has come up the
file holds its token and nobody writes. `SettingInv`: a request that has been
alone finds its own staging file, and only a crossed one can have its open file
published under it.

**OpenClawManager.** `HealInv`: the streak never runs ahead of the observed
outage, which a trigger resets with it; `StoreDecides` collects what a store does,
whether it fires or not. `SerialInv`: until two operations have overlapped the one
at work owns slot and log, from `setCurrentAction` and from the reset of the log
on. `LockInv`: the store's lock has one holder, so that a probe that writes is the
one that has read. `BadgeInv`: a probe that met an operation in flight holds its
name, even if the operation has cleared the slot since, and every recent attempt
has been stamped; the phase is computed from these two. The action property
`NoErrorFlap` follows from the four.

**GatewayProbe.** `CrashCountHonest` compares counters that no single state
explains: a verdict that waits to be stored was reached at some point of the past.
`CountInv` therefore says that numbers exist which explain them: for every
pending verdict, and for the newest one stored, how many times the gateway had
become unreachable when it was reached. Two verdicts in the order of their age
are at least as far apart as they show drops; so the crashes counted up to the
newest verdict are at most its drops and the overtakes, with one in reserve when
an overtaken verdict has left the Snapshot alive. `DropsAreCounted` is about the
steps of the environment and the resolver, `VerdictReached` gives the new verdict
the present number, `VerdictStored` makes it the newest or charges an overtake.
The order of pending verdicts (`OlderInv`) is total: this is what tells a verdict
that is not overtaken that the one being stored is older.
TLC checked `CountInv` with the numbers bounded by two before it was proved.

**Left to TLC.** Liveness under fairness and `ENABLED` are outside the prover.
Induction over data is too: its library theorems take an operator as parameter,
which the installed provers cannot instantiate, so what a recursive definition
computes for every input is not proved. Modules with RECURSIVE operators lose
the SMT backend; no module here has one. Only model-checked are therefore
the five liveness properties of the supervisor and two each of the manager, the
update channel and the probing; that `Trim` is the code's filter; and
`ShiftAssumption` for the instance of `crash_tracker`. Every invariant, action
property and refinement of a passing run is stated by a theorem.

## 6. Plan

Done, in this order: supervisor with worker and files, its abstract policy and
refinement; gate and tracker on a clock; blacklist file; OpenClaw manager; self
update; probing; update channel; state files; their theorems.

Next: refinements of `Supervisor`'s abstractions of the gate and the crash window
by `HealthGate` and `CrashTracker`, and of its install by `SelfUpdate`.

## 7. Abstractions to keep in mind

* The init system is systemd. Under launchd a kill of `clawmastd` leaves the worker
  alive, in a process group of its own (`session.go:49`), beside the one the next
  `clawmastd` spawns, and the exit codes 64 and 65 do not keep launchd from
  restarting it: the one-worker promise, and the end of the loop on these codes,
  are not claimed for it.
* In `SelfUpdate` the removal of a directory (`install_unix.go:88`) is one step
  that succeeds or leaves it alone; a removal cut off half-way is not there. It
  never is the running version's (`RunningKept`), and a `previous` that still names
  the directory is as useless with half of it as with none, which is modelled.
* A datagram is its kind; parsing and the socket are not modelled.
* In `Supervisor` an install begins when the new version directory is in place,
  and one runs at a time; `SelfUpdate` has the rest.
* The write of a small file (marker, token, preference) is one step after the
  truncation: a reader finds it empty or complete. The blacklist and the binary
  may also be found cut off.
* Power loss is a kill: the order in which unsynced data reach the disk is not
  modelled.
* A signature matches exactly the manifest it was made for; a signed manifest is
  valid.
* Backoff delays are not in `Supervisor`: the wait may end at any moment.
* PID, uptime, probe history and the counters of the health payload feed only
  the display and are left out; Discover is whether it finds a binary.
* `OpenClawManager` lets a probe return any verdict; `GatewayProbe` has how it
  comes about.

## 8. Not modelled

HTTP routing and the comparison of bearer tokens (stateless filtering), the
command line tools (read-only reports), `clawmast-release build` (a sequential
build of which no state survives), the web UI and `install.sh` (static assets,
and a script that lays down the state the models start from), the cloud package
(no code). The Windows build has no supervisor and no self update.
