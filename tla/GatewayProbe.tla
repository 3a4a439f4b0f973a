---------------------------- MODULE GatewayProbe ----------------------------
(***************************************************************************)
(* How the worker learns about the OpenClaw gateway (internal/openclaw,    *)
(* status.go, gateway_addr.go and the probing half of poller.go). A probe  *)
(* reads the Snapshot, the address cache and the gateway without a lock,   *)
(* may run the CLI for seconds, and then overwrites the Snapshot. The      *)
(* poller probes on a timer, actions probe when they want to, and the      *)
(* resolver refreshes the address on a timer of its own; none waits for    *)
(* another.                                                                *)
(*                                                                         *)
(* What the actions do with the verdict is in OpenClawManager.tla. The     *)
(* gateway, its host and the CLI are the environment.                      *)
(***************************************************************************)
EXTENDS Naturals

CONSTANTS
    Poller,       \* the goroutine of Manager.Start
    Others,       \* goroutines of actions, which call ProbeNow as well
    Ports,        \* where the gateway may listen
    DefaultPort,  \* DefaultGatewayPort
    NoPort,       \* the CLI was asked and gave no usable port
    Unasked,      \* the resolver has no port in hand
    MaxFalls,     \* bound on how often the gateway goes down
    MaxProbes     \* bound on the probes of the actions

ASSUME ProbeAssumption ==
    /\ Poller \notin Others /\ DefaultPort \in Ports
    /\ NoPort \notin Ports /\ Unasked \notin Ports /\ NoPort # Unasked
    /\ MaxFalls \in Nat /\ MaxProbes \in Nat

Probers == {Poller} \cup Others

VARIABLES
    \* ---- the environment ----
    gwUp,         \* GET /health answers ok in time
    port,         \* where it does, and what "gateway status" reports
    cliHere,      \* the openclaw binary is installed
    \* ---- the address cache and its resolver ----
    addr,         \* addrCache: the port
    answer,       \* the port the CLI has told the resolver
    \* ---- Snapshot ----
    snap,         \* Alive, CLIMissing, LastEnrichedAt
    crashes,      \* CrashCount
    \* ---- ProbeNow, for each goroutine ----
    pc,
    next,         \* the Snapshot it is going to store
    found,        \* Discover found the CLI when it began; FALSE once used
    \* ---- observation only ----
    falls,        \* how often the gateway went down
    probes,       \* probes the actions made
    misled,       \* addresses cached after the gateway had moved
    older,        \* for each prober with a verdict to store, those whose
                  \* verdict is older
    overtaken,    \* those whose verdict is older than a stored one
    overtakes     \* verdicts stored after a newer one

env    == <<gwUp, port, cliHere>>
cache  == <<addr, answer>>
stored == <<snap, crashes>>
locals == <<pc, next, found>>
verdicts == <<older, overtaken, overtakes>>
ghosts == <<falls, probes, misled, verdicts>>
vars   == <<env, cache, stored, locals, ghosts>>

Ages == {"never", "fresh", "aged"}  \* of LastEnrichedAt

Snapshots == [alive : BOOLEAN, missing : BOOLEAN, enriched : Ages]

Unprobed == [alive |-> FALSE, missing |-> FALSE, enriched |-> "never"]

(* Fields hold what their types allow, and a cached address can be dialled. *)
TypeOK ==
    /\ gwUp \in BOOLEAN /\ port \in Ports /\ cliHere \in BOOLEAN
    /\ addr \in Ports /\ answer \in Ports \cup {Unasked}
    /\ snap \in Snapshots /\ crashes \in Nat
    /\ pc \in [Probers -> {"idle", "fast", "cli", "store"}]
    /\ next \in [Probers -> Snapshots]
    /\ found \in [Probers -> BOOLEAN]
    /\ falls \in 0..MaxFalls /\ probes \in 0..MaxProbes
    /\ misled \in Nat
    /\ older \in [Probers -> SUBSET Probers] /\ overtaken \subseteq Probers
    /\ overtakes \in Nat

(* The worker starts beside a gateway in any condition. *)
Init ==
    /\ gwUp \in BOOLEAN /\ port \in Ports /\ cliHere \in BOOLEAN
    /\ addr = DefaultPort /\ answer = Unasked
    /\ snap = Unprobed /\ crashes = 0
    /\ pc = [p \in Probers |-> "idle"]
    /\ next = [p \in Probers |-> Unprobed]
    /\ found = [p \in Probers |-> FALSE]
    /\ falls = 0 /\ probes = 0
    /\ misled = 0
    /\ older = [p \in Probers |-> {}] /\ overtaken = {} /\ overtakes = 0

(***************************************************************************)
(* The environment: the gateway goes down, comes back as another process,  *)
(* on another port if it was configured to, and the CLI comes and goes.    *)
(***************************************************************************)
GatewayFalls ==
    /\ gwUp /\ falls < MaxFalls
    /\ gwUp' = FALSE /\ falls' = falls + 1
    /\ UNCHANGED <<port, cliHere, cache, stored, locals, probes, misled,
                   verdicts>>

GatewayRises ==
    /\ ~gwUp
    /\ gwUp' = TRUE /\ port' \in Ports
    /\ UNCHANGED <<cliHere, cache, stored, locals, ghosts>>

CliChanges ==
    /\ cliHere' = ~cliHere
    /\ UNCHANGED <<gwUp, port, cache, stored, locals, ghosts>>

(***************************************************************************)
(* The CLI.                                                                *)
(***************************************************************************)
(* Discover: a usable binary in one of the places it looks at. *)
Discover == cliHere

(* runCmd reports ErrBinaryMissing only if Discover had found nothing and    *)
(* LookPath does not either ...                                              *)
BinaryMissing(discovered, onPath) == ~discovered /\ ~(cliHere /\ onPath)

(* ... and a good answer only from a binary that is there, beside a gateway  *)
(* that is up; any other outcome is possible too.                            *)
MayAnswer(discovered, onPath) == cliHere /\ gwUp /\ (discovered \/ onPath)

(***************************************************************************)
(* resolveOnce and ResolveGatewayAddress.                                  *)
(***************************************************************************)
(* Mutant: a port that is not positive passes. *)
UsableAny(got) == TRUE

(* The checks between the end of the command and the update of the cache. *)
Usable(got) == got # NoPort

(* Without a CLI nothing is asked. With one the command ends with the       *)
(* gateway's port or, as often as it likes, with an error, a non-zero exit, *)
(* JSON that does not parse or a port that is not positive; then resolveOnce*)
(* returns, and asks again a tick later.                                    *)
ResolverAsks ==
    /\ Discover /\ answer = Unasked
    /\ \E got \in {port, NoPort} : answer' = IF Usable(got) THEN got ELSE Unasked
    /\ UNCHANGED <<env, addr, stored, locals, ghosts>>

(* Mutant: only the default is replaced. *)
ResolverStoresOnce ==
    /\ answer # Unasked
    /\ addr' = (IF addr = DefaultPort THEN answer ELSE addr) /\ answer' = Unasked
    /\ misled' = IF answer # port THEN misled + 1 ELSE misled
    /\ UNCHANGED <<env, stored, locals, falls, probes, verdicts>>

(* What the CLI said is cached, wherever the gateway is by now. *)
ResolverStores ==
    /\ answer # Unasked
    /\ addr' = answer /\ answer' = Unasked
    /\ misled' = IF answer # port THEN misled + 1 ELSE misled
    /\ UNCHANGED <<env, stored, locals, falls, probes, verdicts>>

(***************************************************************************)
(* ProbeNow.                                                               *)
(***************************************************************************)
(* It copies the Snapshot, looks for the CLI and notes the address. *)
ProbeBegins(p) ==
    /\ pc[p] = "idle"
    /\ p # Poller => probes < MaxProbes
    /\ probes' = IF p = Poller THEN probes ELSE probes + 1
    /\ pc' = [pc EXCEPT ![p] = "fast"]
    /\ next' = [next EXCEPT ![p] = snap]
    /\ found' = [found EXCEPT ![p] = Discover]
    /\ UNCHANGED <<env, cache, stored, falls, misled, verdicts>>

(* Mutant: a steadily alive gateway is not enriched again. *)
NeedsEnrichmentOnce(prev, ok) ==
    prev.enriched = "never" \/ (ok /\ ~prev.alive)

(* needsEnrichment: never enriched, just recovered, or alive and aged. *)
NeedsEnrichment(prev, ok) ==
    \/ prev.enriched = "never"
    \/ ok /\ (~prev.alive \/ prev.enriched = "aged")

(* What dialling the address that is cached by now would find. *)
Reachable == gwUp /\ addr = port

HasVerdict(p) == pc[p] \in {"cli", "store"}

(* probeFast dials it. *)
ProbeFast(p) ==
    LET ok == Reachable IN
    /\ pc[p] = "fast"
    /\ next' = [next EXCEPT ![p].alive = ok]
    /\ pc' = [pc EXCEPT ![p] = IF NeedsEnrichment(next[p], ok) THEN "cli"
                               ELSE "store"]
    /\ found' = [found EXCEPT ![p] = @ /\ NeedsEnrichment(next[p], ok)]
    /\ older' = [older EXCEPT ![p] = {q \in Probers : HasVerdict(q)}]
    /\ UNCHANGED <<env, cache, stored, falls, probes, misled, overtaken,
                   overtakes>>

(* probeEnrichCLI, after the seconds it may take. The binary is missing if   *)
(* neither Discover nor LookPath found it; any other failure changes only    *)
(* that verdict.                                                             *)
ProbeCli(p) ==
    /\ pc[p] = "cli"
    /\ \E onPath, ok \in BOOLEAN :
         /\ ok => MayAnswer(found[p], onPath)
         /\ next' = [next EXCEPT
                       ![p].missing  = BinaryMissing(found[p], onPath),
                       ![p].enriched = IF ok THEN "fresh" ELSE @]
    /\ pc' = [pc EXCEPT ![p] = "store"]
    /\ found' = [found EXCEPT ![p] = FALSE]
    /\ UNCHANGED <<env, cache, stored, falls, probes, misled, verdicts>>

(* Mutant: every down verdict is a crash. *)
CrashesEach(ok) == IF ~ok THEN crashes + 1 ELSE crashes

(* CrashCount counts the stored alive to down edges; before the first probe *)
(* Alive is FALSE, which makes the test of Probed redundant.                *)
Crashes(ok) == IF snap.alive /\ ~ok THEN crashes + 1 ELSE crashes

(* store.set: all but the cumulative fields are overwritten with what the   *)
(* probe copied or found, however long ago that was.                        *)
ProbeStores(p) ==
    /\ pc[p] = "store"
    /\ snap' = next[p]
    /\ crashes' = Crashes(next[p].alive)
    /\ pc' = [pc EXCEPT ![p] = "idle"]
    /\ next' = [next EXCEPT ![p] = Unprobed]
    /\ overtaken' = (overtaken \cup older[p]) \ {p}
    /\ older' = [q \in Probers |-> IF q = p THEN {} ELSE older[q] \ {p}]
    /\ overtakes' = IF p \in overtaken THEN overtakes + 1 ELSE overtakes
    /\ UNCHANGED <<env, cache, found, falls, probes, misled>>

(* EnrichmentInterval passes for what was enriched until now, in the        *)
(* Snapshot and in the copies of it.                                        *)
EnrichmentAges ==
    LET Aged(s) == [s EXCEPT !.enriched = IF @ = "fresh" THEN "aged" ELSE @]
    IN
    /\ snap.enriched = "fresh"
    /\ snap' = Aged(snap)
    /\ next' = [p \in Probers |-> Aged(next[p])]
    /\ UNCHANGED <<env, cache, crashes, pc, found, ghosts>>

ProbeNow(p) ==
    ProbeBegins(p) \/ ProbeFast(p) \/ ProbeCli(p) \/ ProbeStores(p)

Next ==
    \/ GatewayFalls \/ GatewayRises \/ CliChanges
    \/ ResolverAsks \/ ResolverStores
    \/ \E p \in Probers : ProbeNow(p)
    \/ EnrichmentAges

Spec == Init /\ [][Next]_vars

(* Timers fire, requests and commands end at their timeouts, goroutines are *)
(* scheduled. Nothing is assumed of the gateway, the host or the actions,   *)
(* and nothing of the CLI: it may fail the resolver for ever, which is why  *)
(* there is no fairness on ResolverAsks.                                    *)
Fairness ==
    /\ WF_vars(ResolverStores)
    /\ WF_vars(ProbeBegins(Poller))
    /\ \A p \in Probers :
         /\ WF_vars(ProbeFast(p)) /\ WF_vars(ProbeCli(p))
         /\ WF_vars(ProbeStores(p))
    /\ WF_vars(EnrichmentAges)

FairSpec == Spec /\ Fairness

(***************************************************************************)
(* Properties.                                                             *)
(***************************************************************************)
(* "CrashCount increments on every observed alive=true->false edge": every  *)
(* crash counted is a fall of the gateway, a verdict that was stored after  *)
(* a newer one, or an address the resolver stored after the gateway had     *)
(* moved, and none of the three is counted twice.                           *)
CrashCountHonest == crashes <= falls + overtakes + misled

(* 1 if what was alive no longer is. *)
Drop(before, after) == IF before /\ ~after THEN 1 ELSE 0

Pending == {p \in Probers : HasVerdict(p)}

(* Why: let drops[p] be how many times the gateway had become unreachable   *)
(* when p reached its verdict, and newest the newest verdict stored, with   *)
(* that number. A gateway that was reachable at one verdict and is not at a *)
(* later one has dropped in between, so the verdicts that are stored in     *)
(* order count no more crashes than there were drops; and one stored out of *)
(* order brings at most one more, its own or that of the next store.        *)
Explained(drops, newest) ==
    /\ newest.drops + Drop(newest.alive, Reachable) <= falls + misled
    /\ \A p \in Pending :
         /\ drops[p] + Drop(next[p].alive, Reachable) <= falls + misled
         /\ p \notin overtaken
              => newest.drops + Drop(newest.alive, next[p].alive) <= drops[p]
         /\ \A q \in older[p] :
              drops[q] + Drop(next[q].alive, next[p].alive) <= drops[p]
    /\ crashes + Drop(snap.alive, newest.alive) <= newest.drops + overtakes

(* Verdicts that wait to be stored are ordered by their age. *)
OlderInv ==
    /\ \A p \in Probers : older[p] \subseteq Pending \ {p}
    /\ \A p, q \in Pending : p # q => p \in older[q] \/ q \in older[p]

(* The inductive invariant: such numbers exist. *)
CountInv(bound) ==
    /\ OlderInv
    /\ \E drops \in [Probers -> bound], newest \in [alive : BOOLEAN, drops : bound] :
          Explained(drops, newest)

(* The verdict follows a gateway that stays down, or that stays up where    *)
(* the cache says or where a CLI that is there keeps saying that it is,     *)
(* whatever port it moved to while the cache named another and whichever    *)
(* overtaken verdict was stored meanwhile. A CLI that fails for ever leaves *)
(* a gateway on another port down for ever.                                 *)
VerdictConverges ==
    /\ <>[](gwUp /\ cliHere) /\ []<>(answer \in Ports) => <>[](snap.alive)
    /\ <>[](gwUp /\ addr = port) => <>[](snap.alive)
    /\ <>[]~gwUp => <>[](~snap.alive)

(* A CLI that is installed, or removed, beside a gateway that is up at the  *)
(* cached address is noticed, though a steadily down gateway is never       *)
(* enriched and each probe carries over what an earlier one had found.      *)
CliNoticed ==
    /\ <>[](gwUp /\ cliHere /\ addr = port) => <>[](~snap.missing)
    /\ <>[](gwUp /\ ~cliHere /\ addr = port) => <>[](snap.missing)
=============================================================================
