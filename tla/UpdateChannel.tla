---------------------------- MODULE UpdateChannel ----------------------------
(***************************************************************************)
(* The update channel from the release tool to the worker's hint: releases *)
(* are signed and mirrored as two files, updater.Client.Check fetches them *)
(* in two requests, the worker resolves its channel at boot and checks it  *)
(* in the background and on request, and POST /api/settings/channel        *)
(* rewrites the preference under the running worker. Writing that file is  *)
(* one step here; StateFiles.tla has its system calls.                     *)
(***************************************************************************)
EXTENDS Naturals

CONSTANTS
    Channels,      \* stable and beta
    Default,       \* the channel without a preference
    Checkers,      \* users of Check: the background loop and requests
    Background,    \* the background loop
    None,          \* no preference, or one that is not a channel
    MaxReleases,   \* bound on releases
    MaxPicks,      \* bound on channel requests
    MaxBoots       \* bound on worker starts

ASSUME ChannelsAssumption ==
    Default \in Channels /\ None \notin Channels
ASSUME CheckersAssumption == Background \in Checkers
ASSUME UpdateBoundsAssumption ==
    MaxReleases \in Nat /\ MaxPicks \in Nat /\ MaxBoots \in Nat

Releases == 1..MaxReleases
Codes    == {"none", "missing", "unreachable", "badSignature", "mismatch"}

VARIABLES
    \* ---- the site; 0 where nothing is published ----
    released,    \* releases so far
    train,       \* the channel named in each release's manifest
    pub,         \* the release last mirrored to each channel's directory
    manifest,    \* what <channel>/manifest.json serves
    sig,         \* what <channel>/manifest.json.minisig serves
    online,      \* the site can be reached
    \* ---- the worker ----
    pref,        \* state/channel
    up, active,  \* it lives, and the channel it resolved at boot
    restart,     \* a restart is scheduled
    picks, boots,
    pc, got,     \* each check: its next fetch, the manifest it has
    offer, code, \* the outcome of its last check: a release, or an error
    \* ---- observation only ----
    unsettled    \* checks during which, at some moment from the first fetch
                 \* of the pair to the second, the two files disagreed

site    == <<released, train, pub, manifest, sig, online>>
setting == <<pref, restart, picks>>
checks  == <<pc, got, offer, code, unsettled>>
vars    == <<site, up, active, boots, setting, checks>>

(* Every variable keeps its type. *)
TypeOK ==
    /\ released \in 0..MaxReleases /\ train \in [Releases -> Channels]
    /\ pub \in [Channels -> 0..MaxReleases]
    /\ manifest \in [Channels -> 0..MaxReleases]
    /\ sig \in [Channels -> 0..MaxReleases]
    /\ online \in BOOLEAN /\ up \in BOOLEAN /\ restart \in BOOLEAN
    /\ pref \in Channels \cup {None}
    /\ active \in Channels /\ boots \in 1..(MaxBoots + 1)
    /\ picks \in 0..MaxPicks
    /\ pc \in [Checkers -> {"idle", "manifest", "sig"}]
    /\ got \in [Checkers -> 0..MaxReleases]
    /\ offer \in [Checkers -> 0..MaxReleases]
    /\ code \in [Checkers -> Codes]
    /\ unsettled \subseteq Checkers

Init ==
    /\ released = 0 /\ train \in [Releases -> Channels]
    /\ pub = [c \in Channels |-> 0] /\ manifest = pub /\ sig = pub
    /\ online = TRUE
    /\ pref = None /\ active = Default
    /\ up = TRUE /\ boots = 1 /\ restart = FALSE /\ picks = 0
    /\ pc = [k \in Checkers |-> "idle"] /\ got = [k \in Checkers |-> 0]
    /\ offer = got /\ code = [k \in Checkers |-> "none"]
    /\ unsettled = {}

(***************************************************************************)
(* Releases.                                                               *)
(***************************************************************************)
Settled(c) == manifest[c] = pub[c] /\ sig[c] = pub[c]

(* Whoever is between its two fetches from c is overlapped by a publication *)
(* that is half done, and stays noted when it is complete.                  *)
Unsettle(c) ==
    unsettled' = IF manifest'[c] # sig'[c] /\ c = active
                 THEN unsettled \cup {k \in Checkers : pc[k] = "sig"}
                 ELSE unsettled

(* clawmast-release manifest and sign: the next release, made for some      *)
(* channel, is mirrored to a directory, which need not be that channel's.   *)
Release(c) ==
    /\ released < MaxReleases /\ Settled(c)
    /\ released' = released + 1
    /\ pub' = [pub EXCEPT ![c] = released + 1]
    /\ UNCHANGED <<train, manifest, sig, online, up, active, boots, setting,
                   checks>>

(* The site begins to serve one of the two files. *)
ServeManifest(c) ==
    /\ manifest[c] # pub[c]
    /\ manifest' = [manifest EXCEPT ![c] = pub[c]] /\ UNCHANGED sig
    /\ Unsettle(c)
    /\ UNCHANGED <<released, train, pub, online, up, active, boots, setting,
                   pc, got, offer, code>>

ServeSignature(c) ==
    /\ sig[c] # pub[c]
    /\ sig' = [sig EXCEPT ![c] = pub[c]] /\ UNCHANGED manifest
    /\ Unsettle(c)
    /\ UNCHANGED <<released, train, pub, online, up, active, boots, setting,
                   pc, got, offer, code>>

NetworkChanges ==
    /\ online' = ~online
    /\ UNCHANGED <<released, train, pub, manifest, sig, up, active, boots,
                   setting, checks>>

(***************************************************************************)
(* Check.                                                                  *)
(***************************************************************************)
(* Mutant: the timer is not reset after a check that failed. *)
StartCheckOnce(k) ==
    /\ up /\ pc[k] = "idle" /\ code[k] = "none"
    /\ pc' = [pc EXCEPT ![k] = "manifest"]
    /\ UNCHANGED <<site, up, active, boots, setting, got, offer, code, unsettled>>

(* The background timer fires, or a request comes in. *)
StartCheck(k) ==
    /\ up /\ pc[k] = "idle"
    /\ pc' = [pc EXCEPT ![k] = "manifest"]
    /\ UNCHANGED <<site, up, active, boots, setting, got, offer, code, unsettled>>

(* runUpdateCheck returns and the outcome replaces the last one:            *)
(* recordBackgroundCheck stores an error like any other.                    *)
Outcome(k, n, c) ==
    /\ pc' = [pc EXCEPT ![k] = "idle"]
    /\ offer' = [offer EXCEPT ![k] = n]
    /\ code' = [code EXCEPT ![k] = c]
    /\ got' = [got EXCEPT ![k] = 0]

(* fetch manifest.json *)
FetchManifest(k) ==
    /\ up /\ pc[k] = "manifest"
    /\ \/ ~online /\ Outcome(k, 0, "unreachable") /\ UNCHANGED unsettled
       \/ /\ online /\ manifest[active] = 0
          /\ Outcome(k, 0, "missing") /\ UNCHANGED unsettled
       \/ /\ online /\ manifest[active] # 0
          /\ pc' = [pc EXCEPT ![k] = "sig"]
          /\ got' = [got EXCEPT ![k] = manifest[active]]
          /\ unsettled' = IF manifest[active] # sig[active]
                          THEN unsettled \cup {k} ELSE unsettled \ {k}
          /\ UNCHANGED <<offer, code>>
    /\ UNCHANGED <<site, up, active, boots, setting>>

(* Mutant: a signature that is not there counts as one that does not match. *)
FetchSignatureMisread(k) ==
    /\ up /\ pc[k] = "sig"
    /\ IF online /\ sig[active] = got[k] /\ train[got[k]] = active
       THEN Outcome(k, got[k], "none")
       ELSE Outcome(k, 0, "badSignature")
    /\ UNCHANGED <<site, up, active, boots, setting, unsettled>>

(* fetch manifest.json.minisig, verify it over the manifest fetched before, *)
(* and compare the channel.                                                 *)
FetchSignature(k) ==
    /\ up /\ pc[k] = "sig"
    /\ \/ ~online /\ Outcome(k, 0, "unreachable")
       \/ online /\ sig[active] = 0 /\ Outcome(k, 0, "unreachable")
       \/ online /\ sig[active] \notin {0, got[k]} /\ Outcome(k, 0, "badSignature")
       \/ /\ online /\ sig[active] = got[k]
          /\ IF train[got[k]] = active THEN Outcome(k, got[k], "none")
             ELSE Outcome(k, 0, "mismatch")
    /\ UNCHANGED <<site, up, active, boots, setting, unsettled>>

(***************************************************************************)
(* The channel preference and the worker's life.                           *)
(***************************************************************************)
(* handleChannelSet has a known channel and writes it. The restart, if the  *)
(* caller wants one, is scheduled only when that is not the active channel. *)
SetChannel(c) ==
    /\ up /\ picks < MaxPicks /\ picks' = picks + 1
    /\ pref' = c
    /\ restart' \in {restart, restart \/ c # active}
    /\ UNCHANGED <<site, up, active, boots, checks>>

(* The worker leaves, on the restart it was asked for or because it dies;   *)
(* requests, checks and the cached outcome go with it.                      *)
Leave ==
    /\ up' = FALSE /\ restart' = FALSE
    /\ pc' = [k \in Checkers |-> "idle"] /\ got' = [k \in Checkers |-> 0]
    /\ offer' = [k \in Checkers |-> 0] /\ code' = [k \in Checkers |-> "none"]
    /\ unsettled' = {}
    /\ UNCHANGED <<site, active, boots, pref, picks>>

WorkerRestarts == up /\ restart /\ Leave
WorkerDies     == up /\ boots < MaxBoots /\ Leave

(* ResolveChannel, with the environment's channel as Default. *)
ResolveChannel == IF pref # None THEN pref ELSE Default

(* Mutant: the environment comes first. *)
BootFromEnvironment ==
    /\ ~up
    /\ up' = TRUE /\ active' = Default
    /\ boots' = IF boots > MaxBoots THEN boots ELSE boots + 1
    /\ UNCHANGED <<site, setting, checks>>

(* runWorker resolves the channel and starts the server. *)
Boot ==
    /\ ~up
    /\ up' = TRUE /\ active' = ResolveChannel
    /\ boots' = IF boots > MaxBoots THEN boots ELSE boots + 1
    /\ UNCHANGED <<site, setting, checks>>

Check(k) == StartCheck(k) \/ FetchManifest(k) \/ FetchSignature(k)

Next ==
    \/ \E c \in Channels : Release(c) \/ ServeManifest(c) \/ ServeSignature(c)
    \/ NetworkChanges
    \/ \E k \in Checkers : Check(k)
    \/ \E c \in Channels : SetChannel(c)
    \/ WorkerRestarts \/ WorkerDies \/ Boot

Spec == Init /\ [][Next]_vars

(***************************************************************************)
(* Fairness. The background timer is reset after every check and fires;    *)
(* fetches have timeouts; a scheduled restart happens and the supervisor   *)
(* boots the next worker. Nothing is assumed of the publisher, the network *)
(* or the operator.                                                        *)
(***************************************************************************)
Fairness ==
    /\ WF_vars(Check(Background))
    /\ WF_vars(WorkerRestarts)
    /\ WF_vars(Boot)

FairSpec == Spec /\ Fairness

(***************************************************************************)
(* Properties.                                                             *)
(***************************************************************************)
(* "signature failed - do not install this binary" (classifyUpdaterError)   *)
(* is only said by a check that a publication overlapped: at some moment    *)
(* from its first fetch to its second the two files disagreed. They may     *)
(* agree again by the time it is said, and nothing is forged then either: a *)
(* manifest fetched before the publication fails under the signature        *)
(* fetched after it. A check during which the site is at rest, a dead       *)
(* network and a missing file never raise this alarm.                       *)
NoFalseAlarm ==
    \A k \in Checkers :
        code[k] = "badSignature" /\ pc[k] # "sig" => k \in unsettled

(* What a check offers was made for the channel this worker is on, however  *)
(* releases, channel switches and restarts interleave with its two fetches. *)
OfferIsOurs ==
    \A k \in Checkers : offer[k] # 0 => train[offer[k]] = active

(* Why: a check between its two fetches has met agreeing files or is noted, *)
(* and a worker that is down holds no outcome.                              *)
FetchInv ==
    \A k \in Checkers :
      /\ pc[k] = "sig" =>
           \/ k \in unsettled
           \/ manifest[active] = got[k] /\ sig[active] = got[k]
      /\ ~up => pc[k] = "idle" /\ offer[k] = 0 /\ code[k] = "none"

Inv == TypeOK /\ FetchInv /\ NoFalseAlarm /\ OfferIsOurs

(* A pick that schedules a restart takes effect, also when the worker dies  *)
(* first, unless a later pick replaces it.                                  *)
PickTakesEffect ==
    \A c \in Channels : (restart /\ pref = c) ~> (active = c \/ pref # c)

(* The background hint ends up right: once the channel the worker is on     *)
(* holds one release of that channel and stays reachable, the cached        *)
(* outcome is that release for good, whatever errors and half publications  *)
(* it had met.                                                              *)
HintConverges ==
    <>[](online /\ Settled(active) /\ pub[active] # 0
           /\ train[pub[active]] = active)
      => <>[](offer[Background] = pub[active])
=============================================================================
