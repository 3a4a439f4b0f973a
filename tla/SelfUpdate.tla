----------------------------- MODULE SelfUpdate -----------------------------
(***************************************************************************)
(* selfupdate.Apply (internal/selfupdate) as POST /api/updates/install     *)
(* runs it: nothing stops two requests from running it at once, in the     *)
(* same staging directory when they install the same version, and the      *)
(* worker may be killed at any system call. The supervisor is reduced to   *)
(* what it does to the install tree; Supervisor.tla has the rest of it.    *)
(***************************************************************************)
EXTENDS Naturals

CONSTANTS
    Handlers,    \* concurrent install requests
    Versions,    \* what the update channel may offer
    None,        \* an absent link, marker or worker
    Torn,        \* a marker file that has been truncated and not yet written
    MaxRequests  \* bound on the install requests of a behaviour

ASSUME ValuesAssumption == None \notin Versions /\ Torn \notin Versions \cup {None}
ASSUME MaxRequestsAssumption == MaxRequests \in Nat

VARIABLES
    \* ---- <root> on disk ----
    stage,       \* versions/.<v>.partial
    dir,         \* versions/<v>
    current,     \* the links
    previous,
    markerTmp,   \* state/install-gate.json.tmp
    marker,      \* state/install-gate.json
    \* ---- the worker ----
    running,     \* the version it was built as, or None
    pc,          \* how far each request got
    version,     \* the version in its manifest
    before,      \* the link it read
    file,        \* where the file it has open now is
    requests,    \* install requests so far
    \* ---- observation only ----
    raced,       \* versions two requests were installing at once
    together,    \* two requests have been in Apply at once
    hurt         \* Applys that began to publish after one was torn

disk   == <<stage, dir, current, previous, markerTmp, marker>>
ghosts == <<raced, together, hurt>>
quiet  == <<requests, ghosts>>
vars   == <<disk, running, pc, version, before, file, requests,
            ghosts>>

Links   == Versions \cup {None}
Content == {"absent", "bad", "whole"}   \* "whole": exactly the signed binary
Steps   == {"idle", "clear", "mkdir", "open", "copy", "manifest", "discard",
            "unpublish", "promote", "readCurrent", "clearPrevious",
            "writePrevious", "clearCurrent", "writeCurrent", "openMarker",
            "fillMarker", "renameMarker", "armed"}

(* Names, links and markers hold what the code puts there. *)
TypeOK ==
    /\ stage \in [Versions -> Content] /\ dir \in [Versions -> Content]
    /\ current \in Links /\ previous \in Links /\ running \in Links
    /\ markerTmp \in Links \cup {Torn} /\ marker \in Links \cup {Torn}
    /\ pc \in [Handlers -> Steps]
    /\ version \in [Handlers -> Links] /\ before \in [Handlers -> Links]
    /\ file \in [Handlers -> {"closed", "staged", "published", "unlinked"}]
    /\ requests \in 0..MaxRequests
    /\ raced \subseteq Versions /\ together \in BOOLEAN /\ hurt \in 0..2

(* install.sh has laid down one version and the worker runs it. *)
Init ==
    /\ \E v \in Versions :
         /\ dir = [w \in Versions |-> IF w = v THEN "whole" ELSE "absent"]
         /\ current = v /\ running = v
    /\ stage = [v \in Versions |-> "absent"]
    /\ previous = None /\ markerTmp = None /\ marker = None
    /\ pc = [h \in Handlers |-> "idle"]
    /\ version = [h \in Handlers |-> None]
    /\ before = [h \in Handlers |-> None]
    /\ file = [h \in Handlers |-> "closed"]
    /\ requests = 0 /\ raced = {} /\ together = FALSE /\ hurt = 0

Goto(h, step) == pc' = [pc EXCEPT ![h] = step]

(* Where the open files are once the names "from" have become "to", for the *)
(* requests in step "step" that install v.                                  *)
Moved(step, v, from, to) ==
    [h \in Handlers |->
        IF pc[h] = step /\ version[h] = v /\ file[h] = from THEN to
        ELSE file[h]]

(***************************************************************************)
(* Apply up to the verified staging directory.                             *)
(***************************************************************************)
(* Mutant: the running version may be installed again. *)
BeginUnchecked(h, v) ==
    /\ running # None /\ pc[h] = "idle"
    /\ requests < MaxRequests /\ requests' = requests + 1
    /\ Goto(h, "clear")
    /\ version' = [version EXCEPT ![h] = v]
    /\ LET others == {g \in Handlers \ {h} : pc[g] # "idle"}
       IN  /\ together' = (together \/ others # {})
           /\ raced' = IF \E g \in others : version[g] = v
                       THEN raced \cup {v} ELSE raced
    /\ UNCHANGED <<disk, running, before, file, hurt>>

(* handleUpdateInstall has a verified manifest for v; Apply refuses the      *)
(* running version.                                                          *)
Begin(h, v) ==
    /\ running # None /\ pc[h] = "idle" /\ v # running
    /\ requests < MaxRequests /\ requests' = requests + 1
    /\ Goto(h, "clear")
    /\ version' = [version EXCEPT ![h] = v]
    /\ LET others == {g \in Handlers \ {h} : pc[g] # "idle"}
       IN  /\ together' = (together \/ others # {})
           /\ raced' = IF \E g \in others : version[g] = v
                       THEN raced \cup {v} ELSE raced
    /\ UNCHANGED <<disk, running, before, file, hurt>>

(* RemoveAll(staging), at the start and after a failed download. *)
RemoveStaging(h) ==
    /\ stage' = [stage EXCEPT ![version[h]] = "absent"]
    /\ file' = [Moved("copy", version[h], "staged", "unlinked")
                  EXCEPT ![h] = "closed"]
    /\ UNCHANGED <<dir, current, previous, markerTmp, marker, running, before,
                   quiet>>

ClearStaging(h) ==
    /\ pc[h] = "clear" /\ Goto(h, "mkdir")
    /\ RemoveStaging(h) /\ UNCHANGED version

Discard(h) ==
    /\ pc[h] = "discard" /\ Goto(h, "idle")
    /\ RemoveStaging(h) /\ version' = [version EXCEPT ![h] = None]

(* MkdirAll keeps what is there. *)
MakeStaging(h) ==
    /\ pc[h] = "mkdir" /\ Goto(h, "open")
    /\ stage' = [stage EXCEPT ![version[h]] = IF @ = "absent" THEN "bad" ELSE @]
    /\ UNCHANGED <<dir, current, previous, markerTmp, marker, running, version,
                   before, file, quiet>>

(* extractTar creates or truncates the binary ... *)
OpenBinary(h) ==
    /\ pc[h] = "open" /\ stage[version[h]] # "absent"
    /\ Goto(h, "copy")
    /\ stage' = [stage EXCEPT ![version[h]] = "bad"]
    /\ file' = [file EXCEPT ![h] = "staged"]
    /\ UNCHANGED <<dir, current, previous, markerTmp, marker, running, version,
                   before, quiet>>

(* Mutant: neither size nor hash is compared. *)
CopyBinaryUnverified(h) ==
    /\ pc[h] = "copy"
    /\ \E bytes \in {"whole", "bad"} :
         /\ stage' = IF file[h] = "staged"
                     THEN [stage EXCEPT ![version[h]] = bytes] ELSE stage
         /\ dir' = IF file[h] = "published"
                   THEN [dir EXCEPT ![version[h]] = bytes] ELSE dir
    /\ Goto(h, "manifest")
    /\ file' = [file EXCEPT ![h] = "closed"]
    /\ UNCHANGED <<current, previous, markerTmp, marker, running, version,
                   before, quiet>>

(* ... and streams the body into it, wherever the open file has gone. Size  *)
(* and hash of the body are compared afterwards; any other body is refused. *)
CopyBinary(h) ==
    /\ pc[h] = "copy"
    /\ \E bytes \in {"whole", "bad"} :
         /\ stage' = IF file[h] = "staged"
                     THEN [stage EXCEPT ![version[h]] = bytes] ELSE stage
         /\ dir' = IF file[h] = "published"
                   THEN [dir EXCEPT ![version[h]] = bytes] ELSE dir
         /\ Goto(h, IF bytes = "whole" THEN "manifest" ELSE "discard")
    /\ file' = [file EXCEPT ![h] = "closed"]
    /\ UNCHANGED <<current, previous, markerTmp, marker, running, version,
                   before, quiet>>

(* writeVersionManifest needs the directory, and nothing reads what it      *)
(* writes.                                                                  *)
WriteManifest(h) ==
    /\ pc[h] = "manifest" /\ stage[version[h]] # "absent"
    /\ Goto(h, "unpublish")
    /\ UNCHANGED <<disk, running, version, before, file, quiet>>

(***************************************************************************)
(* Apply from there on: publish the directory, rotate the links, mark.     *)
(***************************************************************************)
(* Stat(target), RemoveAll(target) *)
Unpublish(h) ==
    /\ pc[h] = "unpublish" /\ Goto(h, "promote")
    /\ dir' = [dir EXCEPT ![version[h]] = "absent"]
    /\ file' = Moved("copy", version[h], "published", "unlinked")
    /\ hurt' = IF hurt = 1 THEN 2 ELSE hurt
    /\ UNCHANGED <<stage, current, previous, markerTmp, marker, running,
                   version, before, requests, raced, together>>

(* Rename(staging, target): fails if there is nothing to rename, or a       *)
(* directory in the way. An Apply that has v to itself by now makes up for  *)
(* an earlier race.                                                         *)
Promote(h) ==
    LET v == version[h] IN
    /\ pc[h] = "promote" /\ stage[v] # "absent" /\ dir[v] = "absent"
    /\ Goto(h, "readCurrent")
    /\ dir' = [dir EXCEPT ![v] = stage[v]]
    /\ stage' = [stage EXCEPT ![v] = "absent"]
    /\ file' = Moved("copy", v, "staged", "published")
    /\ raced' = IF \E g \in Handlers \ {h} : version[g] = v THEN raced
                ELSE raced \ {v}
    /\ UNCHANGED <<current, previous, markerTmp, marker, running, version,
                   before, requests, together, hurt>>

(* Mutant: previous is rewritten even if current names the version already. *)
ReadCurrentAlways(h) ==
    /\ pc[h] = "readCurrent"
    /\ before' = [before EXCEPT ![h] = current]
    /\ Goto(h, IF current = None THEN "clearCurrent" ELSE "clearPrevious")
    /\ UNCHANGED <<disk, running, version, file, quiet>>

(* rotateSymlinks: previous is rewritten unless current already names v ... *)
ReadCurrent(h) ==
    /\ pc[h] = "readCurrent"
    /\ before' = [before EXCEPT ![h] = current]
    /\ Goto(h, IF current \in {None, version[h]} THEN "clearCurrent"
               ELSE "clearPrevious")
    /\ UNCHANGED <<disk, running, version, file, quiet>>

links == <<stage, dir, markerTmp, marker, running, version, before, file, quiet>>

ClearPrevious(h) ==
    /\ pc[h] = "clearPrevious" /\ Goto(h, "writePrevious")
    /\ previous' = None
    /\ UNCHANGED <<current, links>>

WritePrevious(h) ==
    /\ pc[h] = "writePrevious" /\ previous = None /\ Goto(h, "clearCurrent")
    /\ previous' = before[h]
    /\ UNCHANGED <<current, links>>

ClearCurrent(h) ==
    /\ pc[h] = "clearCurrent" /\ Goto(h, "writeCurrent")
    /\ current' = None
    /\ UNCHANGED <<previous, links>>

WriteCurrent(h) ==
    /\ pc[h] = "writeCurrent" /\ current = None /\ Goto(h, "openMarker")
    /\ current' = version[h]
    /\ before' = [before EXCEPT ![h] = None]
    /\ UNCHANGED <<previous, stage, dir, markerTmp, marker, running, version,
                   file, quiet>>

(* WriteGateMarker: WriteFile truncates and fills the one staging file,     *)
(* which is then renamed over the marker.                                   *)
OpenMarker(h) ==
    /\ pc[h] = "openMarker" /\ Goto(h, "fillMarker")
    /\ markerTmp' = Torn
    /\ file' = [file EXCEPT ![h] = "staged"]
    /\ UNCHANGED <<stage, dir, current, previous, marker, running, version,
                   before, quiet>>

(* Mutant: the marker names the running version. *)
FillMarkerRunning(h) ==
    /\ pc[h] = "fillMarker" /\ Goto(h, "renameMarker")
    /\ markerTmp' = IF file[h] = "staged" THEN running ELSE markerTmp
    /\ marker' = IF file[h] = "published" THEN running ELSE marker
    /\ file' = [file EXCEPT ![h] = "closed"]
    /\ UNCHANGED <<stage, dir, current, previous, running, version, before,
                   quiet>>

FillMarker(h) ==
    /\ pc[h] = "fillMarker" /\ Goto(h, "renameMarker")
    /\ markerTmp' = IF file[h] = "staged" THEN version[h] ELSE markerTmp
    /\ marker' = IF file[h] = "published" THEN version[h] ELSE marker
    /\ file' = [file EXCEPT ![h] = "closed"]
    /\ UNCHANGED <<stage, dir, current, previous, running, version, before,
                   quiet>>

(* What becomes of the marker files others have open. *)
MarkerMoved(published) ==
    [h \in Handlers |->
        IF pc[h] # "fillMarker" THEN file[h]
        ELSE CASE file[h] = "published" -> "unlinked"
               [] file[h] = "staged" /\ published -> "published"
               [] OTHER -> file[h]]

RenameMarker(h) ==
    /\ pc[h] = "renameMarker" /\ markerTmp # None /\ Goto(h, "armed")
    /\ marker' = markerTmp /\ markerTmp' = None
    /\ file' = MarkerMoved(TRUE)
    /\ UNCHANGED <<stage, dir, current, previous, running, version, before,
                   quiet>>

(***************************************************************************)
(* Failures.                                                               *)
(***************************************************************************)
(* Steps at which a name is missing that the next system call puts back, or *)
(* at which both links name the version that is being replaced.             *)
TornSteps == {"promote", "writePrevious", "clearCurrent", "writeCurrent"}

(* A system call fails: the staging directory is removed if the download    *)
(* or the MANIFEST failed, the staged marker if its rename did, and nothing *)
(* else is undone.                                                          *)
Fail(h) ==
    /\ pc[h] \notin {"idle", "discard", "armed"}
    /\ Goto(h, IF pc[h] \in {"open", "copy", "manifest"} THEN "discard"
               ELSE "idle")
    /\ markerTmp' = IF pc[h] = "renameMarker" THEN None ELSE markerTmp
    /\ file' = [g \in Handlers |->
                  IF g = h THEN "closed"
                  ELSE IF pc[h] = "renameMarker" /\ pc[g] = "fillMarker"
                            /\ file[g] = "staged"
                  THEN "unlinked" ELSE file[g]]
    /\ hurt' = IF hurt = 0 /\ pc[h] \in TornSteps THEN 1 ELSE hurt
    /\ version' = IF pc'[h] = "idle" THEN [version EXCEPT ![h] = None]
                  ELSE version
    /\ before' = [before EXCEPT ![h] = None]
    /\ UNCHANGED <<stage, dir, current, previous, marker, running, requests,
                   raced, together>>

(* The worker is killed, or leaves 250 ms after a successful install; every *)
(* request ends with it.                                                    *)
WorkerGone ==
    /\ running # None
    /\ running' = None
    /\ pc' = [h \in Handlers |-> "idle"]
    /\ file' = [h \in Handlers |-> "closed"]
    /\ version' = [h \in Handlers |-> None]
    /\ before' = [h \in Handlers |-> None]
    /\ hurt' = IF hurt = 0 /\ \E h \in Handlers : pc[h] \in TornSteps
               THEN 1 ELSE hurt
    /\ UNCHANGED <<disk, requests, raced, together>>

(***************************************************************************)
(* The supervisor, as far as the tree goes.                                *)
(***************************************************************************)
(* It spawns current if there is a binary that starts ... *)
Spawn ==
    /\ running = None /\ current # None /\ dir[current] = "whole"
    /\ running' = current
    /\ UNCHANGED <<disk, pc, version, before, file, quiet>>

(* ... swaps the links when it gives that version up ... *)
Rollback ==
    /\ running = None
    /\ current # None /\ previous # None /\ current # previous
    /\ current' = previous /\ previous' = current
    /\ UNCHANGED <<stage, dir, markerTmp, marker, running, pc, version, before,
                   file, quiet>>

(* ... and deletes the marker on a verdict, or when it is not for the       *)
(* version it spawns.                                                       *)
DeleteMarker ==
    /\ marker # None
    /\ marker' = None
    /\ file' = MarkerMoved(FALSE)
    /\ UNCHANGED <<stage, dir, current, previous, markerTmp, running, pc,
                   version, before, quiet>>

Apply(h) ==
    \/ \E v \in Versions : Begin(h, v)
    \/ ClearStaging(h) \/ MakeStaging(h) \/ OpenBinary(h) \/ CopyBinary(h)
    \/ Discard(h) \/ WriteManifest(h) \/ Unpublish(h) \/ Promote(h)
    \/ ReadCurrent(h) \/ ClearPrevious(h) \/ WritePrevious(h)
    \/ ClearCurrent(h) \/ WriteCurrent(h)
    \/ OpenMarker(h) \/ FillMarker(h) \/ RenameMarker(h)
    \/ Fail(h)

Next ==
    \/ \E h \in Handlers : Apply(h)
    \/ WorkerGone \/ Spawn \/ Rollback \/ DeleteMarker

Spec == Init /\ [][Next]_vars

(***************************************************************************)
(* Properties.                                                             *)
(***************************************************************************)
(* Apply "only renames into place after the SHA-256 check passes and the    *)
(* tarball is fully extracted": whatever fails or is killed, a published    *)
(* version directory holds exactly the signed binary, unless two requests   *)
(* were installing that very version at once, and only until it is next     *)
(* published by one alone. They share its staging directory, and one may    *)
(* publish what the other has just truncated.                               *)
PublishedIsWhole == \A v \in Versions \ raced : dir[v] # "bad"

(* No install, alone or beside others, touches the directory the worker     *)
(* runs from, whatever the links name by then.                              *)
RunningKept == running # None => dir[running] = "whole"

Runnable(link) == link # None /\ dir[link] = "whole"

(* There is a way back at every instant of an Apply that runs alone, in the *)
(* moments without current, without previous or without the directory one   *)
(* of them names, and so after a kill there: one of the links names a whole *)
(* directory. The next Apply after one that was torn has no such promise.   *)
WayBack == ~together /\ hurt < 2 => Runnable(current) \/ Runnable(previous)

(* A request that is about to restart the worker has installed what it      *)
(* says: current names it, the directory is whole, and the marker names it  *)
(* unless the supervisor has deleted that. Not beside other requests: the   *)
(* links and the marker may then be of different versions.                  *)
AckedIsInstalled ==
    \A h \in Handlers : pc[h] = "armed" /\ ~together =>
        /\ current = version[h] /\ dir[version[h]] = "whole"
        /\ marker \in {None, version[h]}

(***************************************************************************)
(* The inductive invariant behind them, in named parts.                    *)
(***************************************************************************)
(* A request that is under way installs a version that is not the running   *)
(* one, and has a running worker.                                           *)
RequestInv ==
    \A h \in Handlers :
      /\ pc[h] = "idle" <=> version[h] = None
      /\ pc[h] # "idle" => running # None /\ version[h] # running

(* Whom the ghosts blame. *)
RaceInv ==
    /\ \A g, h \in Handlers :
         /\ g # h /\ version[g] = version[h] /\ version[h] # None
              => version[h] \in raced
         /\ g # h /\ pc[g] # "idle" /\ pc[h] # "idle" => together
    /\ raced # {} => together

(* The steps at which a request relies on the staging directory. *)
Staging == {"mkdir", "open", "copy", "manifest", "unpublish", "promote",
            "discard"}

(* A staged binary that is not whole, while a request relies on it, is      *)
(* still going to be rewritten or discarded by somebody; a published one is *)
(* open only after a race.                                                  *)
StageInv ==
    /\ \A h \in Handlers :
         pc[h] \in Staging /\ stage[version[h]] = "bad" =>
           \E g \in Handlers :
              /\ version[g] = version[h]
              /\ \/ pc[g] \in {"open", "discard"}
                 \/ pc[g] = "copy" /\ file[g] = "staged"
    /\ \A h \in Handlers :
         pc[h] = "copy" /\ file[h] = "published" => version[h] \in raced

(* The steps after the directory has been published, and after the links.   *)
Marking   == {"openMarker", "fillMarker", "renameMarker", "armed"}
Published == Marking \cup {"readCurrent", "clearPrevious", "writePrevious",
                           "clearCurrent", "writeCurrent"}

(* What a request alone has achieved so far. *)
AckInv ==
    ~together => \A h \in Handlers :
      /\ pc[h] \in Published => dir[version[h]] = "whole"
      /\ pc[h] \in Marking => current = version[h]
      /\ pc[h] = "fillMarker" => file[h] = "staged"
      /\ pc[h] = "renameMarker" => markerTmp = version[h]
      /\ pc[h] = "armed" => marker \in {None, version[h]}

(* Both links are good, and as soon as current has left the running version *)
(* they differ.                                                             *)
Rest ==
    /\ Runnable(current)
    /\ previous # None => Runnable(previous)
    /\ running # None /\ current # running => previous \notin {None, current}

(* One link is good at every step of a request that is alone. *)
LinkInv ==
    ~together =>
      /\ hurt = 0 =>
           /\ (\A h \in Handlers : pc[h] \notin TornSteps) => Rest
           /\ \A h \in Handlers :
                /\ pc[h] = "promote" =>
                     /\ current # None
                     /\ \A l \in {current, previous} \ {None, version[h]} :
                          dir[l] = "whole"
                     /\ current # running => previous \notin {None, current}
                /\ pc[h] \in {"clearPrevious", "writePrevious"} =>
                     current # version[h] /\ before[h] = current
                /\ pc[h] = "writePrevious" => Runnable(current)
                /\ pc[h] \in {"clearCurrent", "writeCurrent"} =>
                     Runnable(previous) /\ previous # version[h]
      /\ hurt = 1 =>
           /\ Runnable(current) \/ Runnable(previous)
           /\ \A h \in Handlers :
                pc[h] \notin Published \cup {"promote"}

Inv == TypeOK /\ RequestInv /\ RaceInv /\ StageInv /\ PublishedIsWhole
         /\ RunningKept /\ AckInv /\ LinkInv
=============================================================================
