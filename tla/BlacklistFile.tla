---------------------------- MODULE BlacklistFile ----------------------------
(***************************************************************************)
(* blacklist.Add (internal/blacklist/blacklist.go) against a file system:  *)
(* load, stage in <path>.tmp, rename over the target. The writers are the  *)
(* HTTP handlers of one worker, which nothing serialises, and the          *)
(* supervisor, which writes only when no worker lives. Supervisor.tla      *)
(* takes the whole of Add as one step, which is what it is for one writer. *)
(***************************************************************************)
EXTENDS Naturals

CONSTANTS
    Writers,     \* concurrent calls of Add
    Versions,
    NoFile,      \* a name that does not exist
    Partial      \* a file that has been created and not completely written

ASSUME NamesAssumption ==
    /\ NoFile # Partial
    /\ \A S \in SUBSET Versions : S # Partial /\ S # NoFile

VARIABLES
    path,        \* what <path> holds
    tmp,         \* what <path>.tmp holds
    pc,          \* how far each call of Add got
    version,     \* the version it adds
    entries,     \* the list it loaded, then the list it saves
    file,        \* where the file it has open is by now
    \* ---- observation only ----
    lone,        \* calls of Add that have had no other beside them
    crossed,     \* the last rename was by a call that had one
    acked        \* versions whose Add returned no error and was alone,
                 \* since the last rename of a partial document

vars == <<path, tmp, pc, version, entries, file, lone, crossed, acked>>

Contents == (SUBSET Versions) \cup {Partial, NoFile}

(* Names refer to documents, and lists hold versions. *)
TypeOK ==
    /\ path \in Contents /\ tmp \in Contents
    /\ pc \in [Writers -> {"idle", "load", "clear", "create", "write", "rename"}]
    /\ version \in [Writers -> Versions]
    /\ entries \in [Writers -> SUBSET Versions]
    /\ file \in [Writers -> {"closed", "staged", "published", "unlinked"}]
    /\ lone \subseteq Writers /\ crossed \in BOOLEAN
    /\ acked \subseteq Versions

Init ==
    /\ path = NoFile /\ tmp = NoFile
    /\ pc = [w \in Writers |-> "idle"]
    /\ version \in [Writers -> Versions]
    /\ entries = [w \in Writers |-> {}]
    /\ file = [w \in Writers |-> "closed"]
    /\ lone = {} /\ crossed = FALSE /\ acked = {}

Goto(w, step) == pc' = [pc EXCEPT ![w] = step]

(* Load: a missing file and an empty file both read as no entries. *)
Load == IF path \in {NoFile, Partial} THEN {} ELSE path

(* Where the open files are after the staged name is gone. *)
Unlinked == [w \in Writers |-> IF file[w] = "staged" THEN "unlinked" ELSE file[w]]

(* Add is called. *)
Add(w, v) ==
    /\ pc[w] = "idle" /\ Goto(w, "load")
    /\ version' = [version EXCEPT ![w] = v]
    /\ lone' = IF \A u \in Writers : pc[u] = "idle" THEN {w} ELSE {}
    /\ UNCHANGED <<path, tmp, entries, file, crossed, acked>>

(* Add returns an error. *)
Fails(w) == Goto(w, "idle") /\ lone' = lone \ {w}

(* Mutant: the list is started afresh. *)
AddLoadFresh(w) ==
    /\ pc[w] = "load" /\ Goto(w, "clear")
    /\ entries' = [entries EXCEPT ![w] = {version[w]}]
    /\ UNCHANGED <<path, tmp, version, file, lone, crossed, acked>>

(* Add loads the list and puts the version into it. A document that is cut  *)
(* off somewhere may fail to decode.                                        *)
AddLoad(w) ==
    /\ pc[w] = "load"
    /\ \/ /\ Goto(w, "clear")
          /\ entries' = [entries EXCEPT ![w] = Load \cup {version[w]}]
          /\ UNCHANGED lone
       \/ path = Partial /\ Fails(w) /\ UNCHANGED entries
    /\ UNCHANGED <<path, tmp, version, file, crossed, acked>>

(* Save removes a staging file, stale or another's ... *)
SaveClear(w) ==
    /\ pc[w] = "clear" /\ Goto(w, "create")
    /\ tmp' = NoFile /\ file' = Unlinked
    /\ UNCHANGED <<path, version, entries, lone, crossed, acked>>

(* Mutant: the target itself is opened and truncated. *)
SaveCreateInPlace(w) ==
    /\ pc[w] = "create" /\ Goto(w, "write")
    /\ path' = Partial /\ tmp' = Partial
    /\ file' = [file EXCEPT ![w] = "staged"]
    /\ UNCHANGED <<version, entries, lone, crossed, acked>>

(* ... creates it with O_EXCL, or fails, if only because it is there again  *)
(* ...                                                                      *)
SaveCreate(w) ==
    /\ pc[w] = "create"
    /\ \/ /\ tmp = NoFile /\ tmp' = Partial
          /\ file' = [file EXCEPT ![w] = "staged"]
          /\ Goto(w, "write") /\ UNCHANGED lone
       \/ Fails(w) /\ UNCHANGED <<tmp, file>>
    /\ UNCHANGED <<path, version, entries, crossed, acked>>

(* ... writes, syncs and closes the file it has open, wherever that is by   *)
(* now ...                                                                  *)
SaveWrite(w) ==
    /\ pc[w] = "write" /\ Goto(w, "rename")
    /\ tmp'  = IF file[w] = "staged" THEN entries[w] ELSE tmp
    /\ path' = IF file[w] = "published" THEN entries[w] ELSE path
    /\ file' = [file EXCEPT ![w] = "closed"]
    /\ UNCHANGED <<version, entries, lone, crossed, acked>>

(* ... or fails and removes the name, whosever file it is ... *)
SaveWriteFails(w) ==
    /\ pc[w] = "write" /\ Fails(w)
    /\ tmp' = NoFile /\ file' = [Unlinked EXCEPT ![w] = "closed"]
    /\ UNCHANGED <<path, version, entries, crossed, acked>>

(* ... and renames whatever is staged over the target, or fails and removes *)
(* the staged name.                                                         *)
SaveRename(w) ==
    /\ pc[w] = "rename" /\ Fails(w)
    /\ \/ /\ tmp # NoFile
          /\ path' = tmp
          /\ file' = [u \in Writers |->
                        CASE file[u] = "staged"    -> "published"
                          [] file[u] = "published" -> "unlinked"
                          [] OTHER                 -> file[u]]
          /\ crossed' = (w \notin lone)
          /\ acked' = IF tmp = Partial THEN {}
                      ELSE IF w \in lone THEN acked \cup {version[w]}
                      ELSE acked
       \/ file' = Unlinked /\ UNCHANGED <<path, crossed, acked>>
    /\ tmp' = NoFile
    /\ UNCHANGED <<version, entries>>

(* The process is killed; the files stay. *)
Kill ==
    /\ \E w \in Writers : pc[w] # "idle"
    /\ pc' = [w \in Writers |-> "idle"]
    /\ file' = [w \in Writers |-> "closed"]
    /\ lone' = {}
    /\ UNCHANGED <<path, tmp, version, entries, crossed, acked>>

Step(w) ==
    \/ AddLoad(w) \/ SaveClear(w) \/ SaveCreate(w) \/ SaveWrite(w)
    \/ SaveWriteFails(w) \/ SaveRename(w)

Next ==
    \/ \E w \in Writers, v \in Versions : Add(w, v)
    \/ \E w \in Writers : Step(w)
    \/ Kill

Spec == Init /\ [][Next]_vars

(***************************************************************************)
(* Properties.                                                             *)
(***************************************************************************)
(* Save: "a reader never observes a partial document and a crashed writer   *)
(* leaves the prior file untouched", wherever the writer fails or is        *)
(* killed, and also after calls that overlapped. Only the rename of a call  *)
(* that had another one beside it may publish the file the other has just   *)
(* created, which checkBlacklist reads as an empty list, and the next call  *)
(* that is alone puts an end to that.                                       *)
NoPartialDocument == ~crossed => path # Partial

(* A version whose Add succeeded with no other beside it is on the list     *)
(* from then on, whatever later calls do together, fail at, or are killed   *)
(* at, unless they publish a partial document. Two calls at once may        *)
(* otherwise lose each other's entry, never an older one.                   *)
AckedIsListed == acked \subseteq Load

(***************************************************************************)
(* The inductive invariant: a call is alone while no other is under way,   *)
(* what is loaded or staged holds every acknowledged version, and what a   *)
(* call alone is about to publish is its own list.                         *)
(***************************************************************************)
LoneInv ==
    \A w \in lone :
      /\ \A u \in Writers : pc[u] # "idle" <=> u = w
      /\ pc[w] = "write" => file[w] = "staged" /\ tmp = Partial
      /\ pc[w] = "rename" => tmp = entries[w]

StagingInv ==
    /\ tmp \notin {NoFile, Partial} => acked \subseteq tmp
    /\ \A w \in Writers :
         pc[w] \in {"clear", "create", "write", "rename"} =>
           acked \cup {version[w]} \subseteq entries[w]

Inv == TypeOK /\ NoPartialDocument /\ AckedIsListed /\ LoneInv /\ StagingInv
=============================================================================
