----------------------------- MODULE StateFiles -----------------------------
(***************************************************************************)
(* Three files under state/ and what a failed or killed writer leaves in   *)
(* them: the history ledger, to which clawmastd appends and which the      *)
(* worker reads (supervisor/history.go, internal/history); the bearer      *)
(* token, which a booting worker loads or creates (agent/auth.go); and the *)
(* channel preference, which concurrent requests rewrite                   *)
(* (agent/channel.go).                                                     *)
(***************************************************************************)
EXTENDS Naturals, Sequences, FiniteSets

CONSTANTS
    Setters,      \* concurrent POST /api/settings/channel
    Channels,
    None,         \* no such file
    Torn,         \* a file truncated and not yet written
    MaxEntries,   \* bound on ledger entries
    MaxTokens     \* bound on tokens generated

ASSUME FilesAssumption ==
    /\ None \notin Channels /\ Torn \notin Channels \cup {None}
    /\ MaxEntries \in Nat /\ MaxTokens \in Nat
    /\ {None, Torn} \cap 0..MaxTokens = {}

VARIABLES
    \* ---- state/history.json ----
    lines,        \* its lines, each the entries begun in it
    writing,      \* Append is at work
    entry,        \* the entry it writes
    \* ---- state/token ----
    tokenFile,    \* None, Torn or the token's number
    token,        \* the running worker's token, 0 if it has none yet
    made,         \* tokens generated so far
    \* ---- state/channel ----
    pref, prefTmp,
    pc, pick, file,
    worker,       \* "down", "boot", "write" or "up"
    \* ---- observation only ----
    acked,        \* entries whose Append returned no error
    tears,        \* Appends that failed after writing something
    shown,        \* the token of the first worker that came up
    committed,    \* the pick renamed into place last
    lone,         \* channel requests that have had no other beside them
    crossed       \* the last commit was by a request that had one

ledger  == <<lines, writing, entry, acked, tears>>
secret  == <<tokenFile, token, made, shown>>
setting == <<pref, prefTmp, pc, pick, file, committed, lone, crossed>>
vars    == <<ledger, secret, setting, worker>>

(* A line: the entries begun in it, whether the last of them is incomplete, *)
(* and whether its newline is missing.                                      *)
Line == [entries : Seq(1..MaxEntries), cut : BOOLEAN, open : BOOLEAN]

LedgerTypes ==
    /\ lines \in Seq(Line) /\ writing \in BOOLEAN /\ entry \in 0..MaxEntries
    /\ acked \subseteq 1..MaxEntries /\ tears \in 0..MaxEntries

SecretTypes ==
    /\ tokenFile \in {None, Torn} \cup 1..MaxTokens
    /\ token \in 0..MaxTokens /\ made \in 0..MaxTokens /\ shown \in 0..MaxTokens
    /\ worker \in {"down", "boot", "write", "up"}

SettingTypes ==
    /\ pref \in Channels \cup {None, Torn}
    /\ prefTmp \in Channels \cup {None, Torn}
    /\ pc \in [Setters -> {"idle", "open", "fill", "rename"}]
    /\ pick \in [Setters -> Channels \cup {None}]
    /\ file \in [Setters -> {"closed", "staged", "published", "unlinked"}]
    /\ committed \in Channels \cup {None}
    /\ lone \subseteq Setters /\ crossed \in BOOLEAN

(* Every variable keeps its type. *)
TypeOK == LedgerTypes /\ SecretTypes /\ SettingTypes

Init ==
    /\ lines = <<>> /\ writing = FALSE /\ entry = 0 /\ acked = {} /\ tears = 0
    /\ tokenFile = None /\ token = 0 /\ made = 0 /\ shown = 0
    /\ pref = None /\ prefTmp = None /\ committed = None
    /\ pc = [s \in Setters |-> "idle"] /\ pick = [s \in Setters |-> None]
    /\ file = [s \in Setters |-> "closed"]
    /\ lone = {} /\ crossed = FALSE /\ worker = "down"

(***************************************************************************)
(* The ledger.                                                             *)
(***************************************************************************)
Last     == lines[Len(lines)]
LastOpen == lines # <<>> /\ Last.open

(* The ledger with another last line. *)
SetLast(es, cut, open) ==
    [lines EXCEPT ![Len(lines)] = [entries |-> es, cut |-> cut, open |-> open]]

(* Mutant: the file is opened with O_TRUNC. *)
AppendBeginsTruncating ==
    /\ ~writing /\ entry < MaxEntries
    /\ writing' = TRUE /\ entry' = entry + 1
    /\ lines' = <<[entries |-> <<entry + 1>>, cut |-> TRUE, open |-> TRUE]>>
    /\ UNCHANGED <<acked, tears, secret, setting, worker>>

(* Append opens the ledger with O_APPEND and begins to write: after a tail  *)
(* without a newline the entry lands on that line.                          *)
AppendBegins ==
    /\ ~writing /\ entry < MaxEntries
    /\ writing' = TRUE /\ entry' = entry + 1
    /\ lines' = IF LastOpen
                THEN SetLast(Append(Last.entries, entry + 1), TRUE, TRUE)
                ELSE Append(lines, [entries |-> <<entry + 1>>,
                                    cut |-> TRUE, open |-> TRUE])
    /\ UNCHANGED <<acked, tears, secret, setting, worker>>

(* All of the entry but its newline is written ... *)
AppendNearlyDone ==
    /\ writing /\ Last.cut
    /\ lines' = SetLast(Last.entries, FALSE, TRUE)
    /\ UNCHANGED <<writing, entry, acked, tears, secret, setting, worker>>

(* ... and the newline, and the file is synced. *)
AppendDone ==
    /\ writing
    /\ lines' = SetLast(Last.entries, FALSE, FALSE)
    /\ writing' = FALSE /\ acked' = acked \cup {entry}
    /\ UNCHANGED <<entry, tears, secret, setting, worker>>

(* Mutant: a failed Append truncates the ledger, one line too far. *)
AppendTornTruncating ==
    /\ writing
    /\ writing' = FALSE /\ tears' = tears + 1
    /\ lines' = IF Len(lines) < 2 THEN <<>> ELSE SubSeq(lines, 1, Len(lines) - 2)
    /\ UNCHANGED <<entry, acked, secret, setting, worker>>

(* A short write, a kill or a power loss: the tail stays as it is. *)
AppendTorn ==
    /\ writing
    /\ writing' = FALSE /\ tears' = tears + 1
    /\ UNCHANGED <<lines, entry, acked, secret, setting, worker>>

(* decodeAll: the lines that hold exactly one whole entry, with or without  *)
(* a newline; all others are skipped.                                       *)
Decoded ==
    {lines[i].entries[1] : i \in {j \in 1..Len(lines) :
                              Len(lines[j].entries) = 1 /\ ~lines[j].cut}}

(***************************************************************************)
(* The token.                                                              *)
(***************************************************************************)
Boot ==
    /\ worker = "down" /\ worker' = "boot"
    /\ UNCHANGED <<ledger, secret, setting>>

(* LoadOrCreateToken: a token on file is used as it is. *)
LoadToken ==
    /\ worker = "boot" /\ tokenFile \notin {None, Torn}
    /\ token' = tokenFile /\ worker' = "up"
    /\ shown' = IF shown = 0 THEN tokenFile ELSE shown
    /\ UNCHANGED <<ledger, setting, tokenFile, made>>

(* Mutant: the file is rewritten at every boot. *)
CreateTokenAlways ==
    /\ worker = "boot" /\ made < MaxTokens
    /\ made' = made + 1 /\ tokenFile' = Torn /\ worker' = "write"
    /\ UNCHANGED <<ledger, setting, token, shown>>

(* A missing or empty file has a fresh token written into it: WriteFile      *)
(* truncates ...                                                             *)
CreateToken ==
    /\ worker = "boot" /\ tokenFile \in {None, Torn} /\ made < MaxTokens
    /\ made' = made + 1 /\ tokenFile' = Torn /\ worker' = "write"
    /\ UNCHANGED <<ledger, setting, token, shown>>

(* ... and writes, and only then the worker goes on with the token. *)
WriteToken ==
    /\ worker = "write"
    /\ tokenFile' = made /\ token' = made /\ worker' = "up"
    /\ shown' = IF shown = 0 THEN made ELSE shown
    /\ UNCHANGED <<ledger, setting, made>>

(***************************************************************************)
(* The channel preference.                                                 *)
(***************************************************************************)
(* handleChannelSet: ValidateChannel accepts c. *)
SetChannel(s, c) ==
    LET busy == {t \in Setters : pc[t] # "idle"} IN
    /\ worker = "up" /\ pc[s] = "idle"
    /\ pc' = [pc EXCEPT ![s] = "open"]
    /\ pick' = [pick EXCEPT ![s] = c]
    /\ lone' = IF busy = {} THEN {s} ELSE {}
    /\ UNCHANGED <<ledger, secret, worker, pref, prefTmp, file, committed,
                   crossed>>

(* Mutant: the preference itself is opened and truncated. *)
OpenPreferenceInPlace(s) ==
    /\ pc[s] = "open"
    /\ pc' = [pc EXCEPT ![s] = "fill"]
    /\ pref' = Torn /\ prefTmp' = Torn
    /\ file' = [file EXCEPT ![s] = "staged"]
    /\ UNCHANGED <<ledger, secret, worker, pick, committed, lone, crossed>>

(* WriteChannelPreference: WriteFile truncates the one staging file ... *)
OpenPreference(s) ==
    /\ pc[s] = "open"
    /\ pc' = [pc EXCEPT ![s] = "fill"]
    /\ prefTmp' = Torn
    /\ file' = [file EXCEPT ![s] = "staged"]
    /\ UNCHANGED <<ledger, secret, worker, pref, pick, committed, lone, crossed>>

(* ... and fills the file it has open, wherever that is by then; it is       *)
(* renamed over the preference.                                              *)
FillPreference(s) ==
    /\ pc[s] = "fill"
    /\ pc' = [pc EXCEPT ![s] = "rename"]
    /\ prefTmp' = IF file[s] = "staged" THEN pick[s] ELSE prefTmp
    /\ pref' = IF file[s] = "published" THEN pick[s] ELSE pref
    /\ file' = [file EXCEPT ![s] = "closed"]
    /\ UNCHANGED <<ledger, secret, worker, pick, committed, lone, crossed>>

RenamePreference(s) ==
    /\ pc[s] = "rename" /\ prefTmp # None
    /\ pc' = [pc EXCEPT ![s] = "idle"]
    /\ pick' = [pick EXCEPT ![s] = None]
    /\ pref' = prefTmp /\ prefTmp' = None
    /\ file' = [t \in Setters |-> CASE file[t] = "staged" -> "published"
                                    [] file[t] = "published" -> "unlinked"
                                    [] OTHER -> file[t]]
    /\ committed' = pick[s] /\ crossed' = (s \notin lone) /\ lone' = lone \ {s}
    /\ UNCHANGED <<ledger, secret, worker>>

(* Any of these calls fails; the staged file is removed when the rename did. *)
SetFails(s) ==
    /\ pc[s] # "idle"
    /\ pc' = [pc EXCEPT ![s] = "idle"]
    /\ pick' = [pick EXCEPT ![s] = None]
    /\ prefTmp' = IF pc[s] = "rename" THEN None ELSE prefTmp
    /\ file' = [t \in Setters |->
                  IF t = s THEN "closed"
                  ELSE IF pc[s] = "rename" /\ file[t] = "staged" THEN "unlinked"
                  ELSE file[t]]
    /\ lone' = lone \ {s}
    /\ UNCHANGED <<ledger, secret, worker, pref, committed, crossed>>

(* The worker is gone, wherever it was; the files stay. *)
WorkerGone ==
    /\ worker # "down" /\ worker' = "down"
    /\ token' = 0
    /\ pc' = [s \in Setters |-> "idle"] /\ pick' = [s \in Setters |-> None]
    /\ file' = [s \in Setters |-> "closed"] /\ lone' = {}
    /\ UNCHANGED <<ledger, tokenFile, made, shown, pref, prefTmp, committed,
                   crossed>>

Ledger == AppendBegins \/ AppendNearlyDone \/ AppendDone \/ AppendTorn
Set(s) == \/ \E c \in Channels : SetChannel(s, c)
          \/ OpenPreference(s) \/ FillPreference(s) \/ RenamePreference(s)
          \/ SetFails(s)

Next ==
    \/ Ledger
    \/ Boot \/ LoadToken \/ CreateToken \/ WriteToken \/ WorkerGone
    \/ \E s \in Setters : Set(s)

Spec == Init /\ [][Next]_vars

(***************************************************************************)
(* Properties.                                                             *)
(***************************************************************************)
(* History: a partial tail "never corrupts earlier entries". What Append    *)
(* has acknowledged and a reader can decode stays so for good.              *)
EarlierEntriesKept ==
    [][\A n \in acked \cap Decoded : n \in Decoded']_vars

(* It does corrupt a later one: the entry appended behind a torn tail is    *)
(* acknowledged and cannot be decoded. That is all a tear costs: one        *)
(* acknowledged entry at most, and the ledger is sound again behind it.     *)
TearCostsOne == Cardinality(acked \ Decoded) <= tears

(* The token an operator has pasted into a browser stays valid: every later *)
(* worker has the token of the first one that came up, although a worker    *)
(* may be killed between truncating and writing the file.                   *)
TokenStable == worker = "up" => token = shown

(* state/channel holds the pick committed last, whatever failed or was      *)
(* killed since, unless that request had another one beside it. The two     *)
(* share the staging file, and the preference may then be the other pick,   *)
(* or empty, which a boot takes for no preference.                          *)
PickKept == ~crossed => pref = committed

(***************************************************************************)
(* The inductive invariant, file by file.                                  *)
(***************************************************************************)
(* A torn tail waits for an entry to spoil. *)
Pending == LastOpen /\ (writing => Len(Last.entries) > 1)

(* Only the last line can be open, and nothing in an open line has been      *)
(* acknowledged.                                                             *)
LinesInv ==
    \A i \in 1..Len(lines) :
       /\ Len(lines[i].entries) >= 1
       /\ lines[i].open => /\ i = Len(lines)
                           /\ \A j \in 1..Len(lines[i].entries) :
                                 lines[i].entries[j] \notin acked

WritingInv ==
    /\ acked \subseteq 1..entry
    /\ tears + (IF writing THEN 1 ELSE 0) <= entry
    /\ writing => /\ LastOpen /\ entry >= 1 /\ entry \notin acked
                  /\ Last.entries[Len(Last.entries)] = entry

(* Each tear accounts for one spoilt entry or for the torn tail. *)
LossInv == Cardinality(acked \ Decoded) + (IF Pending THEN 1 ELSE 0) <= tears

LedgerInv == LinesInv /\ WritingInv /\ LossInv

(* Once a worker has come up the file holds its token, and nobody writes.    *)
TokenInv ==
    /\ shown # 0 => tokenFile = shown
    /\ worker = "write" => shown = 0 /\ made # 0
    /\ worker = "up" => shown # 0 /\ token = shown

(* A request that has been alone finds its own staging file, and only a      *)
(* crossed one can have its open file published under it.                    *)
SettingInv ==
    /\ PickKept
    /\ \A s \in Setters :
         /\ pc[s] # "fill" => file[s] = "closed"
         /\ file[s] = "published" => crossed
         /\ s \in lone =>
              /\ pc[s] # "idle"
              /\ \A t \in Setters \ {s} : pc[t] = "idle"
              /\ pc[s] = "fill" => file[s] = "staged"
              /\ pc[s] = "rename" => prefTmp = pick[s]

Inv == TypeOK /\ LedgerInv /\ TokenInv /\ SettingInv
=============================================================================
