------------------------ MODULE BlacklistFileProofs ------------------------
(***************************************************************************)
(* What blacklist.Add promises, for any number of concurrent calls and     *)
(* every set of versions, wherever a call fails or the process is killed.  *)
(***************************************************************************)
EXTENDS BlacklistFile, TLAPS

(* Every step of a call, and the death of the process, preserves the        *)
(* invariant.                                                               *)
LEMMA StepInv ==
    ASSUME Inv, [Next]_vars
    PROVE  Inv'
<1> USE NamesAssumption
<1> USE DEF Inv, TypeOK, NoPartialDocument, AckedIsListed, LoneInv, StagingInv,
        Load, Contents, Goto
<1>1. ASSUME NEW w \in Writers, NEW v \in Versions, Add(w, v) PROVE Inv'
    BY <1>1 DEF Add
<1>2. ASSUME NEW w \in Writers, AddLoad(w) PROVE Inv'
    BY <1>2 DEF AddLoad, Fails
<1>3. ASSUME NEW w \in Writers, SaveClear(w) PROVE Inv'
    BY <1>3 DEF SaveClear, Unlinked
<1>4. ASSUME NEW w \in Writers, SaveCreate(w) PROVE Inv'
    BY <1>4 DEF SaveCreate, Fails
<1>5. ASSUME NEW w \in Writers, SaveWrite(w) PROVE Inv'
    BY <1>5 DEF SaveWrite
<1>6. ASSUME NEW w \in Writers, SaveWriteFails(w) PROVE Inv'
    BY <1>6 DEF SaveWriteFails, Fails, Unlinked
<1>7. ASSUME NEW w \in Writers, SaveRename(w) PROVE Inv'
  <2>1. TypeOK'
    <3>1. file' \in [Writers -> {"closed", "staged", "published", "unlinked"}]
      BY <1>7 DEF SaveRename, Unlinked
    <3>2. path' \in Contents /\ tmp' \in Contents /\ acked' \subseteq Versions
      BY <1>7 DEF SaveRename
    <3>3. QED
      BY <1>7, <3>1, <3>2 DEF SaveRename, Fails
  <2>2. NoPartialDocument'
    BY <1>7 DEF SaveRename, Fails
  <2>3. AckedIsListed'
    <3>1. CASE tmp \in {NoFile, Partial}
      BY <1>7, <3>1 DEF SaveRename
    <3>2. CASE tmp \notin {NoFile, Partial}
      <4>1. acked \subseteq tmp /\ (w \in lone => version[w] \in tmp)
        BY <1>7, <3>2 DEF SaveRename
      <4>2. QED
        BY <1>7, <3>2, <4>1 DEF SaveRename
    <3>3. QED
      BY <3>1, <3>2
  <2>4. LoneInv'
    BY <1>7 DEF SaveRename, Fails
  <2>5. StagingInv'
    BY <1>7 DEF SaveRename, Fails
  <2>6. QED
    BY <2>1, <2>2, <2>3, <2>4, <2>5
<1>8. CASE Kill
    BY <1>8 DEF Kill
<1>9. CASE UNCHANGED vars
    BY <1>9 DEF vars
<1>10. QED
    BY <1>1, <1>2, <1>3, <1>4, <1>5, <1>6, <1>7, <1>8, <1>9 DEF Next, Step

(* The inductive invariant holds in every reachable state. *)
LEMMA Invariance == Spec => []Inv
<1>1. Init => Inv
    BY NamesAssumption DEF Init, Inv, TypeOK, NoPartialDocument, AckedIsListed,
                           LoneInv, StagingInv, Load, Contents
<1>2. Inv /\ [Next]_vars => Inv'
    BY StepInv
<1>3. QED
    BY <1>1, <1>2, PTL DEF Spec

(* Names, lists and open files stay what their types say, for any number of *)
(* calls of Add at once.                                                    *)
THEOREM BlacklistTypes == Spec => []TypeOK
<1>1. Inv => TypeOK
    BY DEF Inv
<1>2. QED
    BY <1>1, Invariance, PTL

(* No reader ever sees a partial list, unless the last rename was by a call *)
(* of Add that had another one beside it.                                   *)
THEOREM WholeDocuments == Spec => []NoPartialDocument
<1>1. Inv => NoPartialDocument
    BY DEF Inv
<1>2. QED
    BY <1>1, Invariance, PTL

(* An entry acknowledged to a call that was alone is never lost to later    *)
(* calls, unless they publish a partial document.                           *)
THEOREM EntriesKept == Spec => []AckedIsListed
<1>1. Inv => AckedIsListed
    BY DEF Inv
<1>2. QED
    BY <1>1, Invariance, PTL
=============================================================================
