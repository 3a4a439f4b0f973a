-------------------------- MODULE StateFilesProofs --------------------------
(***************************************************************************)
(* What survives in the ledger, the token file and the channel preference, *)
(* for any number of entries, boots and concurrent requests.               *)
(***************************************************************************)
EXTENDS StateFiles, TLAPS, FiniteSetTheorems, SequenceTheorems

(***************************************************************************)
(* The token.                                                              *)
(***************************************************************************)
(* Every step of a booting worker, and its death, keeps the token file's    *)
(* types and invariant.                                                     *)
LEMMA TokenStep ==
    ASSUME SecretTypes, TokenInv,
           Boot \/ LoadToken \/ CreateToken \/ WriteToken \/ WorkerGone
             \/ UNCHANGED <<secret, worker>>
    PROVE  SecretTypes' /\ TokenInv'
<1> USE FilesAssumption DEF SecretTypes, TokenInv, secret
<1>1. CASE Boot
    BY <1>1 DEF Boot
<1>2. CASE LoadToken
    BY <1>2 DEF LoadToken
<1>3. CASE CreateToken
    BY <1>3 DEF CreateToken
<1>4. CASE WriteToken
    BY <1>4 DEF WriteToken
<1>5. CASE WorkerGone
    BY <1>5 DEF WorkerGone
<1>6. CASE UNCHANGED <<secret, worker>>
    BY <1>6
<1>7. QED
    BY <1>1, <1>2, <1>3, <1>4, <1>5, <1>6

(***************************************************************************)
(* The channel preference.                                                 *)
(***************************************************************************)
(* Every step of a request, and the worker's death, keeps the preference's  *)
(* types and invariant.                                                     *)
LEMMA SettingStep ==
    ASSUME SettingTypes, SettingInv,
           (\E s \in Setters : Set(s)) \/ WorkerGone \/ UNCHANGED setting
    PROVE  SettingTypes' /\ SettingInv'
<1> USE FilesAssumption DEF SettingTypes, SettingInv, PickKept, setting
<1>1. ASSUME NEW s \in Setters, NEW c \in Channels, SetChannel(s, c)
      PROVE  SettingTypes' /\ SettingInv'
    BY <1>1 DEF SetChannel
<1>2. ASSUME NEW s \in Setters, OpenPreference(s)
      PROVE  SettingTypes' /\ SettingInv'
    BY <1>2 DEF OpenPreference
<1>3. ASSUME NEW s \in Setters, FillPreference(s)
      PROVE  SettingTypes' /\ SettingInv'
  <2>1. SettingTypes'
    BY <1>3 DEF FillPreference
  <2>2. SettingInv'
    BY <1>3 DEF FillPreference
  <2>3. QED
    BY <2>1, <2>2
<1>4. ASSUME NEW s \in Setters, RenamePreference(s)
      PROVE  SettingTypes' /\ SettingInv'
  <2>1. file' \in [Setters -> {"closed", "staged", "published", "unlinked"}]
    BY <1>4 DEF RenamePreference
  <2>2. SettingTypes'
    BY <1>4, <2>1 DEF RenamePreference
  <2>3. SettingInv'
    BY <1>4 DEF RenamePreference
  <2>4. QED
    BY <2>2, <2>3
<1>5. ASSUME NEW s \in Setters, SetFails(s)
      PROVE  SettingTypes' /\ SettingInv'
    BY <1>5 DEF SetFails
<1>6. CASE WorkerGone
    BY <1>6 DEF WorkerGone
<1>7. CASE UNCHANGED setting
    BY <1>7
<1>8. QED
    BY <1>1, <1>2, <1>3, <1>4, <1>5, <1>6, <1>7 DEF Set

(***************************************************************************)
(* The ledger.                                                             *)
(***************************************************************************)
(* Replacing the last line of a ledger leaves the others. *)
LEMMA LastReplaced ==
    ASSUME NEW s \in Seq(Line), s # <<>>, NEW x \in Line, NEW t,
           t = [s EXCEPT ![Len(s)] = x]
    PROVE  /\ t \in Seq(Line) /\ Len(t) = Len(s) /\ Len(s) \in Nat \ {0}
           /\ t[Len(s)] = x
           /\ \A i \in 1..(Len(s) - 1) : t[i] = s[i]
<1>1. Len(s) \in 1..Len(s)
    BY EmptySeq
<1>2. QED
    BY <1>1, ExceptSeq

(* Append changes the last line and no other. *)
LEMMA ChangesLast ==
    ASSUME LedgerTypes, LastOpen, NEW es \in Seq(1..MaxEntries),
           NEW c \in BOOLEAN, NEW o \in BOOLEAN, lines' = SetLast(es, c, o)
    PROVE  /\ lines' \in Seq(Line) /\ lines' # <<>> /\ Len(lines') = Len(lines)
           /\ Len(lines) \in Nat \ {0}
           /\ Last' = [entries |-> es, cut |-> c, open |-> o]
           /\ \A i \in 1..(Len(lines) - 1) : lines'[i] = lines[i]
<1> DEFINE x == [entries |-> es, cut |-> c, open |-> o]
<1>1. lines # <<>> /\ lines \in Seq(Line)
    BY DEF LastOpen, LedgerTypes
<1>2. x \in Line
    BY DEF Line
<1>3. lines' = [lines EXCEPT ![Len(lines)] = x]
    BY DEF SetLast
<1> HIDE DEF x
<1>4. /\ lines' \in Seq(Line) /\ Len(lines') = Len(lines) /\ Len(lines) \in Nat \ {0}
      /\ lines'[Len(lines)] = x
      /\ \A i \in 1..(Len(lines) - 1) : lines'[i] = lines[i]
    BY <1>1, <1>2, <1>3, LastReplaced
<1>5. lines' # <<>>
    BY <1>4, EmptySeq
<1>6. QED
    BY <1>4, <1>5 DEF Last, x

(* ... or begins a line. *)
LEMMA BeginsLine ==
    ASSUME LedgerTypes, NEW x \in Line, lines' = Append(lines, x)
    PROVE  /\ lines' \in Seq(Line) /\ lines' # <<>> /\ Len(lines') = Len(lines) + 1
           /\ Len(lines) \in Nat
           /\ Last' = x
           /\ \A i \in 1..Len(lines) : lines'[i] = lines[i]
<1>1. lines \in Seq(Line)
    BY DEF LedgerTypes
<1>2. QED
    BY <1>1, AppendProperties DEF Last

(* What the four steps of Append do to the lines. *)
LEMMA LedgerMoves ==
    ASSUME LedgerTypes, LedgerInv, Ledger
    PROVE  /\ lines' \in Seq(Line) /\ lines' # <<>> /\ Len(lines') \in Nat \ {0}
           /\ \A i \in 1..(Len(lines') - 1) :
                 i \in 1..Len(lines) /\ lines'[i] = lines[i] /\ ~lines[i].open
           /\ \/ /\ AppendBegins /\ LastOpen /\ Len(lines') = Len(lines)
                 /\ Last' = [entries |-> Append(Last.entries, entry + 1),
                             cut |-> TRUE, open |-> TRUE]
              \/ /\ AppendBegins /\ ~LastOpen /\ Len(lines') = Len(lines) + 1
                 /\ Last' = [entries |-> <<entry + 1>>, cut |-> TRUE, open |-> TRUE]
              \/ /\ AppendNearlyDone /\ Len(lines') = Len(lines)
                 /\ Last' = [entries |-> Last.entries, cut |-> FALSE, open |-> TRUE]
              \/ /\ AppendDone /\ Len(lines') = Len(lines)
                 /\ Last' = [entries |-> Last.entries, cut |-> FALSE, open |-> FALSE]
              \/ AppendTorn /\ lines' = lines
<1> USE FilesAssumption
<1>1. lines \in Seq(Line) /\ Len(lines) \in Nat
    BY LenProperties DEF LedgerTypes
<1>2. LastOpen => /\ Len(lines) \in Nat \ {0} /\ Last \in Line
                  /\ Last.entries \in Seq(1..MaxEntries)
  <2> SUFFICES ASSUME LastOpen
               PROVE  /\ Len(lines) \in Nat \ {0} /\ Last \in Line
                      /\ Last.entries \in Seq(1..MaxEntries)
    OBVIOUS
  <2>1. lines # <<>> /\ Len(lines) \in Nat \ {0}
    BY <1>1, EmptySeq DEF LastOpen
  <2>2. Last \in Line
    BY <1>1, <2>1, ElementOfSeq DEF Last
  <2>3. QED
    BY <2>1, <2>2 DEF Line
<1>3. \A i \in 1..(Len(lines) - 1) : i \in 1..Len(lines) /\ ~lines[i].open
    BY <1>1 DEF LedgerInv, LinesInv
<1>4. CASE AppendBegins /\ LastOpen
  <2>1. Append(Last.entries, entry + 1) \in Seq(1..MaxEntries)
    BY <1>2, <1>4, AppendProperties DEF AppendBegins, LedgerTypes
  <2>2. lines' = SetLast(Append(Last.entries, entry + 1), TRUE, TRUE)
    BY <1>4 DEF AppendBegins
  <2>3. QED
    BY <1>3, <1>4, <2>1, <2>2, ChangesLast
<1>5. CASE AppendBegins /\ ~LastOpen
  <2> DEFINE x == [entries |-> <<entry + 1>>, cut |-> TRUE, open |-> TRUE]
  <2>1. x \in Line
    BY <1>5 DEF AppendBegins, LedgerTypes, Line
  <2>2. lines' = Append(lines, x)
    BY <1>5 DEF AppendBegins
  <2> HIDE DEF x
  <2>3. /\ lines' \in Seq(Line) /\ lines' # <<>> /\ Len(lines') = Len(lines) + 1
        /\ Last' = x
        /\ \A i \in 1..Len(lines) : lines'[i] = lines[i]
    BY <2>1, <2>2, BeginsLine
  <2>4. \A i \in 1..Len(lines) : ~lines[i].open
    BY <1>1, <1>5, EmptySeq DEF LastOpen, Last, LedgerInv, LinesInv
  <2>5. QED
    BY <1>1, <1>5, <2>3, <2>4 DEF x
<1>6. CASE AppendNearlyDone
  <2>1. LastOpen /\ lines' = SetLast(Last.entries, FALSE, TRUE)
    BY <1>6 DEF AppendNearlyDone, LedgerInv, WritingInv
  <2>2. QED
    BY <1>2, <1>3, <1>6, <2>1, ChangesLast
<1>7. CASE AppendDone
  <2>1. LastOpen /\ lines' = SetLast(Last.entries, FALSE, FALSE)
    BY <1>7 DEF AppendDone, LedgerInv, WritingInv
  <2>2. QED
    BY <1>2, <1>3, <1>7, <2>1, ChangesLast
<1>8. CASE AppendTorn
  <2>1. lines' = lines /\ LastOpen
    BY <1>8 DEF AppendTorn, LedgerInv, WritingInv
  <2>2. QED
    BY <1>1, <1>2, <1>3, <1>8, <2>1 DEF LastOpen
<1>9. QED
    BY <1>4, <1>5, <1>6, <1>7, <1>8 DEF Ledger

(* An acknowledged entry that can be decoded is in a closed line, which no  *)
(* step of Append touches.                                                  *)
LEMMA EntriesKept ==
    ASSUME LedgerTypes, LedgerInv, Ledger, NEW n \in acked \cap Decoded
    PROVE  n \in Decoded'
<1>1. PICK i \in 1..Len(lines) :
         Len(lines[i].entries) = 1 /\ ~lines[i].cut /\ lines[i].entries[1] = n
    BY DEF Decoded
<1>2. ~lines[i].open
    BY <1>1 DEF LedgerInv, LinesInv
<1>3. Len(lines) \in Nat
    BY LenProperties DEF LedgerTypes
<1>4. i \in 1..Len(lines') /\ lines'[i] = lines[i]
  <2>1. CASE AppendTorn
    BY <2>1 DEF AppendTorn
  <2>2. CASE AppendBegins /\ ~LastOpen /\ Len(lines') = Len(lines) + 1
    BY <1>3, <2>2, LedgerMoves
  <2>3. CASE LastOpen /\ Len(lines') = Len(lines)
    <3>1. i # Len(lines)
      BY <1>2, <2>3 DEF LastOpen, Last
    <3>2. QED
      BY <1>3, <2>3, <3>1, LedgerMoves
  <2>4. QED
    BY <2>1, <2>2, <2>3, LedgerMoves
       DEF LedgerInv, WritingInv, AppendNearlyDone, AppendDone
<1>5. QED
    BY <1>1, <1>4 DEF Decoded

(* Every step of Append keeps the ledger's types. *)
LEMMA LedgerTypeStep ==
    ASSUME LedgerTypes, LedgerInv, Ledger
    PROVE  LedgerTypes'
<1> USE FilesAssumption
<1>1. lines' \in Seq(Line)
    BY LedgerMoves
<1>2. /\ entry \in 0..MaxEntries /\ tears \in 0..MaxEntries /\ acked \subseteq 1..MaxEntries
      /\ writing => tears < entry /\ entry \in 1..MaxEntries
    BY DEF LedgerTypes, LedgerInv, WritingInv
<1>3. entry' \in 0..MaxEntries
  <2>1. entry' = entry \/ (entry' = entry + 1 /\ entry < MaxEntries)
    BY DEF Ledger, AppendBegins, AppendNearlyDone, AppendDone, AppendTorn
  <2>2. QED
    BY <1>2, <2>1
<1>4. tears' \in 0..MaxEntries
  <2>1. tears' = tears \/ (tears' = tears + 1 /\ tears < entry)
    BY <1>2 DEF Ledger, AppendBegins, AppendNearlyDone, AppendDone, AppendTorn
  <2>2. QED
    BY <1>2, <2>1
<1>5. acked' \subseteq 1..MaxEntries
    BY <1>2 DEF Ledger, AppendBegins, AppendNearlyDone, AppendDone, AppendTorn
<1>6. writing' \in BOOLEAN
    BY Zenon DEF LedgerTypes, Ledger, AppendBegins, AppendNearlyDone, AppendDone,
       AppendTorn
<1>7. QED
    BY <1>1, <1>3, <1>4, <1>5, <1>6 DEF LedgerTypes

(* Every step of Append keeps the shape of the ledger. *)
LEMMA LinesStep ==
    ASSUME LedgerTypes, LedgerInv, Ledger
    PROVE  LinesInv' /\ WritingInv'
<1> USE FilesAssumption
<1>1. /\ lines \in Seq(Line) /\ Len(lines) \in Nat /\ Len(lines') \in Nat \ {0}
      /\ entry \in 0..MaxEntries /\ tears \in 0..MaxEntries
      /\ writing \in BOOLEAN
    BY LenProperties, LedgerMoves DEF LedgerTypes
<1>2. LastOpen => /\ Len(lines) \in 1..Len(lines)
                  /\ Last.entries \in Seq(1..MaxEntries)
                  /\ Len(Last.entries) \in Nat \ {0}
                  /\ \A j \in 1..Len(Last.entries) : Last.entries[j] \notin acked
  <2> SUFFICES ASSUME LastOpen
               PROVE  /\ Len(lines) \in 1..Len(lines)
                      /\ Last.entries \in Seq(1..MaxEntries)
                      /\ Len(Last.entries) \in Nat \ {0}
                      /\ \A j \in 1..Len(Last.entries) : Last.entries[j] \notin acked
    OBVIOUS
  <2>1. Len(lines) \in 1..Len(lines)
    BY <1>1, EmptySeq DEF LastOpen
  <2>2. Last \in Line
    BY <1>1, <2>1, ElementOfSeq DEF Last
  <2>3. Last.entries \in Seq(1..MaxEntries)
    BY <2>2 DEF Line
  <2>4. QED
    BY <2>1, <2>3, LenProperties DEF LedgerInv, LinesInv, LastOpen, Last
<1>3. \A i \in 1..(Len(lines') - 1) :
         lines'[i] = lines[i] /\ ~lines[i].open /\ Len(lines[i].entries) >= 1
    BY LedgerMoves DEF LedgerInv, LinesInv
<1>4. SUFFICES /\ WritingInv'
               /\ Len(Last'.entries) >= 1
               /\ Last'.open => \A j \in 1..Len(Last'.entries) :
                                   Last'.entries[j] \notin acked'
  <2>1. ASSUME NEW i \in 1..Len(lines'), i # Len(lines')
        PROVE  Len(lines'[i].entries) >= 1 /\ ~lines'[i].open
    BY <1>1, <1>3, <2>1
  <2>2. QED
    BY <1>1, <2>1 DEF LinesInv, Last
<1>5. CASE AppendBegins /\ LastOpen
  <2> DEFINE es == Append(Last.entries, entry + 1)
  <2>1. entry + 1 \in 1..MaxEntries
    BY <1>5 DEF AppendBegins, LedgerTypes
  <2>2. /\ Len(es) = Len(Last.entries) + 1 /\ es[Len(es)] = entry + 1
        /\ \A j \in 1..Len(Last.entries) : es[j] = Last.entries[j]
    BY <1>2, <1>5, <2>1, AppendProperties
  <2>3. /\ Last' = [entries |-> es, cut |-> TRUE, open |-> TRUE] /\ lines' # <<>>
        /\ acked' = acked /\ writing' = TRUE /\ entry' = entry + 1 /\ tears' = tears
        /\ ~writing
    BY <1>5, LedgerMoves DEF AppendBegins, AppendNearlyDone, AppendDone, AppendTorn
  <2> HIDE DEF es
  <2>4. entry + 1 \notin acked /\ acked \subseteq 1..(entry + 1)
    BY <1>1 DEF LedgerInv, WritingInv
  <2>5. WritingInv'
    BY <1>1, <2>2, <2>3, <2>4 DEF LedgerInv, WritingInv, LastOpen
  <2>6. Last'.entries = es /\ Len(es) >= 1
    BY <1>2, <1>5, <2>2, <2>3
  <2>7. ASSUME NEW j \in 1..Len(es) PROVE es[j] \notin acked
    <3>1. j \in 1..Len(Last.entries) \/ j = Len(es)
      BY <1>2, <1>5, <2>2
    <3>2. QED
      BY <1>2, <1>5, <2>2, <2>4, <3>1
  <2>8. QED
    BY <2>3, <2>5, <2>6, <2>7
<1>6. CASE AppendBegins /\ ~LastOpen
  <2>3. /\ Last' = [entries |-> <<entry + 1>>, cut |-> TRUE, open |-> TRUE]
        /\ lines' # <<>>
        /\ acked' = acked /\ writing' = TRUE /\ entry' = entry + 1 /\ tears' = tears
        /\ ~writing
    BY <1>6, LedgerMoves DEF AppendBegins, AppendNearlyDone, AppendDone, AppendTorn
  <2>4. entry + 1 \notin acked /\ acked \subseteq 1..(entry + 1)
    BY <1>1 DEF LedgerInv, WritingInv
  <2>5. WritingInv'
    BY <1>1, <2>3, <2>4 DEF LedgerInv, WritingInv, LastOpen
  <2>6. QED
    BY <2>3, <2>4, <2>5
<1>7. CASE AppendNearlyDone
  <2>1. LastOpen /\ writing
    BY <1>7 DEF AppendNearlyDone, LedgerInv, WritingInv
  <2>2. /\ Last' = [entries |-> Last.entries, cut |-> FALSE, open |-> TRUE]
        /\ lines' # <<>> /\ UNCHANGED <<acked, writing, entry, tears>>
    BY <1>7, <2>1, LedgerMoves DEF AppendBegins, AppendNearlyDone, AppendDone, AppendTorn
  <2>3. QED
    BY <1>2, <2>1, <2>2 DEF LedgerInv, WritingInv, LastOpen
<1>8. CASE AppendDone
  <2>1. LastOpen /\ writing
    BY <1>8 DEF AppendDone, LedgerInv, WritingInv
  <2>2. /\ Last' = [entries |-> Last.entries, cut |-> FALSE, open |-> FALSE]
        /\ writing' = FALSE /\ acked' = acked \cup {entry}
        /\ UNCHANGED <<entry, tears>>
    BY <1>2, <1>8, <2>1, ChangesLast DEF AppendDone
  <2>3. WritingInv'
    BY <1>1, <2>1, <2>2 DEF LedgerInv, WritingInv
  <2>4. QED
    BY <1>2, <2>1, <2>2, <2>3
<1>9. CASE AppendTorn
  <2>1. LastOpen /\ writing
    BY <1>9 DEF AppendTorn, LedgerInv, WritingInv
  <2>2. /\ UNCHANGED <<lines, entry, acked>> /\ writing' = FALSE /\ tears' = tears + 1
    BY <1>9 DEF AppendTorn
  <2>3. WritingInv'
    BY <1>1, <2>1, <2>2 DEF LedgerInv, WritingInv
  <2>4. QED
    BY <1>2, <2>1, <2>2, <2>3 DEF Last
<1>10. QED
    BY <1>5, <1>6, <1>7, <1>8, <1>9 DEF Ledger

(* An entry Append acknowledges is lost only behind a torn tail. *)
LEMMA LossStep ==
    ASSUME LedgerTypes, LedgerInv, Ledger
    PROVE  LossInv'
<1> USE FilesAssumption
<1> DEFINE lost == acked \ Decoded
<1>1. IsFiniteSet(lost) /\ Cardinality(lost) \in Nat
  <2>1. lost \in SUBSET (1..MaxEntries)
    BY DEF LedgerTypes
  <2>2. IsFiniteSet(1..MaxEntries)
    BY FS_Interval
  <2>3. IsFiniteSet(lost)
    BY <2>1, <2>2, FS_Subset
  <2>4. QED
    BY <2>3, FS_CardinalityType
<1>2. tears \in Nat /\ Cardinality(lost) + (IF Pending THEN 1 ELSE 0) <= tears
    BY DEF LedgerTypes, LedgerInv, LossInv
<1>3. ASSUME acked' = acked
      PROVE  Cardinality(lost') \in Nat /\ Cardinality(lost') <= Cardinality(lost)
  <2>1. lost' \in SUBSET lost
    BY <1>3, EntriesKept
  <2>2. QED
    BY <1>1, <2>1, FS_Subset, FS_CardinalityType
<1> HIDE DEF lost
<1>4. CASE AppendBegins
  <2>1. ~writing /\ writing' = TRUE /\ acked' = acked /\ tears' = tears
    BY <1>4 DEF AppendBegins
  <2>2. Pending' => LastOpen
    <3> SUFFICES ASSUME ~LastOpen PROVE ~Pending'
      OBVIOUS
    <3> DEFINE x == [entries |-> <<entry + 1>>, cut |-> TRUE, open |-> TRUE]
    <3>1. x \in Line /\ lines' = Append(lines, x)
      BY <1>4 DEF AppendBegins, LedgerTypes, Line
    <3> HIDE DEF x
    <3>2. Last' = x
      BY <3>1, BeginsLine
    <3>3. Len(Last'.entries) = 1
      BY <3>2 DEF x
    <3>4. QED
      BY <2>1, <3>3 DEF Pending
  <2>3. Pending' => Pending
    BY <2>1, <2>2 DEF Pending
  <2>4. QED
    BY <1>1, <1>2, <1>3, <2>1, <2>3 DEF LossInv, lost
<1>5. CASE AppendNearlyDone
  <2>1. writing /\ LastOpen /\ UNCHANGED <<writing, acked, tears>>
    BY <1>5 DEF AppendNearlyDone, LedgerInv, WritingInv
  <2>2. Last'.entries = Last.entries
    BY <1>5, <2>1, LedgerMoves DEF AppendBegins, AppendDone, AppendTorn
  <2>3. Pending' => Pending
    BY <2>1, <2>2 DEF Pending
  <2>4. QED
    BY <1>1, <1>2, <1>3, <2>1, <2>3 DEF LossInv, lost
<1>6. CASE AppendDone
  <2>1. writing /\ LastOpen /\ acked' = acked \cup {entry} /\ tears' = tears
    BY <1>6 DEF AppendDone, LedgerInv, WritingInv
  <2>2. /\ Last.entries \in Seq(1..MaxEntries) /\ Len(Last.entries) \in Nat \ {0}
        /\ Last.entries[Len(Last.entries)] = entry
    <3>1. lines \in Seq(Line) /\ Len(lines) \in 1..Len(lines)
      BY <2>1, EmptySeq DEF LedgerTypes, LastOpen
    <3>2. Last \in Line
      BY <3>1, ElementOfSeq DEF Last
    <3>3. Last.entries \in Seq(1..MaxEntries)
      BY <3>2 DEF Line
    <3>4. QED
      BY <2>1, <3>1, <3>3, LenProperties DEF Last, LedgerInv, LinesInv, WritingInv
  <2>3. /\ Last' = [entries |-> Last.entries, cut |-> FALSE, open |-> FALSE]
        /\ Len(lines') = Len(lines) /\ Len(lines) \in Nat \ {0}
    BY <1>6, <2>1, <2>2, ChangesLast DEF AppendDone
  <2>4. ~Pending'
    BY <2>3 DEF Pending, LastOpen
  <2>5. \A n \in acked : n \in Decoded => n \in Decoded'
    BY EntriesKept
  <2>6. CASE Len(Last.entries) = 1
    <3>1. entry \in Decoded'
      BY <2>2, <2>3, <2>6 DEF Decoded, Last
    <3>2. lost' \in SUBSET lost
      BY <2>1, <2>5, <3>1 DEF lost
    <3>3. Cardinality(lost') \in Nat /\ Cardinality(lost') <= Cardinality(lost)
      BY <1>1, <3>2, FS_Subset, FS_CardinalityType
    <3>4. QED
      BY <1>1, <1>2, <2>1, <2>4, <3>3 DEF LossInv, lost
  <2>7. CASE Len(Last.entries) > 1
    <3>1. Pending
      BY <2>1, <2>7 DEF Pending
    <3>2. lost' \in SUBSET (lost \cup {entry})
      BY <2>1, <2>5 DEF lost
    <3>3. /\ IsFiniteSet(lost \cup {entry})
          /\ Cardinality(lost \cup {entry}) <= Cardinality(lost) + 1
      BY <1>1, FS_AddElement
    <3>4. Cardinality(lost') <= Cardinality(lost \cup {entry})
      BY <3>2, <3>3, FS_Subset
    <3>5. Cardinality(lost') \in Nat /\ Cardinality(lost \cup {entry}) \in Nat
      BY <3>2, <3>3, FS_Subset, FS_CardinalityType
    <3>6. Cardinality(lost') <= Cardinality(lost) + 1
      BY <1>1, <3>3, <3>4, <3>5
    <3>7. QED
      BY <1>1, <1>2, <2>1, <2>4, <3>1, <3>5, <3>6 DEF LossInv, lost
  <2>8. Len(Last.entries) = 1 \/ Len(Last.entries) > 1
    <3>1. \A k \in Nat \ {0} : k = 1 \/ k > 1
      OBVIOUS
    <3>2. Len(Last.entries) \in Nat \ {0}
      BY <2>2
    <3>3. QED
      BY <3>1, <3>2, Zenon
  <2>9. QED
    BY <2>6, <2>7, <2>8
<1>7. CASE AppendTorn
  <2>1. acked' = acked /\ tears' = tears + 1
    BY <1>7 DEF AppendTorn
  <2>2. Cardinality(lost) <= tears
    BY <1>1, <1>2
  <2>3. Cardinality(lost') \in Nat /\ Cardinality(lost') <= Cardinality(lost)
    BY <1>3, <2>1
  <2>4. Cardinality(lost') + (IF Pending' THEN 1 ELSE 0) <= tears'
    BY <1>1, <1>2, <2>1, <2>2, <2>3
  <2>5. QED
    BY <2>4 DEF LossInv, lost
<1>8. QED
    BY <1>4, <1>5, <1>6, <1>7 DEF Ledger

(***************************************************************************)
(* The theorems.                                                           *)
(***************************************************************************)
(* Steps that are not of the ledger leave it alone. *)
LEMMA LedgerStep ==
    ASSUME LedgerTypes, LedgerInv, Ledger \/ UNCHANGED ledger
    PROVE  /\ LedgerTypes' /\ LedgerInv'
           /\ \A n \in acked \cap Decoded : n \in Decoded'
<1>1. CASE Ledger
    BY <1>1, LedgerTypeStep, LinesStep, LossStep, EntriesKept DEF LedgerInv
<1>2. CASE UNCHANGED ledger
    BY <1>2 DEF ledger, LedgerTypes, LedgerInv, LinesInv, WritingInv, LossInv,
       Pending, LastOpen, Last, Decoded
<1>3. QED
    BY <1>1, <1>2

(* A step belongs to one of the files and leaves the others alone, except   *)
(* for the death of the worker, which the token and the preference share.   *)
LEMMA Separation ==
    ASSUME [Next]_vars
    PROVE  /\ Ledger \/ UNCHANGED ledger
           /\ \/ Boot \/ LoadToken \/ CreateToken \/ WriteToken \/ WorkerGone
              \/ UNCHANGED <<secret, worker>>
           /\ (\E s \in Setters : Set(s)) \/ WorkerGone \/ UNCHANGED setting
<1>1. CASE Ledger
    BY <1>1 DEF Ledger, AppendBegins, AppendNearlyDone, AppendDone, AppendTorn
<1>2. CASE Boot \/ LoadToken \/ CreateToken \/ WriteToken \/ WorkerGone
    BY <1>2 DEF Boot, LoadToken, CreateToken, WriteToken, WorkerGone
<1>3. ASSUME NEW s \in Setters, Set(s)
      PROVE  UNCHANGED ledger /\ UNCHANGED <<secret, worker>>
    BY <1>3 DEF Set, SetChannel, OpenPreference, FillPreference, RenamePreference,
       SetFails
<1>4. CASE UNCHANGED vars
    BY <1>4 DEF vars
<1>5. QED
    BY <1>1, <1>2, <1>3, <1>4 DEF Next

(* The invariant holds in every reachable state. *)
LEMMA Invariance == Spec => []Inv
<1>1. Init => Inv
  <2> SUFFICES ASSUME Init PROVE Inv
    OBVIOUS
  <2> USE FilesAssumption DEF Init
  <2>1. LedgerTypes
    <3>1. lines \in Seq(Line)
      BY EmptySeq
    <3>2. writing \in BOOLEAN
      BY Zenon
    <3>3. QED
      BY <3>1, <3>2 DEF LedgerTypes
  <2>2. acked \ Decoded = {} /\ Cardinality({}) = 0
    BY FS_EmptySet
  <2>3. LedgerInv
    BY <2>2 DEF LedgerInv, LinesInv, WritingInv, LossInv, Pending, LastOpen
  <2>4. SecretTypes /\ TokenInv
    BY DEF SecretTypes, TokenInv
  <2>5. SettingTypes /\ SettingInv
    BY DEF SettingTypes, SettingInv, PickKept
  <2>6. QED
    BY <2>1, <2>3, <2>4, <2>5 DEF Inv, TypeOK
<1>2. Inv /\ [Next]_vars => Inv'
    BY Separation, LedgerStep, TokenStep, SettingStep DEF Inv, TypeOK
<1>3. QED
    BY <1>1, <1>2, PTL DEF Spec

(* The three files and their writers keep their types. *)
THEOREM FileTypes == Spec => []TypeOK
<1>1. Inv => TypeOK
    BY DEF Inv
<1>2. QED
    BY <1>1, Invariance, PTL

(* Each failed Append costs at most one acknowledged entry, however many     *)
(* fail and however they follow each other.                                  *)
THEOREM OneEntryPerTear == Spec => []TearCostsOne
<1>1. Inv => TearCostsOne
  <2> SUFFICES ASSUME Inv PROVE TearCostsOne
    OBVIOUS
  <2>1. acked \ Decoded \in SUBSET (1..MaxEntries)
    BY DEF Inv, TypeOK, LedgerTypes
  <2>2. IsFiniteSet(1..MaxEntries)
    BY FilesAssumption, FS_Interval
  <2>3. Cardinality(acked \ Decoded) \in Nat
    BY <2>1, <2>2, FS_Subset, FS_CardinalityType
  <2>4. QED
    BY <2>3 DEF Inv, TypeOK, LedgerTypes, LedgerInv, LossInv, TearCostsOne
<1>2. QED
    BY <1>1, Invariance, PTL

(* A partial tail never corrupts an earlier entry. *)
THEOREM LedgerAppendOnly == Spec => EarlierEntriesKept
<1>1. Inv /\ [Next]_vars => [\A n \in acked \cap Decoded : n \in Decoded']_vars
    BY Separation, LedgerStep DEF Inv, TypeOK
<1>2. QED
    BY <1>1, Invariance, PTL DEF Spec, EarlierEntriesKept

(* Every worker that comes up has the token of the first one. *)
THEOREM TokenForLife == Spec => []TokenStable
<1>1. Inv => TokenStable
    BY DEF Inv, TokenInv, TokenStable
<1>2. QED
    BY <1>1, Invariance, PTL

(* The preference is the pick committed last, unless requests crossed. *)
THEOREM PicksAreKept == Spec => []PickKept
<1>1. Inv => PickKept
    BY DEF Inv, SettingInv
<1>2. QED
    BY <1>1, Invariance, PTL
=============================================================================
