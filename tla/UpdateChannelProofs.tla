------------------------- MODULE UpdateChannelProofs -------------------------
(***************************************************************************)
(* The safety of update checks for any number of them at once, any number  *)
(* of channels and releases.                                               *)
(***************************************************************************)
EXTENDS UpdateChannel, TLAPS

(* Every step keeps the types. *)
LEMMA TypeStep ==
    ASSUME Inv, [Next]_vars
    PROVE  TypeOK'
<1> USE ChannelsAssumption, CheckersAssumption, UpdateBoundsAssumption
<1> USE DEF Inv, TypeOK, Releases, Codes, site, setting, checks
<1>1. ASSUME NEW c \in Channels, Release(c) PROVE TypeOK'
  <2>1. released' \in 0..MaxReleases
    BY <1>1 DEF Release
  <2>2. pub' \in [Channels -> 0..MaxReleases]
    BY <1>1, <2>1 DEF Release
  <2>3. QED
    BY <1>1, <2>1, <2>2 DEF Release
<1>2. ASSUME NEW c \in Channels, ServeManifest(c) PROVE TypeOK'
    BY <1>2 DEF ServeManifest, Unsettle
<1>3. ASSUME NEW c \in Channels, ServeSignature(c) PROVE TypeOK'
    BY <1>3 DEF ServeSignature, Unsettle
<1>4. CASE NetworkChanges
    BY <1>4 DEF NetworkChanges
<1>5. ASSUME NEW k \in Checkers, StartCheck(k) PROVE TypeOK'
    BY <1>5 DEF StartCheck
<1>6. ASSUME NEW k \in Checkers, FetchManifest(k) PROVE TypeOK'
  <2>1. /\ pc' \in [Checkers -> {"idle", "manifest", "sig"}]
        /\ code' \in [Checkers -> Codes]
    BY <1>6 DEF FetchManifest, Outcome
  <2>2. manifest[active] \in 0..MaxReleases /\ 0 \in 0..MaxReleases
    OBVIOUS
  <2>3. PICK n \in 0..MaxReleases : got' = [got EXCEPT ![k] = n]
    BY <1>6, <2>2 DEF FetchManifest, Outcome
  <2>4. \/ offer' = [offer EXCEPT ![k] = 0]
        \/ offer' = offer
    BY <1>6 DEF FetchManifest, Outcome
  <2>5. got' \in [Checkers -> 0..MaxReleases]
    BY <2>2, <2>3
  <2>6. offer' \in [Checkers -> 0..MaxReleases]
    BY <2>2, <2>4
  <2>7. unsettled' \subseteq Checkers
    BY <1>6 DEF FetchManifest
  <2>8. QED
    BY <1>6, <2>1, <2>6, <2>5, <2>7 DEF FetchManifest
<1>7. ASSUME NEW k \in Checkers, FetchSignature(k) PROVE TypeOK'
  <2>1. /\ pc' \in [Checkers -> {"idle", "manifest", "sig"}]
        /\ code' \in [Checkers -> Codes]
    BY <1>7 DEF FetchSignature, Outcome
  <2>2. got[k] \in 0..MaxReleases /\ 0 \in 0..MaxReleases
    OBVIOUS
  <2>3. got' = [got EXCEPT ![k] = 0]
    BY <1>7 DEF FetchSignature, Outcome
  <2>4. PICK n \in 0..MaxReleases : offer' = [offer EXCEPT ![k] = n]
    BY <1>7, <2>2 DEF FetchSignature, Outcome
  <2>5. got' \in [Checkers -> 0..MaxReleases]
    BY <2>2, <2>3
  <2>6. offer' \in [Checkers -> 0..MaxReleases]
    BY <2>2, <2>4
  <2>7. unsettled' \subseteq Checkers
    BY <1>7 DEF FetchSignature
  <2>8. QED
    BY <1>7, <2>1, <2>6, <2>5, <2>7 DEF FetchSignature
<1>8. ASSUME NEW c \in Channels, SetChannel(c) PROVE TypeOK'
  <2>1. picks' \in 0..MaxPicks /\ pref' \in Channels \cup {None}
    BY <1>8 DEF SetChannel
  <2>2. restart' \in BOOLEAN
    BY <1>8 DEF SetChannel
  <2>3. QED
    BY <1>8, <2>1, <2>2 DEF SetChannel
<1>9. CASE WorkerRestarts \/ WorkerDies
  <2>1. Leave
    BY <1>9 DEF WorkerRestarts, WorkerDies
  <2>2. /\ pc' \in [Checkers -> {"idle", "manifest", "sig"}]
        /\ code' \in [Checkers -> Codes]
    BY <2>1 DEF Leave
  <2>3. /\ got' \in [Checkers -> 0..MaxReleases]
        /\ offer' \in [Checkers -> 0..MaxReleases]
        /\ unsettled' \subseteq Checkers
    BY <2>1 DEF Leave
  <2>4. up' \in BOOLEAN /\ restart' \in BOOLEAN
    BY <2>1 DEF Leave
  <2>5. QED
    BY <2>1, <2>2, <2>3, <2>4 DEF Leave
<1>10. CASE Boot
  <2>1. active' \in Channels
    BY <1>10 DEF Boot, ResolveChannel
  <2>2. up' \in BOOLEAN
    BY <1>10 DEF Boot
  <2>3. boots' \in 1..(MaxBoots + 1)
    BY <1>10 DEF Boot
  <2>4. QED
    BY <1>10, <2>1, <2>2, <2>3 DEF Boot
<1>11. CASE UNCHANGED vars
    BY <1>11 DEF vars
<1>12. QED
    BY <1>1, <1>2, <1>3, <1>4, <1>5, <1>6, <1>7, <1>8, <1>9, <1>10, <1>11
       DEF Next, Check

(* A step leaves the check of j, and whether it is noted, alone. *)
SameCheck(j) ==
    /\ pc'[j] = pc[j] /\ got'[j] = got[j] /\ code'[j] = code[j]
    /\ offer'[j] = offer[j] /\ (j \in unsettled' <=> j \in unsettled)

(* What fetching the manifest leads to: an outcome that is no alarm, or the *)
(* second fetch, with the files in agreement or the check noted.            *)
LEMMA ManifestFetched ==
    ASSUME TypeOK, NEW k \in Checkers, FetchManifest(k)
    PROVE  /\ \A j \in Checkers \ {k} : SameCheck(j)
           /\ pc'[k] = "idle" => code'[k] # "badSignature"
           /\ pc'[k] # "idle" => pc'[k] = "sig"
           /\ \/ pc'[k] = "idle"
              \/ k \in unsettled'
              \/ manifest[active] = got'[k] /\ sig[active] = got'[k]
<1>1. ASSUME NEW c \in {"unreachable", "missing"},
             Outcome(k, 0, c), UNCHANGED unsettled
      PROVE  /\ \A j \in Checkers \ {k} : SameCheck(j)
             /\ pc'[k] = "idle" /\ code'[k] # "badSignature"
    BY <1>1 DEF Outcome, TypeOK, SameCheck
<1>2. ASSUME pc' = [pc EXCEPT ![k] = "sig"],
             got' = [got EXCEPT ![k] = manifest[active]],
             unsettled' = IF manifest[active] # sig[active]
                          THEN unsettled \cup {k} ELSE unsettled \ {k},
             UNCHANGED <<offer, code>>
      PROVE  /\ \A j \in Checkers \ {k} : SameCheck(j)
             /\ pc'[k] = "sig"
             /\ \/ k \in unsettled'
                \/ manifest[active] = got'[k] /\ sig[active] = got'[k]
    BY <1>2 DEF TypeOK, SameCheck
<1>3. QED
    BY <1>1, <1>2 DEF FetchManifest

(* What fetching the signature leads to: an outcome, an alarm only if the   *)
(* signature is not that of the manifest fetched before, an offer only of a *)
(* release for this channel.                                                *)
LEMMA SignatureFetched ==
    ASSUME TypeOK, NEW k \in Checkers, FetchSignature(k)
    PROVE  /\ \A j \in Checkers \ {k} : SameCheck(j)
           /\ pc'[k] = "idle" /\ unsettled' = unsettled
           /\ code'[k] = "badSignature" => sig[active] # got[k]
           /\ offer'[k] # 0 => train[offer'[k]] = active
<1>1. PICK n, c : /\ Outcome(k, n, c)
                  /\ c = "badSignature" => sig[active] # got[k]
                  /\ n # 0 => train[n] = active
    BY DEF FetchSignature
<1>2. unsettled' = unsettled
    BY DEF FetchSignature
<1>3. /\ \A j \in Checkers \ {k} : SameCheck(j)
      /\ pc'[k] = "idle" /\ offer'[k] = n /\ code'[k] = c
    BY <1>1, <1>2 DEF Outcome, TypeOK, SameCheck
<1>4. QED
    BY <1>1, <1>2, <1>3

(* Every step keeps track of the fetches. *)
LEMMA FetchStep ==
    ASSUME Inv, [Next]_vars
    PROVE  FetchInv'
<1> USE ChannelsAssumption, CheckersAssumption, UpdateBoundsAssumption
<1> USE DEF Inv, TypeOK, FetchInv, NoFalseAlarm, OfferIsOurs, Releases,
        site, setting, checks
<1>1. ASSUME NEW c \in Channels, Release(c) PROVE FetchInv'
    BY <1>1 DEF Release
<1>2. ASSUME NEW c \in Channels, ServeManifest(c) PROVE FetchInv'
    BY <1>2 DEF ServeManifest, Unsettle
<1>3. ASSUME NEW c \in Channels, ServeSignature(c) PROVE FetchInv'
    BY <1>3 DEF ServeSignature, Unsettle
<1>4. CASE NetworkChanges
    BY <1>4 DEF NetworkChanges
<1>5. ASSUME NEW k \in Checkers, StartCheck(k) PROVE FetchInv'
    BY <1>5 DEF StartCheck
<1>6. ASSUME NEW k \in Checkers, FetchManifest(k) PROVE FetchInv'
  <2>1. up /\ UNCHANGED <<up, active, manifest, sig>>
    BY <1>6 DEF FetchManifest
  <2>2. /\ \A j \in Checkers \ {k} : SameCheck(j)
        /\ \/ pc'[k] = "idle"
           \/ k \in unsettled'
           \/ manifest[active] = got'[k] /\ sig[active] = got'[k]
    BY <1>6, ManifestFetched
  <2>3. ASSUME NEW j \in Checkers, j # k
        PROVE  pc'[j] = "sig" =>
                 \/ j \in unsettled'
                 \/ manifest'[active'] = got'[j] /\ sig'[active'] = got'[j]
    BY <2>1, <2>2, <2>3 DEF SameCheck
  <2>4. pc'[k] = "sig" =>
          \/ k \in unsettled'
          \/ manifest'[active'] = got'[k] /\ sig'[active'] = got'[k]
    BY <2>1, <2>2
  <2>5. QED
    BY <2>1, <2>3, <2>4
<1>7. ASSUME NEW k \in Checkers, FetchSignature(k) PROVE FetchInv'
  <2>1. up /\ UNCHANGED <<up, active, manifest, sig>>
    BY <1>7 DEF FetchSignature
  <2>2. pc'[k] = "idle" /\ \A j \in Checkers \ {k} : SameCheck(j)
    BY <1>7, SignatureFetched
  <2>3. QED
    BY <2>1, <2>2 DEF SameCheck
<1>8. ASSUME NEW c \in Channels, SetChannel(c) PROVE FetchInv'
    BY <1>8 DEF SetChannel
<1>9. CASE WorkerRestarts \/ WorkerDies
    BY <1>9 DEF WorkerRestarts, WorkerDies, Leave
<1>10. CASE Boot
    BY <1>10 DEF Boot, ResolveChannel
<1>11. CASE UNCHANGED vars
    BY <1>11 DEF vars
<1>12. QED
    BY <1>1, <1>2, <1>3, <1>4, <1>5, <1>6, <1>7, <1>8, <1>9, <1>10, <1>11
       DEF Next, Check

(* No step raises a false alarm. *)
LEMMA AlarmStep ==
    ASSUME Inv, [Next]_vars
    PROVE  NoFalseAlarm'
<1> USE ChannelsAssumption, CheckersAssumption, UpdateBoundsAssumption
<1> USE DEF Inv, TypeOK, FetchInv, NoFalseAlarm, OfferIsOurs, Releases,
        site, setting, checks
<1>1. ASSUME NEW c \in Channels, Release(c) PROVE NoFalseAlarm'
    BY <1>1 DEF Release
<1>2. ASSUME NEW c \in Channels, ServeManifest(c) PROVE NoFalseAlarm'
    BY <1>2 DEF ServeManifest, Unsettle
<1>3. ASSUME NEW c \in Channels, ServeSignature(c) PROVE NoFalseAlarm'
    BY <1>3 DEF ServeSignature, Unsettle
<1>4. CASE NetworkChanges
    BY <1>4 DEF NetworkChanges
<1>5. ASSUME NEW k \in Checkers, StartCheck(k) PROVE NoFalseAlarm'
    BY <1>5 DEF StartCheck
<1>6. ASSUME NEW k \in Checkers, FetchManifest(k) PROVE NoFalseAlarm'
  <2>1. /\ \A j \in Checkers \ {k} : SameCheck(j)
        /\ pc'[k] = "idle" => code'[k] # "badSignature"
        /\ pc'[k] # "idle" => pc'[k] = "sig"
    BY <1>6, ManifestFetched
  <2>2. QED
    BY <2>1 DEF SameCheck
<1>7. ASSUME NEW k \in Checkers, FetchSignature(k) PROVE NoFalseAlarm'
  <2>1. /\ \A j \in Checkers \ {k} : SameCheck(j)
        /\ unsettled' = unsettled
        /\ code'[k] = "badSignature" => sig[active] # got[k]
    BY <1>7, SignatureFetched
  <2>2. pc[k] = "sig"
    BY <1>7 DEF FetchSignature
  <2>3. QED
    BY <2>1, <2>2 DEF SameCheck
<1>8. ASSUME NEW c \in Channels, SetChannel(c) PROVE NoFalseAlarm'
    BY <1>8 DEF SetChannel
<1>9. CASE WorkerRestarts \/ WorkerDies
    BY <1>9 DEF WorkerRestarts, WorkerDies, Leave
<1>10. CASE Boot
    BY <1>10 DEF Boot, ResolveChannel
<1>11. CASE UNCHANGED vars
    BY <1>11 DEF vars
<1>12. QED
    BY <1>1, <1>2, <1>3, <1>4, <1>5, <1>6, <1>7, <1>8, <1>9, <1>10, <1>11
       DEF Next, Check

(* No step makes an offer for another channel. *)
LEMMA OfferStep ==
    ASSUME Inv, [Next]_vars
    PROVE  OfferIsOurs'
<1> USE ChannelsAssumption, CheckersAssumption, UpdateBoundsAssumption
<1> USE DEF Inv, TypeOK, FetchInv, NoFalseAlarm, OfferIsOurs, Releases,
        site, setting, checks
<1>1. ASSUME NEW c \in Channels, Release(c) PROVE OfferIsOurs'
    BY <1>1 DEF Release
<1>2. ASSUME NEW c \in Channels, ServeManifest(c) PROVE OfferIsOurs'
    BY <1>2 DEF ServeManifest, Unsettle
<1>3. ASSUME NEW c \in Channels, ServeSignature(c) PROVE OfferIsOurs'
    BY <1>3 DEF ServeSignature, Unsettle
<1>4. CASE NetworkChanges
    BY <1>4 DEF NetworkChanges
<1>5. ASSUME NEW k \in Checkers, StartCheck(k) PROVE OfferIsOurs'
    BY <1>5 DEF StartCheck
<1>6. ASSUME NEW k \in Checkers, FetchManifest(k) PROVE OfferIsOurs'
    BY <1>6 DEF FetchManifest, Outcome
<1>7. ASSUME NEW k \in Checkers, FetchSignature(k) PROVE OfferIsOurs'
  <2>1. /\ \A j \in Checkers \ {k} : offer'[j] = offer[j]
        /\ offer'[k] # 0 => train[offer'[k]] = active
    BY <1>7, SignatureFetched DEF SameCheck
  <2>2. UNCHANGED <<train, active>>
    BY <1>7 DEF FetchSignature
  <2>3. QED
    BY <2>1, <2>2
<1>8. ASSUME NEW c \in Channels, SetChannel(c) PROVE OfferIsOurs'
    BY <1>8 DEF SetChannel
<1>9. CASE WorkerRestarts \/ WorkerDies
    BY <1>9 DEF WorkerRestarts, WorkerDies, Leave
<1>10. CASE Boot
    BY <1>10 DEF Boot, ResolveChannel
<1>11. CASE UNCHANGED vars
    BY <1>11 DEF vars
<1>12. QED
    BY <1>1, <1>2, <1>3, <1>4, <1>5, <1>6, <1>7, <1>8, <1>9, <1>10, <1>11
       DEF Next, Check

(* The inductive invariant holds in every reachable state. *)
LEMMA Invariance == Spec => []Inv
<1>1. Init => Inv
  <2> SUFFICES ASSUME Init PROVE Inv
    OBVIOUS
  <2> USE ChannelsAssumption, UpdateBoundsAssumption
  <2>1. /\ released \in 0..MaxReleases /\ train \in [Releases -> Channels]
        /\ pub \in [Channels -> 0..MaxReleases]
        /\ manifest \in [Channels -> 0..MaxReleases]
        /\ sig \in [Channels -> 0..MaxReleases]
    BY DEF Init
  <2>2. online \in BOOLEAN /\ up \in BOOLEAN /\ restart \in BOOLEAN
    BY DEF Init
  <2>3. /\ pref \in Channels \cup {None} /\ active \in Channels
        /\ boots \in 1..(MaxBoots + 1) /\ picks \in 0..MaxPicks
    BY DEF Init
  <2>4. /\ pc \in [Checkers -> {"idle", "manifest", "sig"}]
        /\ got \in [Checkers -> 0..MaxReleases]
        /\ offer \in [Checkers -> 0..MaxReleases]
        /\ code \in [Checkers -> Codes]
        /\ unsettled \subseteq Checkers
    BY DEF Init, Codes
  <2>5. FetchInv /\ NoFalseAlarm /\ OfferIsOurs
    BY DEF Init, FetchInv, NoFalseAlarm, OfferIsOurs
  <2>6. QED
    BY <2>1, <2>2, <2>3, <2>4, <2>5 DEF Inv, TypeOK
<1>2. Inv /\ [Next]_vars => Inv'
    BY TypeStep, FetchStep, AlarmStep, OfferStep DEF Inv
<1>3. QED
    BY <1>1, <1>2, PTL DEF Spec

(* Every variable keeps its type: no preference is ever something other     *)
(* than a channel, and no check holds a release there is not.               *)
THEOREM ChannelTypes == Spec => []TypeOK
<1>1. Inv => TypeOK
    BY DEF Inv
<1>2. QED
    BY <1>1, Invariance, PTL

(* A failed signature is reported only by a check that a publication        *)
(* overlapped: with any number of channels, checks and releases, the two    *)
(* files disagreed at some moment between its fetches.                      *)
THEOREM ForgeryIsNoAccident == Spec => []NoFalseAlarm
<1>1. Inv => NoFalseAlarm
    BY DEF Inv
<1>2. QED
    BY <1>1, Invariance, PTL

(* What a check offers was made for the channel the worker is on. *)
THEOREM OffersAreOurs == Spec => []OfferIsOurs
<1>1. Inv => OfferIsOurs
    BY DEF Inv
<1>2. QED
    BY <1>1, Invariance, PTL
=============================================================================
