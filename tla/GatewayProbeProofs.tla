------------------------- MODULE GatewayProbeProofs -------------------------
(***************************************************************************)
(* The crash count is honest for any number of concurrent probes, ports,   *)
(* falls of the gateway and changes of its address.                        *)
(***************************************************************************)
EXTENDS GatewayProbe, TLAPS

USE ProbeAssumption

(***************************************************************************)
(* Types.                                                                  *)
(***************************************************************************)
(* Every step of the environment, the resolver and the probes preserves the *)
(* types.                                                                   *)
LEMMA TypeStep ==
    ASSUME TypeOK, [Next]_vars
    PROVE  TypeOK'
<1> USE DEF TypeOK, env, cache, stored, locals, verdicts, ghosts
<1>1. CASE GatewayFalls
  <2>1. falls' = falls + 1 /\ falls < MaxFalls /\ falls \in 0..MaxFalls
    BY <1>1 DEF GatewayFalls
  <2>2. falls' \in 0..MaxFalls
    BY <2>1
  <2>3. gwUp' \in BOOLEAN
    BY <1>1, Zenon DEF GatewayFalls
  <2>4. QED
    BY <1>1, <2>2, <2>3 DEF GatewayFalls
<1>2. CASE GatewayRises
    BY <1>2 DEF GatewayRises
<1>3. CASE CliChanges
    BY <1>3 DEF CliChanges
<1>4. CASE ResolverAsks
    BY <1>4 DEF ResolverAsks, Usable
<1>5. CASE ResolverStores
    BY <1>5 DEF ResolverStores
<1>6. ASSUME NEW p \in Probers, ProbeBegins(p) PROVE TypeOK'
  <2>1. Discover \in BOOLEAN
    BY DEF Discover
  <2>2. QED
    BY <1>6, <2>1 DEF ProbeBegins
<1>7. ASSUME NEW p \in Probers, ProbeFast(p) PROVE TypeOK'
  <2> DEFINE ok == Reachable
  <2>1. ok \in BOOLEAN
    BY Zenon DEF Reachable
  <2>2. next' = [next EXCEPT ![p].alive = ok]
    BY <1>7 DEF ProbeFast
  <2> HIDE DEF ok
  <2>3. next' \in [Probers -> Snapshots]
    BY <2>1, <2>2 DEF Snapshots
  <2>4. older' \in [Probers -> SUBSET Probers]
    BY <1>7 DEF ProbeFast
  <2>5. pc' \in [Probers -> {"idle", "fast", "cli", "store"}]
    BY <1>7 DEF ProbeFast
  <2>6. found' \in [Probers -> BOOLEAN]
    <3> DEFINE n == NeedsEnrichment(next[p], Reachable)
    <3>1. (found[p] /\ n) \in BOOLEAN
      BY Zenon
    <3>2. found' = [found EXCEPT ![p] = found[p] /\ n]
      BY <1>7 DEF ProbeFast
    <3> HIDE DEF n
    <3>3. QED
      BY <3>1, <3>2
  <2>7. QED
    BY <1>7, <2>3, <2>4, <2>5, <2>6 DEF ProbeFast
<1>8. ASSUME NEW p \in Probers, ProbeCli(p) PROVE TypeOK'
  <2>1. PICK onPath \in BOOLEAN, ok \in BOOLEAN :
           next' = [next EXCEPT
                      ![p].missing  = BinaryMissing(found[p], onPath),
                      ![p].enriched = IF ok THEN "fresh" ELSE @]
    BY <1>8 DEF ProbeCli
  <2>2. BinaryMissing(found[p], onPath) \in BOOLEAN
    BY Zenon DEF BinaryMissing
  <2> DEFINE b == BinaryMissing(found[p], onPath)
             s == [next[p] EXCEPT !.missing = b,
                                  !.enriched = IF ok THEN "fresh" ELSE @]
  <2>3. next' \in [Probers -> Snapshots]
    <3>1. next[p] \in Snapshots
      OBVIOUS
    <3> HIDE DEF b
    <3>2. s \in Snapshots
      BY <2>2, <3>1 DEF Snapshots, Ages, b
    <3>3. next' = [next EXCEPT ![p] = s]
      BY <2>1 DEF b
    <3> HIDE DEF s
    <3>4. QED
      BY <3>2, <3>3
  <2>4. QED
    BY <1>8, <2>3 DEF ProbeCli
<1>9. ASSUME NEW p \in Probers, ProbeStores(p) PROVE TypeOK'
  <2>1. Unprobed \in Snapshots
    BY DEF Unprobed, Snapshots, Ages
  <2>2. crashes' \in Nat
    BY <1>9 DEF ProbeStores, Crashes
  <2>3. overtakes' \in Nat /\ overtaken' \subseteq Probers
    BY <1>9 DEF ProbeStores
  <2>4. older' \in [Probers -> SUBSET Probers]
    BY <1>9 DEF ProbeStores
  <2>5. snap' \in Snapshots /\ next' \in [Probers -> Snapshots]
    BY <1>9, <2>1 DEF ProbeStores
  <2>6. QED
    BY <1>9, <2>2, <2>3, <2>4, <2>5 DEF ProbeStores
<1>10. CASE EnrichmentAges
  <2> DEFINE Aged(s) == [s EXCEPT !.enriched = IF @ = "fresh" THEN "aged" ELSE @]
  <2>1. \A s \in Snapshots : Aged(s) \in Snapshots
    BY DEF Snapshots, Ages
  <2>2. snap' = Aged(snap) /\ next' = [p \in Probers |-> Aged(next[p])]
    BY <1>10 DEF EnrichmentAges
  <2> HIDE DEF Aged
  <2>3. snap' \in Snapshots /\ next' \in [Probers -> Snapshots]
    BY <2>1, <2>2
  <2>4. QED
    BY <1>10, <2>3 DEF EnrichmentAges
<1>11. CASE UNCHANGED vars
    BY <1>11 DEF vars
<1>12. QED
    BY <1>1, <1>2, <1>3, <1>4, <1>5, <1>6, <1>7, <1>8, <1>9, <1>10, <1>11
       DEF Next, ProbeNow

(* The Snapshot, the caches and the probes keep their types, and an address *)
(* that is cached can be dialled.                                           *)
THEOREM ProbeTypes == Spec => []TypeOK
<1>1. Init => TypeOK
    BY DEF Init, TypeOK, Unprobed, Snapshots, Ages
<1>2. QED
    BY <1>1, TypeStep, PTL DEF Spec

(***************************************************************************)
(* The crash count.                                                        *)
(***************************************************************************)
(* A drop from a to c is one from a to b or one from b to c, never both. *)
LEMMA DropFacts ==
    /\ \A a, b : Drop(a, b) \in {0, 1}
    /\ \A a \in BOOLEAN : Drop(a, a) = 0
    /\ \A a, b, c \in BOOLEAN : /\ Drop(a, c) <= Drop(a, b) + Drop(b, c)
                              /\ Drop(a, b) + Drop(b, c) <= 1
<1>1. \A a, b : Drop(a, b) \in {0, 1}
    BY DEF Drop
<1>2. \A a \in BOOLEAN : Drop(a, a) = 0
    BY DEF Drop
<1>3. \A a, b, c \in BOOLEAN : /\ Drop(a, c) <= Drop(a, b) + Drop(b, c)
                            /\ Drop(a, b) + Drop(b, c) <= 1
    BY DEF Drop
<1>4. QED
    BY <1>1, <1>2, <1>3

(* Values of the type that the proofs below compare. *)
LEMMA VerdictTypes ==
    ASSUME TypeOK
    PROVE  /\ Reachable \in BOOLEAN /\ snap.alive \in BOOLEAN
           /\ \A p \in Probers : next[p].alive \in BOOLEAN
           /\ falls \in Nat /\ misled \in Nat /\ crashes \in Nat /\ overtakes \in Nat
<1>1. Reachable \in BOOLEAN
    BY Zenon DEF Reachable
<1>2. QED
    BY <1>1 DEF TypeOK, Snapshots

(* A step that neither reaches nor stores a verdict may make the gateway    *)
(* unreachable only if that counts as a drop.                               *)
LEMMA DropsAreCounted ==
    ASSUME TypeOK, TypeOK', CountInv(Nat),
           UNCHANGED <<crashes, older, overtaken, overtakes>>,
           Pending' = Pending, snap'.alive = snap.alive,
           \A p \in Pending : next'[p].alive = next[p].alive,
           falls + misled <= falls' + misled',
           Reachable /\ ~Reachable' => falls + misled < falls' + misled'
    PROVE  CountInv(Nat)'
<1>1. OlderInv'
    BY DEF CountInv, OlderInv
<1>2. PICK drops \in [Probers -> Nat], newest \in [alive : BOOLEAN, drops : Nat] :
         Explained(drops, newest)
    BY DEF CountInv
<1>3. Explained(drops, newest)'
  <2> DEFINE D  == falls + misled
             D2 == falls' + misled'
  <2>1. D \in Nat /\ D2 \in Nat
    <3>1. falls' \in Nat /\ misled' \in Nat
      BY DEF TypeOK
    <3>2. falls \in Nat /\ misled \in Nat
      BY VerdictTypes
    <3>3. \A m, n \in Nat : m + n \in Nat
      OBVIOUS
    <3>4. QED
      BY <3>1, <3>2, <3>3, Zenon
  <2>2. D <= D2 /\ (Reachable /\ ~Reachable' => D < D2)
    OBVIOUS
  <2>3. ASSUME NEW n \in Nat, NEW a \in BOOLEAN, n + Drop(a, Reachable) <= D
        PROVE  n + Drop(a, Reachable') <= D2
    <3> HIDE DEF D, D2
    <3>1. CASE Reachable /\ ~Reachable'
      BY <2>1, <2>2, <2>3, <3>1 DEF Drop
    <3>2. CASE ~Reachable \/ Reachable'
      BY <2>1, <2>2, <2>3, <3>2 DEF Drop
    <3>3. QED
      BY <3>1, <3>2
  <2>4. newest.drops + Drop(newest.alive, Reachable') <= D2
    BY <1>2, <2>3 DEF Explained
  <2>5. ASSUME NEW p \in Pending
        PROVE  /\ drops[p] + Drop(next'[p].alive, Reachable') <= D2
               /\ p \notin overtaken'
                    => newest.drops + Drop(newest.alive, next'[p].alive) <= drops[p]
               /\ \A q \in older'[p] :
                    drops[q] + Drop(next'[q].alive, next'[p].alive) <= drops[p]
    <3>1. p \in Probers /\ next[p].alive \in BOOLEAN
      BY VerdictTypes DEF Pending
    <3>2. drops[p] + Drop(next[p].alive, Reachable) <= D
      BY <1>2 DEF Explained
    <3>3. drops[p] + Drop(next[p].alive, Reachable') <= D2
      BY <2>3, <3>1, <3>2
    <3>4. \A q \in older[p] : q \in Pending
      BY <3>1 DEF CountInv, OlderInv
    <3>5. QED
      BY <1>2, <3>3, <3>4 DEF Explained
  <2>6. crashes' + Drop(snap'.alive, newest.alive) <= newest.drops + overtakes'
    BY <1>2 DEF Explained
  <2>7. QED
    BY <2>4, <2>5, <2>6 DEF Explained
<1>4. QED
    BY <1>1, <1>2, <1>3 DEF CountInv

(* A verdict is reached: it is newer than every other. *)
LEMMA VerdictReached ==
    ASSUME TypeOK, CountInv(Nat), NEW p \in Probers, ProbeFast(p)
    PROVE  CountInv(Nat)'
<1> DEFINE ok == Reachable
           D  == falls + misled
<1>1. /\ pc[p] = "fast" /\ next' = [next EXCEPT ![p].alive = ok]
      /\ older' = [older EXCEPT ![p] = Pending]
      /\ UNCHANGED <<snap, crashes, overtaken, overtakes, falls, misled, gwUp, addr, port>>
    BY DEF ProbeFast, env, cache, stored, Pending
<1>2. Pending' = Pending \cup {p} /\ p \notin Pending
  <2>1. \E place \in {"cli", "store"} : pc' = [pc EXCEPT ![p] = place]
    BY DEF ProbeFast
  <2>2. QED
    BY <1>1, <2>1 DEF Pending, HasVerdict, TypeOK
<1>3. Reachable' = Reachable
    BY <1>1 DEF Reachable
<1>4. /\ D \in Nat /\ ok \in BOOLEAN
      /\ \A q \in Probers : next[q].alive \in BOOLEAN
    BY VerdictTypes
<1>5. next'[p].alive = ok /\ \A q \in Probers \ {p} : next'[q] = next[q]
  <2> HIDE DEF ok
  <2> QED
    BY <1>1 DEF TypeOK, Snapshots
<1>6. /\ \A q \in Probers : older[q] \subseteq Pending \ {q}
      /\ older'[p] = Pending /\ \A q \in Probers \ {p} : older'[q] = older[q]
    BY <1>1 DEF CountInv, OlderInv, TypeOK
<1>7. OlderInv'
  <2>1. \A q \in Probers : older'[q] \subseteq Pending' \ {q}
    BY <1>2, <1>6
  <2>2. \A q, r \in Pending' : q # r => q \in older'[r] \/ r \in older'[q]
    <3>1. Pending \subseteq Probers
      BY DEF Pending
    <3>2. \A q, r \in Pending : q # r => q \in older[r] \/ r \in older[q]
      BY DEF CountInv, OlderInv
    <3>3. QED
      BY <1>2, <1>6, <3>1, <3>2
  <2>3. QED
    BY <2>1, <2>2 DEF OlderInv
<1>8. PICK drops \in [Probers -> Nat], newest \in [alive : BOOLEAN, drops : Nat] :
         Explained(drops, newest)
    BY DEF CountInv
<1>9. PICK drops2 \in [Probers -> Nat] :
         drops2[p] = D /\ \A q \in Probers \ {p} : drops2[q] = drops[q]
  <2> HIDE DEF D
  <2>1. [drops EXCEPT ![p] = D] \in [Probers -> Nat]
    BY <1>4
  <2>2. QED
    BY <2>1
<1>10. Explained(drops2, newest)'
  <2>1. newest.drops + Drop(newest.alive, ok) <= D
    BY <1>8 DEF Explained
  <2>2. \A q \in Pending : /\ drops[q] + Drop(next[q].alive, ok) <= D
                          /\ q \in Probers \ {p}
    BY <1>2, <1>8 DEF Explained, Pending
  <2>3. ASSUME NEW q \in Pending'
        PROVE  /\ drops2[q] + Drop(next'[q].alive, Reachable') <= D
               /\ q \notin overtaken'
                    => newest.drops + Drop(newest.alive, next'[q].alive) <= drops2[q]
               /\ \A r \in older'[q] :
                    drops2[r] + Drop(next'[r].alive, next'[q].alive) <= drops2[q]
    <3>1. CASE q = p
      <4>1. Drop(ok, ok) = 0
        BY <1>4, DropFacts
      <4>2. drops2[q] + Drop(next'[q].alive, Reachable') <= D
        BY <1>3, <1>4, <1>5, <1>9, <3>1, <4>1
      <4>3. QED
        BY <1>5, <1>6, <1>9, <2>1, <2>2, <3>1, <4>2
    <3>2. CASE q # p
      <4>1. q \in Pending /\ q \in Probers \ {p}
        BY <1>2, <2>2, <3>2
      <4>2. \A r \in older'[q] : r \in older[q] /\ r \in Pending /\ r \in Probers \ {p}
        BY <1>6, <2>2, <4>1
      <4>3. QED
        BY <1>1, <1>3, <1>5, <1>8, <1>9, <4>1, <4>2 DEF Explained
    <3>3. QED
      BY <3>1, <3>2
  <2>4. crashes' + Drop(snap'.alive, newest.alive) <= newest.drops + overtakes'
    BY <1>1, <1>8 DEF Explained
  <2>5. newest.drops + Drop(newest.alive, Reachable') <= falls' + misled'
    BY <1>1, <1>3, <2>1
  <2>6. falls' + misled' = D
    BY <1>1
  <2> HIDE DEF D, ok
  <2>7. QED
    BY <2>3, <2>4, <2>5, <2>6 DEF Explained
<1>11. QED
    BY <1>7, <1>8, <1>9, <1>10 DEF CountInv

(* A verdict is stored. In order, it becomes the newest one, and a crash it *)
(* counts is a drop since the newest before it; out of order, it counts one *)
(* crash or leaves one to be counted by the next store, and is an overtake. *)
LEMMA VerdictStored ==
    ASSUME TypeOK, CountInv(Nat), NEW p \in Probers, ProbeStores(p)
    PROVE  CountInv(Nat)'
<1> DEFINE a == next[p].alive
<1>1. /\ pc[p] = "store" /\ pc' = [pc EXCEPT ![p] = "idle"]
      /\ next' = [next EXCEPT ![p] = Unprobed]
      /\ overtaken' = (overtaken \cup older[p]) \ {p}
      /\ older' = [q \in Probers |-> IF q = p THEN {} ELSE older[q] \ {p}]
      /\ overtakes' = IF p \in overtaken THEN overtakes + 1 ELSE overtakes
      /\ UNCHANGED <<falls, misled, gwUp, addr, port>>
    BY DEF ProbeStores, env, cache
<1>2. Pending' = Pending \ {p} /\ p \in Pending /\ Pending \subseteq Probers
    BY <1>1 DEF Pending, HasVerdict, TypeOK
<1>3. Reachable' = Reachable /\ falls' + misled' = falls + misled
    BY <1>1 DEF Reachable
<1>4. /\ crashes \in Nat /\ overtakes \in Nat /\ snap.alive \in BOOLEAN
      /\ \A q \in Probers : next[q].alive \in BOOLEAN
    BY VerdictTypes
<1>5. /\ snap'.alive = a /\ crashes' = crashes + Drop(snap.alive, a)
      /\ \A q \in Probers \ {p} : next'[q] = next[q]
  <2>1. snap'.alive = a
    BY DEF ProbeStores
  <2>2. crashes' = crashes + Drop(snap.alive, a)
    BY <1>4 DEF ProbeStores, Crashes, Drop
  <2>3. \A q \in Probers \ {p} : next'[q] = next[q]
    BY <1>1 DEF TypeOK
  <2>4. QED
    BY <2>1, <2>2, <2>3
<1>6. /\ \A q \in Probers : older[q] \subseteq Pending \ {q}
      /\ \A q, r \in Pending : q # r => q \in older[r] \/ r \in older[q]
    BY DEF CountInv, OlderInv
<1>7. \A q \in Probers : older'[q] = IF q = p THEN {} ELSE older[q] \ {p}
    BY <1>1
<1>8. OlderInv'
  <2>1. ASSUME NEW q \in Probers PROVE older'[q] \subseteq Pending' \ {q}
    <3>1. CASE q = p
      BY <1>7, <3>1
    <3>2. CASE q # p
      <4>1. older'[q] = older[q] \ {p} /\ older[q] \subseteq Pending \ {q}
        BY <1>6, <1>7, <3>2
      <4>2. QED
        BY <1>2, <4>1
    <3>3. QED
      BY <3>1, <3>2
  <2>2. ASSUME NEW q \in Pending', NEW r \in Pending', q # r
        PROVE  q \in older'[r] \/ r \in older'[q]
    <3>1. q \in Pending /\ r \in Pending /\ q # p /\ r # p /\ q \in Probers /\ r \in Probers
      BY <1>2
    <3>2. older'[q] = older[q] \ {p} /\ older'[r] = older[r] \ {p}
      BY <1>7, <3>1
    <3>3. q \in older[r] \/ r \in older[q]
      BY <1>6, <2>2, <3>1
    <3>4. QED
      BY <3>1, <3>2, <3>3
  <2>3. QED
    BY <2>1, <2>2 DEF OlderInv
<1>9. PICK drops \in [Probers -> Nat], newest \in [alive : BOOLEAN, drops : Nat] :
         Explained(drops, newest)
    BY DEF CountInv
<1>10. /\ a \in BOOLEAN /\ newest.alive \in BOOLEAN /\ newest.drops \in Nat
       /\ drops[p] \in Nat
    BY <1>4
<1>11. crashes + Drop(snap.alive, newest.alive) <= newest.drops + overtakes
    BY <1>9 DEF Explained
(* The verdicts still waiting, against the drops so far and one another. *)
<1>12. ASSUME NEW q \in Pending'
       PROVE  /\ q \in Pending /\ q \in Probers \ {p} /\ next'[q].alive = next[q].alive
              /\ drops[q] + Drop(next'[q].alive, Reachable') <= falls' + misled'
              /\ \A r \in older'[q] :
                   drops[r] + Drop(next'[r].alive, next'[q].alive) <= drops[q]
  <2>1. q \in Pending /\ q \in Probers \ {p}
    BY <1>2
  <2>2. next'[q].alive = next[q].alive
    BY <1>5, <2>1
  <2>3. drops[q] + Drop(next[q].alive, Reachable) <= falls + misled
    BY <1>9, <2>1 DEF Explained
  <2>4. \A r \in older'[q] : r \in older[q] /\ r \in Probers \ {p}
    <3>1. older'[q] = older[q] \ {p}
      BY <1>7, <2>1
    <3>2. older[q] \subseteq Probers
      BY <1>2, <1>6, <2>1
    <3>3. QED
      BY <3>1, <3>2
  <2>5. \A r \in older[q] : drops[r] + Drop(next[r].alive, next[q].alive) <= drops[q]
    BY <1>9, <2>1 DEF Explained
  <2>6. \A r \in older'[q] :
           drops[r] + Drop(next'[r].alive, next'[q].alive) <= drops[q]
    BY <1>5, <2>2, <2>4, <2>5
  <2>7. QED
    BY <1>3, <2>1, <2>2, <2>3, <2>6
<1>13. CASE p \notin overtaken
  <2>1. PICK newest2 \in [alive : BOOLEAN, drops : Nat] :
           newest2.alive = a /\ newest2.drops = drops[p]
    <3>1. [alive |-> a, drops |-> drops[p]] \in [alive : BOOLEAN, drops : Nat]
      BY <1>10
    <3> HIDE DEF a
    <3>2. QED
      BY <3>1
  <2>2. /\ drops[p] + Drop(a, Reachable) <= falls + misled
        /\ newest.drops + Drop(newest.alive, a) <= drops[p]
    BY <1>2, <1>9, <1>13 DEF Explained
  <2>3. ASSUME NEW q \in Pending', q \notin overtaken'
        PROVE  newest2.drops + Drop(newest2.alive, next'[q].alive) <= drops[q]
    <3>1. q \in Pending /\ q # p /\ next'[q].alive = next[q].alive
      BY <1>12
    <3>2. p \in older[q]
      BY <1>1, <1>2, <1>6, <2>3, <3>1
    <3>3. drops[p] + Drop(a, next[q].alive) <= drops[q]
      BY <1>9, <3>1, <3>2 DEF Explained
    <3>4. QED
      BY <2>1, <3>1, <3>3
  <2>4. crashes' + Drop(snap'.alive, newest2.alive) <= newest2.drops + overtakes'
    <3>1. Drop(a, a) = 0
      BY <1>10, DropFacts
    <3>2. Drop(snap.alive, a) <= Drop(snap.alive, newest.alive) + Drop(newest.alive, a)
      BY <1>4, <1>10, DropFacts
    <3>3. /\ Drop(snap.alive, a) \in Nat /\ Drop(snap.alive, newest.alive) \in Nat
          /\ Drop(newest.alive, a) \in Nat
      BY DEF Drop
    <3>4. crashes + Drop(snap.alive, a) <= drops[p] + overtakes
      BY <1>4, <1>10, <1>11, <2>2, <3>2, <3>3
    <3>5. overtakes' = overtakes
      BY <1>1, <1>13
    <3> HIDE DEF a
    <3>6. QED
      BY <1>4, <1>5, <1>10, <2>1, <3>1, <3>3, <3>4, <3>5
  <2>5. newest2.drops + Drop(newest2.alive, Reachable') <= falls' + misled'
    BY <1>3, <2>1, <2>2
  <2>6. Explained(drops, newest2)'
    BY <1>12, <2>3, <2>4, <2>5 DEF Explained
  <2>7. QED
    BY <1>8, <1>9, <2>1, <2>6 DEF CountInv
<1>14. CASE p \in overtaken
  <2>1. newest.drops + Drop(newest.alive, Reachable') <= falls' + misled'
    BY <1>3, <1>9 DEF Explained
  <2>2. ASSUME NEW q \in Pending', q \notin overtaken'
        PROVE  newest.drops + Drop(newest.alive, next'[q].alive) <= drops[q]
    <3>1. q \in Pending /\ q # p /\ next'[q].alive = next[q].alive
      BY <1>12
    <3>2. q \notin overtaken
      BY <1>1, <2>2, <3>1
    <3>3. QED
      BY <1>9, <3>1, <3>2 DEF Explained
  <2>3. crashes' + Drop(snap'.alive, newest.alive) <= newest.drops + overtakes'
    <3>1. Drop(snap.alive, a) + Drop(a, newest.alive) <= 1
      BY <1>4, <1>10, DropFacts
    <3>2. /\ Drop(snap.alive, a) \in Nat /\ Drop(snap.alive, newest.alive) \in Nat
          /\ Drop(a, newest.alive) \in Nat
      BY DEF Drop
    <3>3. overtakes' = overtakes + 1
      BY <1>1, <1>14
    <3> HIDE DEF a
    <3>4. QED
      BY <1>4, <1>5, <1>10, <1>11, <3>1, <3>2, <3>3
  <2>4. Explained(drops, newest)'
    BY <1>12, <2>1, <2>2, <2>3 DEF Explained
  <2>5. QED
    BY <1>8, <1>9, <2>4 DEF CountInv
<1>15. QED
    BY <1>13, <1>14

(* Every step keeps the numbers that explain the count. *)
LEMMA CountStep ==
    ASSUME TypeOK, CountInv(Nat), [Next]_vars
    PROVE  CountInv(Nat)'
<1>1. TypeOK'
    BY TypeStep
<1>2. falls \in Nat /\ misled \in Nat
    BY VerdictTypes
<1> USE DEF env, cache, stored, locals, verdicts, ghosts
<1>3. CASE GatewayFalls
  <2>1. /\ UNCHANGED <<crashes, snap, older, overtaken, overtakes, pc, next, misled>>
        /\ falls' = falls + 1
    BY <1>3 DEF GatewayFalls
  <2>2. Pending' = Pending
    BY <2>1 DEF Pending, HasVerdict
  <2>3. falls + misled < falls' + misled'
    BY <1>2, <2>1
  <2>4. falls + misled <= falls' + misled'
    BY <1>2, <2>1
  <2>5. QED
    BY <1>1, <2>1, <2>2, <2>3, <2>4, DropsAreCounted
<1>4. CASE GatewayRises
  <2>1. UNCHANGED <<crashes, snap, older, overtaken, overtakes, pc, next, falls, misled>>
    BY <1>4 DEF GatewayRises
  <2>2. Pending' = Pending
    BY <2>1 DEF Pending, HasVerdict
  <2>3. ~Reachable
    BY <1>4 DEF GatewayRises, Reachable
  <2>4. falls + misled <= falls' + misled'
    BY <1>2, <2>1
  <2>5. QED
    BY <1>1, <2>1, <2>2, <2>3, <2>4, DropsAreCounted
<1>5. CASE ResolverStores
  <2>1. /\ UNCHANGED <<crashes, snap, older, overtaken, overtakes, pc, next, falls>>
        /\ misled' = IF answer # port THEN misled + 1 ELSE misled
        /\ addr' = answer /\ port' = port /\ gwUp' = gwUp
    BY <1>5 DEF ResolverStores
  <2>2. Pending' = Pending
    BY <2>1 DEF Pending, HasVerdict
  <2>3. Reachable /\ ~Reachable' => answer # port
    BY <2>1 DEF Reachable
  <2>4. Reachable /\ ~Reachable' => falls + misled < falls' + misled'
    BY <1>2, <2>1, <2>3
  <2>5. falls + misled <= falls' + misled'
    BY <1>2, <2>1
  <2>6. QED
    BY <1>1, <2>1, <2>2, <2>4, <2>5, DropsAreCounted
(* The steps that neither move the gateway, nor the address, nor a verdict. *)
<1>6. ASSUME UNCHANGED <<gwUp, port, addr, falls, misled, crashes, older,
                         overtaken, overtakes>>,
             Pending' = Pending, snap'.alive = snap.alive,
             \A p \in Pending : next'[p].alive = next[p].alive
      PROVE  CountInv(Nat)'
  <2>1. Reachable' = Reachable
    BY <1>6 DEF Reachable
  <2>2. falls + misled <= falls' + misled'
    BY <1>2, <1>6
  <2>3. QED
    BY <1>1, <1>6, <2>1, <2>2, DropsAreCounted
<1>7. CASE CliChanges
    BY <1>6, <1>7 DEF CliChanges, Pending, HasVerdict
<1>8. CASE ResolverAsks
    BY <1>6, <1>8 DEF ResolverAsks, Pending, HasVerdict
<1>9. ASSUME NEW p \in Probers, ProbeBegins(p) PROVE CountInv(Nat)'
  <2>1. Pending' = Pending /\ p \notin Pending
    BY <1>9 DEF ProbeBegins, Pending, HasVerdict, TypeOK
  <2>2. \A q \in Pending : next'[q].alive = next[q].alive
    BY <1>9, <2>1 DEF ProbeBegins, Pending, TypeOK
  <2>3. QED
    BY <1>6, <1>9, <2>1, <2>2 DEF ProbeBegins
<1>10. ASSUME NEW p \in Probers, ProbeCli(p) PROVE CountInv(Nat)'
  <2>1. Pending' = Pending
    BY <1>10 DEF ProbeCli, Pending, HasVerdict, TypeOK
  <2>2. PICK missing, enriched :
           next' = [next EXCEPT ![p].missing = missing, ![p].enriched = enriched]
    BY <1>10 DEF ProbeCli
  <2>3. \A q \in Probers : next'[q].alive = next[q].alive
    BY <2>2 DEF TypeOK, Snapshots
  <2>4. QED
    BY <1>6, <1>10, <2>1, <2>3 DEF ProbeCli, Pending
<1>11. CASE EnrichmentAges
  <2>1. Pending' = Pending
    BY <1>11 DEF EnrichmentAges, Pending, HasVerdict
  <2>2. snap'.alive = snap.alive
    BY <1>11 DEF EnrichmentAges, TypeOK, Snapshots
  <2>3. \A q \in Probers : next'[q].alive = next[q].alive
    BY <1>11 DEF EnrichmentAges, TypeOK, Snapshots
  <2>4. QED
    BY <1>6, <1>11, <2>1, <2>2, <2>3 DEF EnrichmentAges, Pending
<1>12. CASE UNCHANGED vars
    BY <1>6, <1>12 DEF vars, Pending, HasVerdict
<1>13. QED
    BY <1>3, <1>4, <1>5, <1>7, <1>8, <1>9, <1>10, <1>11, <1>12,
       VerdictReached, VerdictStored DEF Next, ProbeNow

(* CrashCount never exceeds what happened: however many probes overlap and  *)
(* in whichever order they store what they found, each crash counted is a   *)
(* fall of the gateway, a stale address or a verdict stored out of order.   *)
THEOREM CrashesAreExplained == Spec => []CrashCountHonest
<1>1. Init => TypeOK /\ CountInv(Nat)
  <2> SUFFICES ASSUME Init PROVE TypeOK /\ CountInv(Nat)
    OBVIOUS
  <2>1. TypeOK
    BY DEF Init, TypeOK, Unprobed, Snapshots, Ages
  <2>2. Pending = {}
    BY DEF Init, Pending, HasVerdict
  <2>3. OlderInv
    BY <2>2 DEF OlderInv, Init
  <2> DEFINE none == [p \in Probers |-> 0]
             down == [alive |-> FALSE, drops |-> 0]
  <2>4. none \in [Probers -> Nat] /\ down \in [alive : BOOLEAN, drops : Nat]
    OBVIOUS
  <2>5. Explained(none, down)
    BY <2>2 DEF Explained, Init, Drop, Unprobed
  <2>6. QED
    BY <2>1, <2>3, <2>4, <2>5 DEF CountInv
<1>2. TypeOK /\ CountInv(Nat) /\ [Next]_vars => TypeOK' /\ CountInv(Nat)'
    BY TypeStep, CountStep
<1>3. TypeOK /\ CountInv(Nat) => CrashCountHonest
  <2> SUFFICES ASSUME TypeOK, CountInv(Nat) PROVE CrashCountHonest
    OBVIOUS
  <2>1. PICK drops \in [Probers -> Nat], newest \in [alive : BOOLEAN, drops : Nat] :
           Explained(drops, newest)
    BY DEF CountInv
  <2>2. /\ newest.drops + Drop(newest.alive, Reachable) <= falls + misled
        /\ crashes + Drop(snap.alive, newest.alive) <= newest.drops + overtakes
    BY <2>1 DEF Explained
  <2>3. newest.drops \in Nat
    BY <2>1
  <2>4. Drop(newest.alive, Reachable) \in Nat /\ Drop(snap.alive, newest.alive) \in Nat
    BY DEF Drop
  <2>5. QED
    BY <2>2, <2>3, <2>4, VerdictTypes DEF CrashCountHonest
<1>4. QED
    BY <1>1, <1>2, <1>3, PTL DEF Spec
=============================================================================
