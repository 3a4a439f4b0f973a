---------------------------- MODULE ClockProofs ----------------------------
(***************************************************************************)
(* The supervisor's two policies on a real clock. The health gate judges   *)
(* fairly and on time for every window, stability requirement, timer floor *)
(* and timer lateness allowed by GateAssumption; the crash tracker counts  *)
(* the current burst and delays the next spawn in proportion for every     *)
(* policy allowed by its own assumptions.                                  *)
(***************************************************************************)
EXTENDS HealthGate, CrashTracker, SequenceTheorems, FiniteSetTheorems, TLAPS

(***************************************************************************)
(* The crash tracker, for every policy.                                    *)
(***************************************************************************)
(* Induction over the naturals without a predicate as a parameter: a set    *)
(* that misses n could be moved by one into a proper subset of itself.      *)
LEMMA SetInduction ==
    ASSUME NEW T, 0 \in T, \A i \in Nat : i \in T => i + 1 \in T
    PROVE  Nat \subseteq T
<1> SUFFICES ASSUME NEW n \in Nat, n \notin T PROVE FALSE
    OBVIOUS
<1> DEFINE A == {i \in 0..n : i \in T}
           f == [i \in A |-> i + 1]
<1>1. IsFiniteSet(A)
  <2>1. IsFiniteSet(0..n)
    BY FS_Interval
  <2>2. QED
    BY <2>1, FS_Subset
<1>2. 0 \in A
    OBVIOUS
<1>3. IsFiniteSet(A \ {0}) /\ Cardinality(A \ {0}) = Cardinality(A) - 1
    BY <1>1, <1>2, FS_RemoveElement
<1>4. f \in Injection(A, A \ {0})
  <2>1. \A i \in A : i + 1 \in A \ {0}
    OBVIOUS
  <2>2. \A i, j \in A : i # j => i + 1 # j + 1
    OBVIOUS
  <2>3. QED
    BY <2>1, <2>2 DEF Injection, IsInjective
<1>5. Cardinality(A) <= Cardinality(A \ {0})
    BY <1>1, <1>3, <1>4, FS_Injection
<1>6. Cardinality(A) \in Nat
    BY <1>1, FS_CardinalityType
<1>7. QED
    BY <1>3, <1>5, <1>6

(* What Trim keeps: the end of the sequence, from the first timestamp that  *)
(* is in the window.                                                        *)
LEMMA TrimKeeps ==
    ASSUME NEW s \in Seq(Nat), NEW t \in Nat, Len(s) > 0, s[Len(s)] = t
    PROVE  \E first \in 1..Len(s) :
              /\ Trim(s, t) = SubSeq(s, first, Len(s))
              /\ s[first] >= t - CrashWindow
              /\ \A j \in 1..(first - 1) : s[j] < t - CrashWindow
<1> DEFINE First(i) == /\ s[i] >= t - CrashWindow
                       /\ \A j \in 1..(i - 1) : s[j] < t - CrashWindow
           n == Len(s)
           T == {i \in Nat : \A j \in 1..i : j <= n => s[j] < t - CrashWindow}
<1>0. CrashWindow \in Nat /\ n \in Nat \ {0} /\ \A j \in 1..n : s[j] \in Nat
    BY PolicyAssumption
<1>1. \E i \in 1..n : First(i)
  <2> SUFFICES ASSUME \A i \in 1..n : ~First(i) PROVE FALSE
    OBVIOUS
  <2>1. 0 \in T
    OBVIOUS
  <2>2. ASSUME NEW i \in Nat, i \in T PROVE i + 1 \in T
    <3>1. SUFFICES ASSUME i + 1 <= n PROVE s[i + 1] < t - CrashWindow
      BY <1>0, <2>2
    <3>2. i + 1 \in 1..n /\ ~First(i + 1) /\ s[i + 1] \in Nat
      BY <1>0, <3>1
    <3>3. \A j \in 1..(i + 1 - 1) : s[j] < t - CrashWindow
      BY <1>0, <2>2, <3>1
    <3>4. QED
      BY <1>0, <3>2, <3>3
  <2>3. Nat \subseteq T
    <3> HIDE DEF T
    <3> QED
      BY <2>1, <2>2, SetInduction
  <2>4. n \in T /\ n \in 1..n
    <3> HIDE DEF T, n
    <3> QED
      BY <1>0, <2>3
  <2>5. s[n] < t - CrashWindow
    BY <1>0, <2>4
  <2>6. QED
    BY <1>0, <2>5
<1>2. PICK first \in 1..n : first = CHOOSE i \in 1..n : First(i)
    BY <1>1
<1>3. First(first)
    BY <1>1, <1>2
<1>4. Trim(s, t) = SubSeq(s, first, n)
    BY <1>2 DEF Trim
<1>5. QED
    BY <1>3, <1>4

(* Delay stays between the shorter of Base and Max, and Max, however many   *)
(* crashes there were.                                                      *)
LEMMA NominalInRange ==
    ASSUME NEW n \in Nat \ {0}
    PROVE  /\ Nominal(n) \in Nat
           /\ Shortest <= Nominal(n) /\ Nominal(n) <= Max
<1> DEFINE shift == IF n - 1 > Width - 2 THEN Width - 2 ELSE n - 1
           d     == Shifted(shift)
<1>0. Width \in Nat \ {0, 1, 2} /\ Base \in Nat \ {0} /\ Max \in Nat \ {0}
    BY PolicyAssumption
<1>1. shift \in 0..(Width - 2)
    BY <1>0
<1>2. d \in Int
  <2>1. Half \in Nat \ {0}
    BY ShiftAssumption
  <2>2. Base * 2^shift \in Int
    BY <1>0, <1>1
  <2> HIDE DEF shift
  <2>3. QED
    BY <2>1, <2>2 DEF Shifted, Signed
<1>3. d <= 0 \/ d >= Shortest
    BY <1>1, ShiftAssumption
<1>4. Nominal(n) = IF d <= 0 \/ d > Max THEN Max ELSE d
    BY DEF Nominal
<1>5. Shortest \in Nat /\ Shortest <= Max
    BY <1>0 DEF Shortest
<1> HIDE DEF d
<1>6. QED
    BY <1>0, <1>2, <1>3, <1>4, <1>5

(* jitter scales by at least 0.8 and by less than 1.2, rounding down. *)
LEMMA JitterInRange ==
    ASSUME NEW d \in Nat, NEW x \in Jitter(d)
    PROVE  x \in Nat /\ x * 10 >= 8 * d - 9 /\ x * 10 <= 11 * d
<1>1. PICK numer \in 8..11 : x = (d * numer) \div 10
    BY DEF Jitter
<1>2. \/ x = (d * 8) \div 10 \/ x = (d * 9) \div 10
      \/ x = (d * 10) \div 10 \/ x = (d * 11) \div 10
    BY <1>1
<1>3. QED
    BY <1>2

(* What RecordCrash keeps: a new crash after what was carried, from the     *)
(* first that is within the window.                                         *)
LEMMA CrashKeeps ==
    ASSUME TrackerTypeOK
    PROVE  LET all  == Append(Carried, now)
               kept == Trim(all, now)
           IN  /\ Carried \in Seq(Nat) /\ all \in Seq(Nat)
               /\ Len(all) = Len(Carried) + 1
               /\ kept \in Seq(Nat) /\ Len(kept) \in 1..Len(all)
               /\ \A i \in 1..Len(kept) : kept[i] = all[Len(all) - Len(kept) + i]
               /\ kept[1] >= now - CrashWindow
               /\ Len(kept) < Len(all) => all[Len(all) - Len(kept)] < now - CrashWindow
<1> DEFINE all == Append(Carried, now)
           n   == Len(all)
           kept == Trim(all, now)
<1>1. now \in Nat /\ Carried \in Seq(Nat)
    BY DEF TrackerTypeOK, Carried
<1>2. /\ all \in Seq(Nat) /\ n = Len(Carried) + 1 /\ n > 0 /\ n \in Nat
      /\ all[n] = now
    BY <1>1
<1> HIDE DEF all
<1>3. PICK first \in 1..n :
         /\ kept = SubSeq(all, first, n)
         /\ all[first] >= now - CrashWindow
         /\ \A j \in 1..(first - 1) : all[j] < now - CrashWindow
    BY <1>1, <1>2, TrimKeeps
<1>4. /\ kept \in Seq(Nat) /\ Len(kept) = n - first + 1
      /\ \A i \in 1..Len(kept) : kept[i] = all[first + i - 1]
  <2> HIDE DEF kept
  <2>1. first \in Int /\ n \in Int /\ 1 <= first /\ first <= n
    BY <1>2
  <2>2. \A i \in first..n : all[i] \in Nat
    BY <1>2, <2>1
  <2> HIDE DEF n
  <2>3. /\ SubSeq(all, first, n) \in Seq(Nat)
        /\ Len(SubSeq(all, first, n)) = n - first + 1
        /\ \A i \in 1..(n - first + 1) : SubSeq(all, first, n)[i] = all[first + i - 1]
    BY <2>1, <2>2, SubSeqProperties
  <2>4. QED
    BY <1>3, <2>3
<1> HIDE DEF kept
<1>5. Len(kept) \in 1..n /\ first = n - Len(kept) + 1
    BY <1>2, <1>4
<1>6. ASSUME NEW i \in 1..Len(kept) PROVE kept[i] = all[n - Len(kept) + i]
  <2>1. first + i - 1 = n - Len(kept) + i
    BY <1>2, <1>5
  <2>2. QED
    BY <1>4, <2>1
<1>7. kept[1] >= now - CrashWindow
    BY <1>3, <1>4, <1>5
<1>8. ASSUME Len(kept) < n PROVE all[n - Len(kept)] < now - CrashWindow
  <2>1. n - Len(kept) = first - 1 /\ first - 1 \in 1..(first - 1)
    BY <1>2, <1>5, <1>8
  <2>2. QED
    BY <1>3, <2>1
<1>9. QED
    BY <1>1, <1>2, <1>4, <1>5, <1>6, <1>7, <1>8 DEF all, kept

(* What Delay returns, for any number of crashes. *)
LEMMA DelayReturns ==
    ASSUME NEW n \in Nat \ {0}, NEW x \in Jitter(Nominal(n))
    PROVE  x \in Nat /\ x * 10 >= 8 * Shortest - 9 /\ x * 10 < 12 * Max
<1> DEFINE d == Nominal(n)
           m == Shortest
<1>1. d \in Nat /\ m <= d /\ d <= Max
    BY NominalInRange
<1>2. Max \in Nat \ {0} /\ m \in Nat
    BY PolicyAssumption DEF Shortest
<1> HIDE DEF d, m
<1>3. x \in Nat /\ x * 10 >= 8 * d - 9 /\ x * 10 <= 11 * d
    BY <1>1, JitterInRange DEF d
<1>4. QED
    BY <1>1, <1>2, <1>3 DEF m

(* The types, and the range of the delay, are preserved by every step. *)
LEMMA TrackerTypeStep ==
    ASSUME TrackerTypeOK, DelayInRange, [TrackerNext]_trackerVars
    PROVE  TrackerTypeOK' /\ DelayInRange'
<1>0. Max \in Nat \ {0} /\ CrashCap \in Nat \ {0}
    BY PolicyAssumption
<1>1. CASE RecordCrash
  <2> DEFINE kept == Trim(Append(Carried, now), now)
             b    == Steady
  <2>1. kept \in Seq(Nat) /\ Len(kept) \in Nat \ {0}
    <3>1. /\ kept \in Seq(Nat) /\ Len(kept) \in 1..Len(Append(Carried, now))
      BY CrashKeeps
    <3> HIDE DEF kept
    <3>2. QED
      BY <3>1
  <2>2. running' = Never /\ now' = now
    BY <1>1 DEF RecordCrash
  <2>3. CASE ShouldRollback(kept)
    <3>1. crashes' = <<>> /\ log' = <<>> /\ UNCHANGED <<phase, delay, wakeAt>>
      BY <1>1, <2>3 DEF RecordCrash
    <3>2. TrackerTypeOK'
      BY <1>0, <2>2, <3>1 DEF TrackerTypeOK
    <3>3. DelayInRange'
      BY <3>1 DEF DelayInRange
    <3>4. QED
      BY <3>2, <3>3
  <2>4. CASE ~ShouldRollback(kept)
    <3>1. /\ crashes' = kept
          /\ log' = Append(log, [at |-> now, steady |-> b])
          /\ phase' = "waiting"
          /\ delay' \in Jitter(Nominal(Len(kept)))
          /\ wakeAt' = now + delay'
      BY <1>1, <2>4 DEF RecordCrash, ThisCrash
    <3>2. Len(kept) < CrashCap
      BY <1>0, <2>1, <2>4 DEF ShouldRollback
    <3>3. b \in BOOLEAN
      BY Zenon DEF Steady
    <3> HIDE DEF b, kept
    <3>4. /\ delay' \in Nat
          /\ delay' * 10 >= 8 * Shortest - 9 /\ delay' * 10 < 12 * Max
      BY <2>1, <3>1, DelayReturns
    <3>5. now \in Nat /\ log \in Seq([at : Nat, steady : BOOLEAN])
      BY DEF TrackerTypeOK
    <3>6. log' \in Seq([at : Nat, steady : BOOLEAN])
      BY <3>1, <3>3, <3>5
    <3>7. wakeAt' \in Nat
      <4>1. wakeAt' = now + delay'
        BY <3>1
      <4>2. now \in Nat /\ delay' \in Nat
        BY <3>4, <3>5
      <4>3. \A x, y \in Nat : x + y \in Nat
        OBVIOUS
      <4>4. QED
        BY <4>1, <4>2, <4>3, Zenon
    <3>8. TrackerTypeOK'
      BY <2>1, <2>2, <3>1, <3>2, <3>4, <3>5, <3>6, <3>7 DEF TrackerTypeOK
    <3>9. DelayInRange'
      BY <3>4 DEF DelayInRange
    <3>10. QED
      BY <3>8, <3>9
  <2>5. QED
    BY <2>3, <2>4
<1>2. CASE MarkRunning
    BY <1>2 DEF MarkRunning, TrackerTypeOK, DelayInRange
<1>3. CASE TrackerReset
    BY <1>0, <1>3 DEF TrackerReset, TrackerTypeOK, DelayInRange
<1>4. CASE Wake
    BY <1>4 DEF Wake, TrackerTypeOK, DelayInRange
<1>5. CASE TimePasses
    BY <1>5 DEF TimePasses, TrackerTypeOK, DelayInRange
<1>6. CASE UNCHANGED trackerVars
    BY <1>6 DEF trackerVars, TrackerTypeOK, DelayInRange
<1>7. QED
    BY <1>1, <1>2, <1>3, <1>4, <1>5, <1>6 DEF TrackerNext

(* BurstInv for a log L of n crashes whose burst is the c crashes C. *)
BurstOf(L, C, n, c, t) ==
    /\ \A i \in 1..n : L[i].at <= t
    /\ \A i, j \in 1..n : i <= j => L[i].at <= L[j].at
    /\ c <= n /\ (n > 0 => c > 0)
    /\ \A i \in 1..c : C[i] = L[n - c + i].at
    /\ \A i \in (n - c + 2)..n : ~L[i].steady
    /\ n > 0 => L[n].at - L[n - c + 1].at <= CrashWindow
    /\ c < n => \/ L[n - c + 1].steady
               \/ L[n].at - L[n - c].at > CrashWindow

(* A crash at t is appended to L, giving L2, and to the b crashes B that    *)
(* are carried over from C, giving all, of which the last k, C2, are kept.  *)
Extends(L, C, n, c, L2, C2, k, B, b, all, st, t) ==
    /\ n \in Nat /\ c \in Nat /\ b \in Nat /\ k \in 1..(b + 1)
    /\ t \in Nat /\ st \in BOOLEAN /\ CrashWindow \in Nat
    /\ \A i \in 1..n : L[i].at \in Nat
    /\ L2[n + 1].at = t /\ L2[n + 1].steady = st
    /\ \A i \in 1..n : L2[i] = L[i]
    /\ st => b = 0
    /\ ~st => B = C /\ b = c
    /\ all[b + 1] = t /\ \A i \in 1..b : all[i] = B[i]
    /\ \A i \in 1..k : C2[i] = all[b + 1 - k + i]
    /\ C2[1] >= t - CrashWindow
    /\ k < b + 1 => all[b + 1 - k] < t - CrashWindow

(* Appending a crash to a burst, and keeping what is within the window,     *)
(* gives a burst again.                                                     *)
LEMMA BurstGrows ==
    ASSUME NEW L, NEW C, NEW n, NEW c, NEW L2, NEW C2, NEW k, NEW B, NEW b,
           NEW all, NEW st, NEW t,
           BurstOf(L, C, n, c, t), Extends(L, C, n, c, L2, C2, k, B, b, all, st, t)
    PROVE  BurstOf(L2, C2, n + 1, k, t)
<1> USE DEF BurstOf, Extends
<1>1. b <= n
    OBVIOUS
<1>2. \A i \in 1..(b + 1) : all[i] = L2[n - b + i].at
  <2> SUFFICES ASSUME NEW i \in 1..(b + 1) PROVE all[i] = L2[n - b + i].at
    OBVIOUS
  <2>1. CASE i = b + 1
    BY <2>1
  <2>2. CASE i <= b
    <3>1. i \in 1..b /\ n - b + i \in 1..n /\ ~st /\ b = c
      BY <1>1, <2>2
    <3>2. all[i] = C[i]
      BY <3>1
    <3>3. QED
      BY <3>1, <3>2
  <2>3. QED
    BY <2>1, <2>2
<1>3. \A i \in 1..(n + 1) : L2[i].at <= t
  <2> SUFFICES ASSUME NEW i \in 1..(n + 1) PROVE L2[i].at <= t
    OBVIOUS
  <2>1. CASE i = n + 1
    BY <2>1
  <2>2. CASE i \in 1..n
    BY <2>2
  <2>3. QED
    BY <2>1, <2>2
<1>4. \A i, j \in 1..(n + 1) : i <= j => L2[i].at <= L2[j].at
  <2> SUFFICES ASSUME NEW i \in 1..(n + 1), NEW j \in 1..(n + 1), i <= j
               PROVE  L2[i].at <= L2[j].at
    OBVIOUS
  <2>1. CASE j = n + 1
    BY <1>3, <2>1
  <2>2. CASE j <= n
    BY <2>2
  <2>3. QED
    BY <2>1, <2>2
<1>5. k <= n + 1 /\ k > 0
    BY <1>1
<1>6. \A i \in 1..k : C2[i] = L2[n + 1 - k + i].at
  <2> SUFFICES ASSUME NEW i \in 1..k PROVE C2[i] = L2[n + 1 - k + i].at
    OBVIOUS
  <2>1. b + 1 - k + i \in 1..(b + 1) /\ n - b + (b + 1 - k + i) = n + 1 - k + i
    OBVIOUS
  <2>2. QED
    BY <1>2, <2>1
<1>7. \A i \in (n + 1 - k + 2)..(n + 1) : ~L2[i].steady
  <2> SUFFICES ASSUME NEW i \in (n + 1 - k + 2)..(n + 1) PROVE ~L2[i].steady
    OBVIOUS
  <2>1. ~st /\ b = c
    OBVIOUS
  <2>2. CASE i = n + 1
    BY <2>1, <2>2
  <2>3. CASE i <= n
    <3>1. i \in (n - c + 2)..n /\ i \in 1..n
      BY <2>1, <2>3
    <3>2. QED
      BY <3>1
  <2>4. QED
    BY <2>2, <2>3
<1>8. L2[n + 1].at - L2[n + 1 - k + 1].at <= CrashWindow
  <2>1. C2[1] = L2[n + 1 - k + 1].at
    BY <1>6
  <2>2. n + 1 - k + 1 \in 1..(n + 1)
    BY <1>5
  <2>3. L2[n + 1 - k + 1].at \in Nat
    BY <2>2
  <2>4. QED
    BY <2>1, <2>3
<1>9. k < n + 1 => \/ L2[n + 1 - k + 1].steady
                   \/ L2[n + 1].at - L2[n + 1 - k].at > CrashWindow
  <2> SUFFICES ASSUME k < n + 1
               PROVE  \/ L2[n + 1 - k + 1].steady
                      \/ L2[n + 1].at - L2[n + 1 - k].at > CrashWindow
    OBVIOUS
  <2>1. n + 1 - k \in 1..n /\ L2[n + 1 - k].at \in Nat
    <3>1. n + 1 - k \in 1..n
      OBVIOUS
    <3>2. QED
      BY <3>1
  <2>2. CASE k < b + 1
    <3>1. all[b + 1 - k] = L2[n + 1 - k].at
      <4>1. k \in Nat /\ k >= 1 /\ k < b + 1
        BY <2>2
      <4>2. b + 1 - k \in 1..(b + 1)
        BY <4>1
      <4>3. n - b + (b + 1 - k) = n + 1 - k
        BY <4>1
      <4>4. QED
        BY <1>2, <4>2, <4>3
    <3>2. QED
      BY <2>1, <2>2, <3>1
  <2>3. CASE k = b + 1 /\ st
    <3>1. n + 1 - k + 1 = n + 1
      BY <2>3
    <3>2. QED
      BY <2>3, <3>1
  <2>4. CASE k = b + 1 /\ ~st
    <3>1. b = c /\ c < n /\ n + 1 - k = n - c /\ n + 1 - k + 1 = n - c + 1
      BY <2>4
    <3>2. n - c + 1 \in 1..n /\ n \in 1..n /\ n - c \in 1..n
      BY <2>1, <3>1
    <3>3. L2[n - c + 1] = L[n - c + 1] /\ L2[n - c] = L[n - c]
      BY <3>2
    <3>4. L[n].at \in Nat /\ L[n].at <= t /\ L[n - c].at \in Nat
      BY <3>2
    <3>5. QED
      BY <3>1, <3>3, <3>4
  <2>5. QED
    BY <2>2, <2>3, <2>4
<1>10. QED
    BY <1>3, <1>4, <1>5, <1>6, <1>7, <1>8, <1>9

(* The crashes on record happened at times. *)
LEMMA LoggedTimes ==
    ASSUME TrackerTypeOK
    PROVE  \A i \in 1..Len(log) : log[i].at \in Nat
<1> DEFINE Entries == [at : Nat, steady : BOOLEAN]
<1>1. log \in Seq(Entries)
    BY DEF TrackerTypeOK
<1>2. \A e \in Entries : e.at \in Nat
    OBVIOUS
<1> HIDE DEF Entries
<1>3. QED
    BY <1>1, <1>2, ElementOfSeq

(* What a crash adds to the log is the end of a burst again, of which the   *)
(* slice keeps exactly the length, whether a rollback follows or not.       *)
LEMMA CrashEndsBurst ==
    ASSUME TrackerTypeOK, BurstInv
    PROVE  LET all  == Append(log, ThisCrash)
               kept == Trim(Append(Carried, now), now)
           IN  /\ all \in Seq([at : Nat, steady : BOOLEAN])
               /\ Len(all) = Len(log) + 1
               /\ BurstOf(all, kept, Len(log) + 1, Len(kept), now)
               /\ Len(kept) \in Nat
<1>0. /\ now \in Nat /\ log \in Seq([at : Nat, steady : BOOLEAN])
      /\ crashes \in Seq(Nat) /\ CrashWindow \in Nat
      /\ Len(log) \in Nat /\ Len(crashes) \in Nat
    BY PolicyAssumption DEF TrackerTypeOK
<1>1. \A i \in 1..Len(log) : log[i].at \in Nat
    BY LoggedTimes
<1>2. BurstOf(log, crashes, Len(log), Len(crashes), now)
    BY DEF BurstInv, BurstOf
<1> DEFINE all  == Append(Carried, now)
           kept == Trim(all, now)
           st   == Steady
           L2   == Append(log, [at |-> now, steady |-> st])
           n    == Len(log)
           k    == Len(kept)
           b    == Len(Carried)
<1>3. st \in BOOLEAN
    BY Zenon DEF Steady
<1>4. /\ st => b = 0
      /\ ~st => Carried = crashes /\ b = Len(crashes)
    BY DEF Carried
<1>5. /\ Carried \in Seq(Nat) /\ Len(all) = b + 1
      /\ k \in 1..Len(all)
      /\ \A i \in 1..k : kept[i] = all[Len(all) - k + i]
      /\ kept[1] >= now - CrashWindow
      /\ k < Len(all) => all[Len(all) - k] < now - CrashWindow
    BY CrashKeeps
<1>6. /\ b \in Nat /\ all[b + 1] = now
      /\ \A i \in 1..b : all[i] = Carried[i]
    BY <1>0, <1>5
<1>7. L2 = Append(log, ThisCrash)
    BY DEF ThisCrash
<1> HIDE DEF st
<1>8. /\ L2 \in Seq([at : Nat, steady : BOOLEAN]) /\ Len(L2) = n + 1
      /\ L2[n + 1].at = now /\ L2[n + 1].steady = st
      /\ \A i \in 1..n : L2[i] = log[i]
    BY <1>0, <1>3
<1> HIDE DEF all, kept, L2
<1>9. Extends(log, crashes, n, Len(crashes), L2, kept, k, Carried, b, all, st, now)
  <2>1. n \in Nat /\ Len(crashes) \in Nat /\ b \in Nat /\ k \in 1..(b + 1)
    BY <1>0, <1>5, <1>6
  <2>2. /\ \A i \in 1..k : kept[i] = all[b + 1 - k + i]
        /\ kept[1] >= now - CrashWindow
        /\ k < b + 1 => all[b + 1 - k] < now - CrashWindow
    BY <1>5
  <2>3. QED
    BY <1>0, <1>1, <1>3, <1>4, <1>6, <1>8, <2>1, <2>2 DEF Extends
<1>10. BurstOf(L2, kept, n + 1, k, now)
    BY <1>2, <1>9, BurstGrows
<1>11. k \in Nat
    BY <1>5, <1>6
<1>12. QED
    BY <1>7, <1>8, <1>10, <1>11 DEF all, kept

(* The slice stays the current burst in every step. *)
LEMMA BurstStep ==
    ASSUME TrackerTypeOK, BurstInv,
           [TrackerNext]_trackerVars
    PROVE  BurstInv'
<1>0. now \in Nat /\ Len(log) \in Nat
    BY DEF TrackerTypeOK
<1>1. \A i \in 1..Len(log) : log[i].at \in Nat
    BY LoggedTimes
<1>a. BurstOf(log, crashes, Len(log), Len(crashes), now)
    BY DEF BurstInv, BurstOf
<1>b. SUFFICES BurstOf(log', crashes', Len(log'), Len(crashes'), now')
    BY DEF BurstInv, BurstOf
<1>2. CASE RecordCrash
  <2> DEFINE kept == Trim(Append(Carried, now), now)
             all  == Append(log, ThisCrash)
  <2>1. CASE ShouldRollback(kept)
    <3>1. crashes' = <<>> /\ log' = <<>>
      BY <1>2, <2>1 DEF RecordCrash
    <3>2. Len(log') = 0 /\ Len(crashes') = 0
      BY <3>1
    <3>3. QED
      BY <3>2 DEF BurstOf
  <2>2. CASE ~ShouldRollback(kept)
    <3>1. now' = now /\ crashes' = kept /\ log' = all
      BY <1>2, <2>2 DEF RecordCrash
    <3>2. Len(all) = Len(log) + 1 /\ BurstOf(all, kept, Len(log) + 1, Len(kept), now)
      BY CrashEndsBurst
    <3> HIDE DEF kept, all
    <3>3. QED
      BY <3>1, <3>2
  <2>3. QED
    BY <2>1, <2>2
<1>3. CASE TrackerReset
  <2>1. Len(log') = 0 /\ Len(crashes') = 0
    BY <1>3 DEF TrackerReset
  <2>2. QED
    BY <2>1 DEF BurstOf
<1>4. CASE UNCHANGED <<log, crashes>> /\ (now' = now \/ now' = now + 1)
  <2>1. ASSUME NEW i \in 1..Len(log) PROVE log[i].at <= now'
    <3>1. log[i].at \in Nat /\ log[i].at <= now
      BY <1>1, <1>a DEF BurstOf
    <3>2. QED
      BY <1>0, <1>4, <3>1
  <2>2. QED
    BY <1>4, <1>a, <2>1 DEF BurstOf
<1>5. QED
    BY <1>2, <1>3, <1>4 DEF TrackerNext, MarkRunning, Wake,
       TimePasses, trackerVars

(* Both hold in every reachable state. *)
LEMMA TrackerInvariance ==
    TrackerSpec => [](TrackerTypeOK /\ DelayInRange)
<1>1. TrackerInit => TrackerTypeOK /\ DelayInRange
    BY PolicyAssumption DEF TrackerInit, TrackerTypeOK, DelayInRange, Never
<1>2. TrackerTypeOK /\ DelayInRange /\ [TrackerNext]_trackerVars
        => TrackerTypeOK' /\ DelayInRange'
    BY TrackerTypeStep
<1>3. QED
    BY <1>1, <1>2, PTL DEF TrackerSpec

(* The tracker's counters, timestamps and delays keep their types, and the  *)
(* window never holds as many crashes as the cap while the loop goes on.    *)
THEOREM TrackerTypes ==
    TrackerSpec => []TrackerTypeOK
BY TrackerInvariance, PTL

(* A crash loop never turns into a busy loop: whatever the shift overflows  *)
(* to, the delay stays within the jitter of a value between the shorter of  *)
(* Base and Max, and Max.                                                   *)
THEOREM DelaysInRange ==
    TrackerSpec => []DelayInRange
BY TrackerInvariance, PTL

(* A slice of c crashes that BurstOf describes has the length of the        *)
(* longest burst.                                                           *)
LEMMA BurstLength ==
    ASSUME NEW L, NEW C, NEW c \in Nat, NEW t, Len(L) \in Nat \ {0},
           \A i \in 1..Len(L) : L[i].at \in Nat,
           BurstOf(L, C, Len(L), c, t), NEW k \in 1..Len(L)
    PROVE  Burst(L, k) <=> k <= c
<1> DEFINE n == Len(L)
<1>1. n \in Nat /\ n > 0 /\ CrashWindow \in Nat
    BY PolicyAssumption
<1>2. \A i \in 1..n : L[i].at \in Nat
    OBVIOUS
<1>3. BurstOf(L, C, n, c, t)
    OBVIOUS
<1>4. Burst(L, k) <=> /\ L[n].at - L[n - k + 1].at <= CrashWindow
                      /\ \A i \in (n - k + 2)..n : ~L[i].steady
    BY <1>1 DEF Burst
<1> HIDE DEF n
<1>5. k \in 1..n /\ n \in 1..n /\ n - k + 1 \in 1..n
    BY <1>1 DEF n
<1>6. L[n].at \in Nat /\ L[n - k + 1].at \in Nat
    BY <1>2, <1>5
<1>7. ASSUME k <= c PROVE Burst(L, k)
  <2>1. n - c + 1 \in 1..n /\ n - c + 1 <= n - k + 1
    BY <1>1, <1>3, <1>5, <1>7 DEF BurstOf
  <2>2. L[n - c + 1].at \in Nat /\ L[n - c + 1].at <= L[n - k + 1].at
    BY <1>2, <1>3, <1>5, <2>1 DEF BurstOf
  <2>3. L[n].at - L[n - c + 1].at <= CrashWindow
    BY <1>1, <1>3 DEF BurstOf
  <2>4. L[n].at - L[n - k + 1].at <= CrashWindow
    <3>1. \A x, y, z \in Nat : x - y <= CrashWindow /\ y <= z => x - z <= CrashWindow
      BY <1>1
    <3>2. QED
      BY <1>6, <2>2, <2>3, <3>1
  <2>5. ASSUME NEW i \in (n - k + 2)..n PROVE ~L[i].steady
    <3>1. i \in (n - c + 2)..n
      BY <1>1, <1>5, <1>7
    <3>2. QED
      BY <1>3, <3>1 DEF BurstOf
  <2>6. QED
    BY <1>4, <2>4, <2>5
<1>8. ASSUME k > c, Burst(L, k) PROVE FALSE
  <2>1. c < n /\ n - c \in 1..n /\ n - k + 1 <= n - c /\ n - c + 1 \in (n - k + 2)..n
    BY <1>1, <1>3, <1>5, <1>8 DEF BurstOf
  <2>2. ~L[n - c + 1].steady
    BY <1>4, <1>8, <2>1
  <2>3. L[n].at - L[n - c].at > CrashWindow
    BY <1>3, <2>1, <2>2 DEF BurstOf
  <2>4. L[n - k + 1].at <= L[n - c].at /\ L[n - c].at \in Nat
    BY <1>2, <1>3, <1>5, <2>1 DEF BurstOf
  <2>5. L[n].at - L[n - k + 1].at <= CrashWindow
    BY <1>4, <1>8
  <2>6. \A x, y, z \in Nat : y <= z /\ x - y <= CrashWindow => ~(x - z > CrashWindow)
    BY <1>1
  <2>7. QED
    BY <1>6, <2>3, <2>4, <2>5, <2>6
<1>9. QED
    BY <1>5, <1>7, <1>8

(* The slice is the current burst in every reachable state. *)
LEMMA BurstInvariance == TrackerSpec => [](TrackerTypeOK /\ BurstInv)
<1>1. TrackerInit => BurstInv
  <2> SUFFICES ASSUME TrackerInit PROVE BurstInv
    OBVIOUS
  <2>1. Len(log) = 0 /\ Len(crashes) = 0
    BY DEF TrackerInit
  <2>2. QED
    BY <2>1 DEF BurstInv
<1>2. TrackerTypeOK /\ BurstInv /\ [TrackerNext]_trackerVars => BurstInv'
    BY BurstStep
<1>3. QED
    BY <1>1, <1>2, TrackerTypes, PTL DEF TrackerSpec

(* The trimmed slice is exactly the current burst: while the loop waits,    *)
(* the delay is decided by the crashes within one window of each other      *)
(* since the last steady run, for every window, steady time and cap.        *)
THEOREM TrackerCountsTheBurst ==
    TrackerSpec => []CountsTheBurst
<1>1. TrackerTypeOK /\ BurstInv => CountsTheBurst
  <2> SUFFICES ASSUME TrackerTypeOK, BurstInv, log # <<>>,
                      NEW k \in 1..Len(log)
               PROVE  Burst(log, k) <=> k <= Len(crashes)
    BY DEF CountsTheBurst
  <2>1. Len(log) \in Nat \ {0} /\ Len(crashes) \in Nat
    BY DEF TrackerTypeOK
  <2>2. \A i \in 1..Len(log) : log[i].at \in Nat
    BY LoggedTimes
  <2>3. BurstOf(log, crashes, Len(log), Len(crashes), now)
    BY DEF BurstInv, BurstOf
  <2>4. QED
    BY <2>1, <2>2, <2>3, BurstLength
<1>2. QED
    BY <1>1, BurstInvariance, PTL

(* A version is rolled back by exactly the crash that completes a burst of  *)
(* CrashCap of them, for every window, steady time and cap.                 *)
THEOREM RollbacksAreEarned ==
    TrackerSpec => RollbackIsEarned
<1>1. ASSUME TrackerTypeOK, BurstInv, RecordCrash
      PROVE  log' = <<>> <=> Burst(Append(log, ThisCrash), CrashCap)
  <2> DEFINE all  == Append(log, ThisCrash)
             kept == Trim(Append(Carried, now), now)
             n    == Len(log) + 1
  <2>1. /\ all \in Seq([at : Nat, steady : BOOLEAN]) /\ Len(all) = n
        /\ BurstOf(all, kept, n, Len(kept), now) /\ Len(kept) \in Nat
    BY <1>1, CrashEndsBurst
  <2>2. n \in Nat \ {0} /\ CrashCap \in Nat \ {0}
    BY <1>1, PolicyAssumption DEF TrackerTypeOK
  <2>3. log' = IF Len(kept) >= CrashCap THEN <<>> ELSE all
    BY <1>1 DEF RecordCrash, ShouldRollback
  <2> HIDE DEF all, kept, n
  <2>4. all # <<>>
    BY <2>1, <2>2
  <2>5. log' = <<>> <=> CrashCap <= Len(kept)
    BY <2>1, <2>2, <2>3, <2>4
  <2>6. CASE CrashCap > n
    <3>1. Len(kept) <= n
      BY <2>1 DEF BurstOf
    <3>2. ~Burst(all, CrashCap)
      BY <2>1, <2>2, <2>6 DEF Burst
    <3>3. QED
      BY <2>1, <2>2, <2>5, <2>6, <3>1, <3>2 DEF all
  <2>7. CASE CrashCap <= n
    <3>1. CrashCap \in 1..Len(all) /\ Len(all) \in Nat \ {0}
      BY <2>1, <2>2, <2>7
    <3>2. \A i \in 1..Len(all) : all[i].at \in Nat
      <4> DEFINE Entries == [at : Nat, steady : BOOLEAN]
      <4>1. all \in Seq(Entries) /\ \A e \in Entries : e.at \in Nat
        BY <2>1
      <4> HIDE DEF Entries
      <4>2. QED
        BY <4>1, ElementOfSeq
    <3>3. Burst(all, CrashCap) <=> CrashCap <= Len(kept)
      BY <2>1, <3>1, <3>2, BurstLength
    <3>4. QED
      BY <2>5, <3>3 DEF all
  <2>8. QED
    BY <2>1, <2>2, <2>6, <2>7
<1>2. TrackerTypeOK /\ BurstInv
        => (RecordCrash => (log' = <<>> <=> Burst(Append(log, ThisCrash), CrashCap)))
    BY <1>1
<1>3. QED
    BY <1>2, BurstInvariance, PTL DEF RollbackIsEarned

(***************************************************************************)
(* The health gate.                                                        *)
(***************************************************************************)
USE ClockAssumption, GateAssumption DEF NoTime, Times, IsActive

(* Every step of the gate, its timer and the clock preserves the invariant. *)
LEMMA StepInv == Inv /\ [Next]_vars => Inv'
<1> SUFFICES ASSUME Inv, [Next]_vars PROVE Inv'
    OBVIOUS
<1> USE DEF Inv, TypeOK, TimerInv, NoUnfairTimeout, PassIsTimely
<1>1. ASSUME NEW t \in 0..now, Arm(t) PROVE Inv'
    BY <1>1 DEF Arm, NextWake, UntilNonNegative
<1>2. CASE OnReady
  <2>1. /\ state' = "stabilizing" /\ readyAt' = now
        /\ UNCHANGED <<now, deadline, verdict>>
    BY <1>2 DEF OnReady
  <2>2. CASE now + StableFor < deadline
    <3>1. wake' = now + StableFor
      BY <1>2, <2>2 DEF OnReady, NextWake, UntilNonNegative, ClampWake
    <3>2. QED
      BY <1>2, <2>1, <2>2, <3>1 DEF OnReady
  <2>3. CASE now + StableFor >= deadline /\ deadline - now < MinWake
    <3>1. wake' = now + MinWake
      BY <1>2, <2>3 DEF OnReady, NextWake, UntilNonNegative, ClampWake
    <3>2. QED
      BY <1>2, <2>1, <2>3, <3>1 DEF OnReady
  <2>4. CASE now + StableFor >= deadline /\ deadline - now >= MinWake
    <3>1. wake' = deadline
      BY <1>2, <2>4 DEF OnReady, NextWake, UntilNonNegative, ClampWake
    <3>2. QED
      BY <1>2, <2>1, <2>4, <3>1 DEF OnReady
  <2>5. QED
    BY <1>2, <2>2, <2>3, <2>4 DEF OnReady
<1>3. CASE OnCrash
    BY <1>3 DEF OnCrash
<1>4. CASE Reset
    BY <1>4 DEF Reset
<1>5. CASE OnTimer
  <2>1. Tick(now) # "none"
    BY <1>5 DEF OnTimer, Tick
  <2>2. state' = "inactive" /\ wake' = NoTime /\ verdict' = Tick(now)
    BY <1>5, <2>1 DEF OnTimer
  <2>3. UNCHANGED <<now, deadline, readyAt>>
    BY <1>5 DEF OnTimer
  <2>4. CASE Tick(now) = "pass"
    <3>1. state = "stabilizing" /\ now - readyAt >= StableFor
      BY <2>4 DEF Tick
    <3>2. readyAt + StableFor <= deadline + Late
      BY <3>1
    <3>3. QED
      BY <2>2, <2>3, <2>4, <3>1, <3>2
  <2>5. CASE Tick(now) = "timeout"
    <3>1. state = "stabilizing" => now - readyAt < StableFor
      BY <2>5 DEF Tick
    <3>2. now >= deadline
      BY <2>5 DEF Tick
    <3>3. QED
      BY <1>5, <2>2, <2>3, <2>5, <3>1, <3>2 DEF OnTimer
  <2>6. QED
    BY <2>1, <2>4, <2>5 DEF Tick
<1>6. CASE Advance
    BY <1>6 DEF Advance
<1>7. CASE UNCHANGED vars
    BY <1>7 DEF vars
<1>8. QED
    BY <1>1, <1>2, <1>3, <1>4, <1>5, <1>6, <1>7 DEF Next

(* The inductive invariant holds in every reachable state. *)
THEOREM Invariance == Spec => []Inv
<1>1. Init => Inv
    BY DEF Init, Inv, TypeOK, TimerInv, NoUnfairTimeout, PassIsTimely
<1>2. QED
    BY <1>1, StepInv, PTL DEF Spec

(* The gate, its timer and its verdicts keep their types, and READY is never *)
(* dated in the future.                                                      *)
THEOREM GateTypes == Spec => []TypeOK
<1>1. Inv => TypeOK
    BY DEF Inv
<1>2. QED
    BY <1>1, Invariance, PTL

(* An install that was stable by its deadline is never timed out. *)
THEOREM Fair == Spec => []NoUnfairTimeout
<1>1. Inv => NoUnfairTimeout
    BY DEF Inv
<1>2. QED
    BY <1>1, Invariance, PTL

(* An install that was not stable by its deadline, up to the timer's        *)
(* lateness, never passes.                                                  *)
THEOREM Timely == Spec => []PassIsTimely
<1>1. Inv => PassIsTimely
    BY DEF Inv
<1>2. QED
    BY <1>1, Invariance, PTL

(* NextWake and clampWake set the timer early enough: no install is watched *)
(* past the moment its verdict is due, up to the timer's lateness.          *)
THEOREM OnTime == Spec => []JudgedOnTime
<1>1. Inv => JudgedOnTime
    BY DEF Inv, TypeOK, TimerInv, JudgedOnTime
<1>2. QED
    BY <1>1, Invariance, PTL

(* ... and late enough: a timer that fires always decides. *)
THEOREM NoIdleWake == Spec => []WakeDecides
<1>1. Inv => WakeDecides
    BY DEF Inv, TypeOK, TimerInv, WakeDecides, Tick
<1>2. QED
    BY <1>1, Invariance, PTL
=============================================================================
