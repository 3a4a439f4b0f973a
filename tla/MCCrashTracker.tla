--------------------------- MODULE MCCrashTracker ---------------------------
(***************************************************************************)
(* The crash tracker with its window compared to the code's filter, on     *)
(* every sequence of crashes in order that spans more than a window.       *)
(***************************************************************************)
EXTENDS CrashTracker

Ext == INSTANCE SequencesExt

Stamps == 0..(CrashWindow + 2)

InOrder(s) == \A i, j \in DOMAIN s : i <= j => s[i] <= s[j]

(* for _, ts := range t.crashes { if !ts.Before(cutoff) { keep ... } } *)
Filtered(s, t) == SelectSeq(s, LAMBDA ts : ts >= t - CrashWindow)

ASSUME TrimFilters ==
    \A t \in Stamps : \A s \in Ext!SeqOf(0..t, 3) :
        InOrder(s) => LET all == Append(s, t) IN Trim(all, t) = Filtered(all, t)
=============================================================================
