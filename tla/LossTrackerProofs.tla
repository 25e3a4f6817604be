--------------------------- MODULE LossTrackerProofs ---------------------------
(***************************************************************************)
(* Proofs about LossTracker, and about Arrivals, which puts it behind the  *)
(* replay window, for every window, tolerance, slack and set of            *)
(* numbers.  The cursor never overtakes the newest number less Reorder;    *)
(* what is given up lies below it, so a number is given up once.           *)
(***************************************************************************)
EXTENDS Arrivals, ReplayWindowProofs, FiniteSetTheorems, TLAPS

(* Only settled numbers are given up, and the cursor trails the newest.    *)
GivenUpSettled ==
  /\ \A s \in givenUp : 0 < s /\ s < cursor
  /\ cursor <= 1 \/ cursor <= newest - Reorder

(* The finiteness the cardinalities need.                                  *)
HistoryFinite == seen \subseteq arrived /\ IsFiniteSet(arrived) /\ IsFiniteSet(givenUp)

LossInv == TrackerTypeOK /\ GivenUpSettled /\ HistoryFinite /\ WindowExact /\ ReportExact

-----------------------------------------------------------------------------
(* The short way of Jump and the long way of Walk count the same.          *)
Splits(S, c, h) ==
  /\ IsFiniteSet(Missing(S, c, h))
  /\ Cardinality(Missing(S, c, h)) \in Nat
  /\ Cardinality(Missing(S, c, h)) = (h - c) - Cardinality(S \cap (c .. h - 1))

LEMMA SpanSplits ==
  ASSUME NEW S, NEW c \in Nat, NEW h \in Nat, c <= h
  PROVE  Splits(S, c, h)
<1>1. IsFiniteSet(c .. h - 1) /\ Cardinality(c .. h - 1) = h - c
  <2>1. IsFiniteSet(c .. h - 1)
        /\ Cardinality(c .. h - 1) = IF c > h - 1 THEN 0 ELSE (h - 1) - c + 1
    BY FS_Interval
  <2> QED
    BY <2>1
<1>2. Missing(S, c, h) = (c .. h - 1) \ S /\ (c .. h - 1) \cap S = S \cap (c .. h - 1)
  BY DEF Missing
<1>3. /\ IsFiniteSet((c .. h - 1) \ S)
      /\ Cardinality((c .. h - 1) \ S)
           = Cardinality(c .. h - 1) - Cardinality((c .. h - 1) \cap S)
  BY <1>1, FS_Difference
<1>4. Cardinality((c .. h - 1) \ S) \in Nat
  BY <1>3, FS_CardinalityType
<1> QED
  BY <1>1, <1>2, <1>3, <1>4 DEF Splits

(* An empty span has nothing missing.                                      *)
LEMMA EmptySpan ==
  ASSUME NEW S, NEW c \in Nat, NEW h \in Nat, h <= c
  PROVE  Missing(S, c, h) = {} /\ Cardinality(Missing(S, c, h)) = 0
<1>1. Missing(S, c, h) = {}
  BY DEF Missing
<1> QED
  BY <1>1, FS_EmptySet

(* The cursor still trails the newest number after a step.                 *)
LEMMA CursorTrails ==
  ASSUME NEW R \in Nat, NEW k \in Nat, NEW n \in Nat, NEW nn \in Nat, n <= nn,
         k <= 1 \/ k <= n - R
  PROVE  k <= 1 \/ k <= nn - R
OBVIOUS

(* The numbers below k, from 1 on.                                        *)
LEMMA InSpan ==
  ASSUME NEW k \in Nat, NEW s \in 1 .. k - 1
  PROVE  s \in Nat /\ 1 <= s /\ s < k
OBVIOUS

LEMMA LossInitInv == TrackerInit => LossInv
<1> SUFFICES ASSUME TrackerInit PROVE LossInv
  OBVIOUS
<1>1. IsFiniteSet({}) /\ Cardinality({}) = 0
  BY FS_EmptySet
<1>2. TrackerTypeOK
  BY <1>1 DEF TrackerInit, TrackerTypeOK
<1>3. GivenUpSettled /\ HistoryFinite /\ WindowExact
  BY <1>1 DEF TrackerInit, GivenUpSettled, HistoryFinite, WindowExact
<1>4. ReportExact
  BY <1>1 DEF TrackerInit, ReportExact
<1> QED
  BY <1>2, <1>3, <1>4 DEF LossInv

LEMMA LossNextInv == LossInv /\ [TrackerNext]_trackerVars => LossInv'
<1> SUFFICES ASSUME LossInv, [TrackerNext]_trackerVars PROVE LossInv'
  OBVIOUS
<1>t. /\ seen \subseteq AudioSeqs /\ IsFiniteSet(seen) /\ arrived \subseteq AudioSeqs /\ givenUp \subseteq Nat
      /\ cursor \in Nat /\ newest \in Nat /\ received \in Nat /\ lost \in Nat
      /\ AudioSeqs \subseteq Nat \ {0} /\ Reorder \in Nat /\ Slack \in Nat
  BY AudioSeqsAssumption, ReorderAssumption DEF LossInv, TrackerTypeOK
<1>1. ASSUME NEW seq \in AudioSeqs \ arrived, Observe(seq) PROVE LossInv'
  <2> DEFINE S == seen \cup {seq}
             c == Larger(cursor, 1)
             h == Horizon(newest')
             M == Missing(S, c, h)
  <2>s. seq \in AudioSeqs /\ seq \in Nat /\ seq # 0
    BY <1>t
  <2>1. seq \notin arrived /\ arrived' = arrived \cup {seq}
    BY <1>1 DEF Observe
  <2>2. seq \notin seen
    BY <2>1 DEF LossInv, HistoryFinite
  <2>3. /\ newest' = Larger(newest, seq)
        /\ received' = received + 1
        /\ givenUp' = givenUp \cup M
        /\ Jump(S, c, h) \/ Walk(S, c, h)
    BY <1>1, <2>2 DEF Observe
  <2>4. newest' \in Nat /\ newest' >= newest /\ newest' >= seq
    BY <2>3, <2>s, <1>t DEF Larger
  <2>c. c \in Nat /\ c >= 1 /\ c >= cursor /\ (c = cursor \/ c = 1)
    BY <1>t DEF Larger
  <2>h. h \in Nat /\ (h = 0 \/ h = newest' - Reorder) /\ h >= newest' - Reorder
    <3> DEFINE n == newest'
    <3>1. n \in Nat /\ h = Larger(n - Reorder, 0)
      BY <2>4 DEF Horizon
    <3> HIDE DEF n, h
    <3>2. h \in Nat /\ (h = 0 \/ h = n - Reorder) /\ h >= n - Reorder
      BY <3>1, <1>t DEF Larger
    <3> QED
      BY <3>2 DEF n
  <2>S. S = seen \cup {seq}
    OBVIOUS
  <2>M. M = Missing(S, c, h)
    OBVIOUS
  <2> HIDE DEF S, c, h, M
  <2>5. /\ c \in Nat /\ c >= 1 /\ c >= cursor /\ (c = cursor \/ c = 1)
        /\ h \in Nat /\ (h = 0 \/ h = newest' - Reorder) /\ h >= newest' - Reorder
    BY <2>c, <2>h
  <2>6. IsFiniteSet(S) /\ S \subseteq arrived' /\ S \subseteq AudioSeqs
    <3>1. seen \subseteq arrived
      BY DEF LossInv, HistoryFinite
    <3>2. IsFiniteSet(S)
      BY <2>S, <1>t, FS_AddElement
    <3> QED
      BY <3>1, <3>2, <2>S, <2>1, <1>t
  <2>7. IsFiniteSet(M) /\ Cardinality(M) \in Nat
    <3>1. CASE c <= h
      <4>1. Splits(S, c, h)
        BY <3>1, <2>5, SpanSplits
      <4> QED
        BY <4>1, <2>M DEF Splits
    <3>2. CASE h <= c
      <4>1. M = {} /\ Cardinality(M) = 0
        BY <3>2, <2>5, <2>M, EmptySpan
      <4> QED
        BY <4>1, FS_EmptySet
    <3> QED
      BY <3>1, <3>2, <2>5
  <2>8. lost' = lost + Cardinality(M) /\ cursor' = Larger(c, h)
    <3>1. CASE Jump(S, c, h)
      <4>1. h > c + Slack /\ cursor' = h
            /\ lost' = lost + (h - c) - Cardinality(S \cap (c .. h - 1))
        BY <3>1 DEF Jump
      <4>2. c < h /\ c <= h
        BY <4>1, <2>5, <1>t
      <4>3. Cardinality(M) = (h - c) - Cardinality(S \cap (c .. h - 1))
        <5>1. c \in Nat /\ h \in Nat
          BY <2>5
        <5>2. Splits(S, c, h)
          BY <4>2, <5>1, SpanSplits
        <5> QED
          BY <5>2, <2>M DEF Splits
      <4>4. Cardinality(S \cap (c .. h - 1)) \in Nat
        BY <2>6, FS_Intersection, FS_CardinalityType
      <4>5. cursor' = Larger(c, h)
        BY <4>1, <4>2 DEF Larger
      <4>6. lost' = lost + Cardinality(M)
        <5> DEFINE k == Cardinality(S \cap (c .. h - 1))
                   m == Cardinality(M)
        <5>1. m = (h - c) - k /\ k \in Nat /\ lost' = lost + (h - c) - k
          BY <4>1, <4>3, <4>4
        <5> HIDE DEF k, m
        <5>2. lost' = lost + m
          BY <5>1, <2>5, <1>t
        <5> QED
          BY <5>2 DEF m
      <4> QED
        BY <4>5, <4>6
    <3>2. CASE Walk(S, c, h)
      BY <3>2, <2>M DEF Walk
    <3> QED
      BY <3>1, <3>2, <2>3
  <2>11. cursor' \in Nat /\ cursor' >= cursor /\ cursor' >= c /\ cursor' >= 1
    BY <2>5, <2>8, <1>t DEF Larger
  <2>9. \A s \in Nat : s \in S /\ s >= cursor' <=> s \in seen' /\ s >= cursor'
    <3>1. CASE Jump(S, c, h)
      BY <3>1, <2>5 DEF Jump
    <3>2. CASE Walk(S, c, h)
      <4>1. seen' = S \ (c .. h - 1)
        BY <3>2 DEF Walk
      <4>2. \A s \in c .. h - 1 : s < cursor'
        BY <2>5, <2>8 DEF Larger
      <4> QED
        <5>1. c \in Nat /\ h \in Nat /\ cursor' \in Nat
          BY <2>5, <2>11
        <5>2. ASSUME NEW s \in Nat, s >= cursor' PROVE s \in S <=> s \in seen'
          <6>1. s \notin c .. h - 1
            BY <4>2, <5>1, <5>2
          <6> QED
            BY <6>1, <4>1
        <5> QED
          BY <5>2
    <3> QED
      BY <3>1, <3>2, <2>3
  <2>10. seen' \subseteq S
    BY <2>3 DEF Jump, Walk
  <2>12. \A s \in M : s \in Nat /\ c <= s /\ s < cursor' /\ s \notin S
    BY <2>5, <2>8, <2>M DEF Missing, Larger
  <2>13. \A s \in Nat : c <= s /\ s < cursor' => s \in M \/ s \in S
    BY <2>5, <2>8, <2>M DEF Missing, Larger
  <2>14. TrackerTypeOK'
    <3>1. IsFiniteSet(seen') /\ seen' \subseteq AudioSeqs
      BY <2>10, <2>6, FS_Subset
    <3>2. arrived' \subseteq AudioSeqs /\ givenUp' \subseteq Nat
      BY <2>1, <2>3, <2>12, <1>t
    <3>3. received' \in Nat /\ lost' \in Nat
      BY <2>3, <2>7, <2>8, <1>t
    <3> QED
      BY <3>1, <3>2, <3>3, <2>4, <2>11 DEF TrackerTypeOK
  <2>15. GivenUpSettled'
    <3>1. \A s \in givenUp : 0 < s /\ s < cursor
      BY DEF LossInv, GivenUpSettled
    <3>2. \A s \in givenUp' : 0 < s /\ s < cursor'
      BY <3>1, <2>3, <2>5, <2>11, <2>12, <1>t
    <3>3. cursor' <= 1 \/ cursor' <= newest' - Reorder
      <4>1. cursor' = c \/ cursor' = h
        BY <2>8 DEF Larger
      <4>2. cursor <= 1 \/ cursor <= newest - Reorder
        BY DEF LossInv, GivenUpSettled
      <4> QED
        <5>1. Reorder \in Nat /\ cursor \in Nat /\ newest \in Nat
          BY <1>t
        <5>2. cursor <= 1 \/ cursor <= newest' - Reorder
          BY <5>1, <4>2, <2>4, CursorTrails
        <5>3. h <= 1 \/ h <= newest' - Reorder
          BY <2>h
        <5>4. c <= 1 \/ c <= newest' - Reorder
          BY <5>2, <2>c
        <5> QED
          BY <4>1, <5>3, <5>4
    <3> QED
      BY <3>2, <3>3 DEF GivenUpSettled
  <2>16. HistoryFinite'
    <3>1. IsFiniteSet(arrived') /\ IsFiniteSet(givenUp')
      BY <2>1, <2>3, <2>7, FS_AddElement, FS_Union DEF LossInv, HistoryFinite
    <3> QED
      BY <3>1, <2>6, <2>10 DEF HistoryFinite
  <2>17. WindowExact'
    <3> SUFFICES ASSUME NEW s \in arrived', s >= cursor' PROVE s \in seen'
      BY DEF WindowExact
    <3>1. s \in Nat
      BY <2>1, <1>t
    <3>2. s \in seen \cup {seq}
      BY <3>1, <2>1, <2>11, <1>t DEF LossInv, WindowExact
    <3> QED
      BY <3>1, <3>2, <2>9, <2>S
  <2>18. ReportExact'
    <3>1. received' = Cardinality(arrived')
      BY <2>1, <2>3, FS_AddElement, <1>t DEF LossInv, HistoryFinite, ReportExact
    <3>2. lost' = Cardinality(givenUp')
      <4>1. givenUp \cap M = {}
        BY <2>5, <2>12, <1>t DEF LossInv, GivenUpSettled
      <4>2. Cardinality(givenUp \cup M) = Cardinality(givenUp) + Cardinality(M)
        <5>1. Cardinality(givenUp \cup M)
                = Cardinality(givenUp) + Cardinality(M) - Cardinality(givenUp \cap M)
          BY <2>7, FS_Union DEF LossInv, HistoryFinite
        <5>2. Cardinality(givenUp \cap M) = 0
          BY <4>1, FS_EmptySet
        <5>3. Cardinality(givenUp) \in Nat
          BY FS_CardinalityType DEF LossInv, HistoryFinite
        <5> QED
          BY <5>1, <5>2, <5>3, <2>7
      <4> QED
        BY <4>2, <2>3, <2>8 DEF LossInv, ReportExact
    <3>3. ASSUME NEW s \in 1 .. cursor' - 1 PROVE s \in givenUp' \/ s \in arrived'
      <4>1. CASE s < cursor
        <5>1. s \in 1 .. cursor - 1
          BY <4>1, <1>t, <2>11
        <5>2. \A t \in 1 .. cursor - 1 : t \in givenUp \/ t \in arrived
          BY DEF LossInv, ReportExact
        <5> QED
          BY <5>1, <5>2, <2>1, <2>3
      <4>2. CASE s >= cursor
        <5>1. s \in Nat /\ c <= s /\ s < cursor'
          <6>1. cursor' \in Nat /\ cursor \in Nat
            BY <2>11, <1>t
          <6>2. s \in Nat /\ 1 <= s /\ s < cursor'
            BY <6>1, InSpan
          <6> QED
            BY <6>1, <6>2, <4>2, <2>c
        <5> QED
          BY <5>1, <2>13, <2>3, <2>6
      <4> QED
        BY <4>1, <4>2, <1>t
    <3> QED
      BY <3>1, <3>2, <3>3 DEF ReportExact
  <2> QED
    BY <2>14, <2>15, <2>16, <2>17, <2>18 DEF LossInv
<1>2. CASE UNCHANGED trackerVars
  BY <1>2 DEF trackerVars, LossInv, TrackerTypeOK, GivenUpSettled, HistoryFinite, WindowExact, ReportExact
<1> QED
  BY <1>1, <1>2 DEF TrackerNext

LEMMA LossInvariance == TrackerSpec => []LossInv
  BY LossInitInv, LossNextInv, PTL DEF TrackerSpec

(* The fields of a peer's loss count keep their types; lost in particular  *)
(* never goes below zero, whatever the short way subtracts.                *)
THEOREM TrackerTypeCorrect == TrackerSpec => []TrackerTypeOK
<1>1. LossInv => TrackerTypeOK
  BY DEF LossInv
<1> QED
  BY <1>1, LossInvariance, PTL

(* observe_audio_seq reports exactly what came and what was given up.      *)
THEOREM ReportIsExact == TrackerSpec => []ReportExact
<1>1. LossInv => ReportExact
  BY DEF LossInv
<1> QED
  BY <1>1, LossInvariance, PTL

(* No number that came is missing when the cursor gets to it.              *)
THEOREM WindowIsExact == TrackerSpec => []WindowExact
<1>1. LossInv => WindowExact
  BY DEF LossInv
<1> QED
  BY <1>1, LossInvariance, PTL

(* Reordering within the tolerance is never reported as loss.              *)
THEOREM ReorderIsForgiven == TrackerSpec => ReorderForgiven
<1>1. LossInv /\ [TrackerNext]_trackerVars
        => [\A s \in arrived' \ arrived : s \in givenUp => newest - s > Reorder]_trackerVars
  <2> SUFFICES ASSUME LossInv, TrackerNext, NEW s \in arrived' \ arrived, s \in givenUp
               PROVE  newest - s > Reorder
    OBVIOUS
  <2>1. 0 < s /\ s < cursor /\ (cursor <= 1 \/ cursor <= newest - Reorder)
    BY DEF LossInv, GivenUpSettled
  <2>2. s \in Nat /\ cursor \in Nat /\ newest \in Nat /\ Reorder \in Nat
    BY ReorderAssumption DEF LossInv, TrackerTypeOK
  <2> QED
    BY <2>1, <2>2
<1> QED
  BY <1>1, LossInvariance, PTL DEF TrackerSpec, ReorderForgiven

-----------------------------------------------------------------------------
(* Behind the replay window: what was counted came in a datagram that was  *)
(* granted, and the window grants none again.                              *)
CountedGranted ==
  \A c \in Seqs : AudioNumber[c] # 0 /\ AudioNumber[c] \in arrived => grants[c] > 0

ArrivalInv == IInv /\ CountedGranted

LEMMA ArrivalInitInv == ArrivalInit => ArrivalInv /\ TrackerInit
<1> SUFFICES ASSUME ArrivalInit PROVE ArrivalInv /\ TrackerInit
  OBVIOUS
<1>1. IInv
  BY InitInv DEF ArrivalInit
<1>2. CountedGranted /\ TrackerInit
  BY DEF ArrivalInit, TrackerInit, CountedGranted
<1> QED
  BY <1>1, <1>2 DEF ArrivalInv

(* A step grants at most the number presented, and none twice.             *)
LEMMA CommitGrants ==
  ASSUME IInv, NEW c \in Seqs, Commit(c)
  PROVE  /\ IInv'
         /\ \A d \in Seqs : grants[d] > 0 => grants'[d] > 0
         /\ last'.ok => grants[c] = 0 /\ grants'[c] > 0
<1>1. IInv'
  BY NextInv DEF Next
<1>2. grants \in [Seqs -> Nat] /\ grants' \in [Seqs -> Nat] /\ grants'[c] <= 1
  BY <1>1 DEF IInv, TypeOK, AtMostOnce
<1>3. Granting(c) \/ Refusing(c)
  BY DEF Commit, CommitRejected, CommitFirst, CommitLater, Mark
<1>4. CASE Granting(c)
  <2>1. grants' = [grants EXCEPT ![c] = @ + 1]
    BY <1>4 DEF Granting
  <2> QED
    BY <1>1, <1>2, <2>1
<1>5. CASE Refusing(c)
  BY <1>1, <1>5 DEF Refusing
<1> QED
  BY <1>3, <1>4, <1>5

LEMMA ArrivalNextInv ==
  ArrivalInv /\ [ArrivalNext]_arrivalVars => ArrivalInv' /\ [TrackerNext]_trackerVars
<1> SUFFICES ASSUME ArrivalInv, [ArrivalNext]_arrivalVars
             PROVE  ArrivalInv' /\ [TrackerNext]_trackerVars
  OBVIOUS
<1>0. IInv /\ CountedGranted
  BY DEF ArrivalInv
<1>1. ASSUME NEW c \in Seqs, ArriveUncounted(c)
      PROVE  ArrivalInv' /\ [TrackerNext]_trackerVars
  <2>1. Commit(c) /\ UNCHANGED trackerVars /\ UNCHANGED arrived
    BY <1>1 DEF ArriveUncounted, trackerVars
  <2>2. IInv' /\ \A d \in Seqs : grants[d] > 0 => grants'[d] > 0
    BY <2>1, <1>0, CommitGrants
  <2>3. CountedGranted'
    BY <2>1, <2>2, <1>0 DEF CountedGranted
  <2> QED
    BY <2>1, <2>2, <2>3 DEF ArrivalInv
<1>2. ASSUME NEW c \in Seqs, ArriveAudio(c)
      PROVE  ArrivalInv' /\ [TrackerNext]_trackerVars
  <2> DEFINE n == AudioNumber[c]
  <2>1. n # 0 /\ Commit(c) /\ last'.ok /\ Observe(n) /\ arrived' = arrived \cup {n}
    BY <1>2 DEF ArriveAudio, Observe
  <2>2. /\ IInv'
        /\ \A d \in Seqs : grants[d] > 0 => grants'[d] > 0
        /\ grants[c] = 0 /\ grants'[c] > 0
    BY <2>1, <1>0, CommitGrants
  <2>3. n \in AudioSeqs \ arrived
    <3>1. n \in AudioSeqs
      BY <2>1, AudioNumberAssumption
    <3>2. n \notin arrived
      BY <2>1, <2>2, <1>0 DEF CountedGranted
    <3> QED
      BY <3>1, <3>2
  <2>4. CountedGranted'
    <3> SUFFICES ASSUME NEW d \in Seqs, AudioNumber[d] # 0, AudioNumber[d] \in arrived'
                 PROVE  grants'[d] > 0
      BY DEF CountedGranted
    <3>1. CASE AudioNumber[d] \in arrived
      BY <3>1, <2>2, <1>0 DEF CountedGranted
    <3>2. CASE AudioNumber[d] = n
      BY <3>2, <2>1, <2>2, AudioNumberAssumption
    <3> QED
      BY <3>1, <3>2, <2>1
  <2> QED
    BY <2>1, <2>2, <2>3, <2>4 DEF ArrivalInv, TrackerNext
<1>3. CASE UNCHANGED arrivalVars
  <2>1. UNCHANGED vars /\ UNCHANGED trackerVars /\ UNCHANGED <<arrived, grants>>
    BY <1>3 DEF arrivalVars, vars, trackerVars
  <2>2. IInv'
    BY <2>1, <1>0, NextInv
  <2>3. CountedGranted'
    BY <2>1, <1>0 DEF CountedGranted
  <2> QED
    BY <2>1, <2>2, <2>3 DEF ArrivalInv
<1> QED
  BY <1>1, <1>2, <1>3 DEF ArrivalNext

(* Behind the replay window the loss count is fed as it assumes, each      *)
(* audio number at most once, in whatever way the network repeats and      *)
(* reorders the datagrams.                                                 *)
THEOREM ArrivalsCountedOnce == ArrivalSpec => CountedOnce
  BY ArrivalInitInv, ArrivalNextInv, PTL DEF ArrivalSpec, CountedOnce, TrackerSpec

(* So the report is exact for the two together.                            *)
THEOREM ArrivalsReportExact == ArrivalSpec => []ReportExact
  BY ArrivalsCountedOnce, ReportIsExact, PTL DEF CountedOnce

(* And reordering within the tolerance is no loss.                         *)
THEOREM ArrivalsReorderForgiven == ArrivalSpec => ReorderForgiven
  BY ArrivalsCountedOnce, ReorderIsForgiven, PTL DEF CountedOnce

(* The window still answers as the reference does.                         *)
THEOREM ArrivalsRefinement == ArrivalSpec => ImplementsReference
<1>1. ArrivalInit => Init
  BY DEF ArrivalInit
<1>2. [ArrivalNext]_arrivalVars => [Next]_vars
  BY DEF ArrivalNext, ArriveUncounted, ArriveAudio, Next, arrivalVars
<1>3. ArrivalSpec => Spec
  BY <1>1, <1>2, PTL DEF ArrivalSpec, Spec
<1> QED
  BY <1>3, Refinement, PTL

=============================================================================
