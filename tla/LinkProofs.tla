------------------------------- MODULE LinkProofs -------------------------------
(***************************************************************************)
(* Proofs about how a sender judges its link: the trains of Probe, for     *)
(* every ladder, length of a step, budget and bound, and what Adapt makes  *)
(* of them, for every set of paths and every bound.                        *)
(*                                                                         *)
(* A probe is counted once, since none is sent twice and none is on the    *)
(* way that was counted; so a count is at most the number of probes behind *)
(* it, at the receiver, in a report and in the sender's credit.  A profile *)
(* is at or past what the last train allowed, since a train moves it there *)
(* or leaves it past it, and a sample only takes it further down.          *)
(***************************************************************************)
EXTENDS Probe, Adapt, FiniteSetTheorems, TLAPS

(* No probe on the way was counted, and the next to send is a new one.     *)
NetFresh ==
  /\ net \cap delivered = {}
  /\ \A p \in net \cup delivered : p.gen < gen \/ (p.gen = gen /\ p.i <= at)

(* What the receiver has counted of the train it is counting.              *)
CountsTruthful == \A s \in Ladder : counts[s] <= Cardinality(Counted(epoch, rgen, s))

IInv == TypeOK /\ NetFresh /\ CountsTruthful /\ ReportsTruthful /\ CreditsDelivered

-----------------------------------------------------------------------------
(* The plan goes up the ladder one step at a time.                         *)
LEMMA StepInLadder == \A i \in 1 .. PlanLength : StepOf(i) \in Ladder
<1> SUFFICES ASSUME NEW i \in 1 .. PlanLength PROVE StepOf(i) \in Ladder
  OBVIOUS
<1> DEFINE q == (i - 1) \div PerStep
<1>1. i \in Nat /\ 1 <= i /\ i - 1 < Steps * PerStep /\ PerStep \in Nat /\ PerStep > 0 /\ Steps \in Nat
  BY StepsAssumption, PerStepAssumption DEF PlanLength
<1>2. q \in Int /\ q * PerStep <= i - 1 /\ i - 1 < (q + 1) * PerStep
  BY <1>1
<1> HIDE DEF q
<1>3. q >= 0
  BY <1>1, <1>2
<1>4. q < Steps
  BY <1>1, <1>2
<1> QED
  BY <1>1, <1>2, <1>3, <1>4 DEF StepOf, Ladder, q

(* What was counted can be numbered.                                       *)
LEMMA CountedFinite ==
  ASSUME IsFiniteSet(delivered)
  PROVE  \A e, g, s : IsFiniteSet(Counted(e, g, s)) /\ Cardinality(Counted(e, g, s)) \in Nat
BY FS_Subset, FS_CardinalityType DEF Counted

(* Counted never shrinks while delivered only grows.                       *)
LEMMA CountedGrows ==
  ASSUME delivered \subseteq delivered', IsFiniteSet(delivered')
  PROVE  \A e, g, s : /\ IsFiniteSet(Counted(e, g, s)')
                      /\ Cardinality(Counted(e, g, s)) <= Cardinality(Counted(e, g, s)')
                      /\ Cardinality(Counted(e, g, s)) \in Nat
                      /\ Cardinality(Counted(e, g, s)') \in Nat
<1> TAKE e, g, s
<1>1. Counted(e, g, s) \subseteq Counted(e, g, s)'
  BY DEF Counted
<1>2. IsFiniteSet(Counted(e, g, s)')
  <2>1. Counted(e, g, s)' \subseteq delivered'
    BY DEF Counted
  <2> QED
    BY <2>1, FS_Subset
<1> QED
  BY <1>1, <1>2, FS_Subset, FS_CardinalityType

(* At most a, and a is at most b.                                          *)
LEMMA AtMost ==
  ASSUME NEW n \in Nat, NEW a \in Nat, NEW b \in Nat, n <= a, a <= b
  PROVE  n <= b
OBVIOUS

LEMMA InitInv == Init => IInv
<1> SUFFICES ASSUME Init PROVE IInv
  OBVIOUS
<1>1. IsFiniteSet({})
  BY FS_EmptySet
<1>2. TypeOK
  <2>1. Zero \in [Ladder -> Nat]
    BY DEF Zero
  <2>2. 0 \in 0 .. PlanLength /\ 0 \in 0 .. Steps
    BY StepsAssumption, PerStepAssumption DEF PlanLength
  <2> QED
    BY <1>1, <2>1, <2>2 DEF Init, TypeOK
<1>3. NetFresh
  BY DEF Init, NetFresh
<1>4. \A e, g, s : Cardinality(Counted(e, g, s)) \in Nat
  BY <1>2, CountedFinite DEF TypeOK
<1>5. CountsTruthful /\ CreditsDelivered
  BY <1>4 DEF Init, CountsTruthful, CreditsDelivered, Zero
<1>6. ReportsTruthful
  BY DEF Init, ReportsTruthful
<1> QED
  BY <1>2, <1>3, <1>5, <1>6 DEF IInv

(* A new train: no credit yet, and its probes are new.                     *)
LEMMA BeginTrainInv ==
  ASSUME IInv, BeginTrain, key' \in Nat, UNCHANGED <<floor, recvVars, net, reports>>
  PROVE  IInv'
<1>t. TypeOK
  BY DEF IInv
<1>1. TypeOK'
  <2>1. credited' \in [Ladder -> Nat]
    BY DEF BeginTrain, Zero
  <2>2. at' \in 0 .. PlanLength
    BY StepsAssumption, PerStepAssumption DEF BeginTrain, PlanLength
  <2> QED
    BY <1>t, <2>1, <2>2 DEF BeginTrain, recvVars, TypeOK
<1>2. NetFresh'
  <2>1. \A p \in net \cup delivered : p.gen < gen'
    <3>1. \A p \in net \cup delivered : p.gen \in Nat
      BY <1>t DEF TypeOK, Probes
    <3> QED
      BY <1>t, <3>1 DEF IInv, NetFresh, TypeOK, BeginTrain
  <2> QED
    BY <2>1 DEF IInv, NetFresh, recvVars
<1>3. CountsTruthful' /\ ReportsTruthful'
  BY DEF IInv, CountsTruthful, ReportsTruthful, recvVars, Counted
<1>4. CreditsDelivered'
  <2>1. \A e, g, s : Cardinality(Counted(e, g, s)') \in Nat
    BY <1>1, CountedFinite, CountedGrows, <1>t DEF TypeOK, recvVars
  <2> QED
    BY <2>1 DEF BeginTrain, Zero, CreditsDelivered
<1> QED
  BY <1>1, <1>2, <1>3, <1>4 DEF IInv

LEMMA SendProbeInv == ASSUME IInv, SendProbe PROVE IInv'
<1> DEFINE p == [epoch |-> key, gen |-> gen, i |-> at']
<1>t. TypeOK
  BY DEF IInv
<1>1. at' = at + 1 /\ at' \in 1 .. PlanLength
  <2>1. at \in Nat /\ at < PlanLength /\ at' = at + 1 /\ PlanLength \in Nat
    BY <1>t, StepsAssumption, PerStepAssumption DEF SendProbe, TypeOK, PlanLength
  <2> QED
    BY <2>1
<1>2. p \in Probes /\ net' = net \cup {p} /\ delivered' = delivered
  BY <1>1, <1>t DEF SendProbe, Probes, TypeOK, recvVars
<1>3. TypeOK'
  <2>1. net' \subseteq Probes
    BY <1>2, <1>t DEF TypeOK
  <2>2. at' \in 0 .. PlanLength
    BY <1>1
  <2> QED
    BY <1>t, <2>1, <2>2 DEF SendProbe, TypeOK, recvVars
<1>4. NetFresh'
  <2>1. \A q \in net \cup delivered : q.gen < gen \/ (q.gen = gen /\ q.i <= at)
    BY DEF IInv, NetFresh
  <2>2. \A q \in net \cup delivered : q.i \in Nat
    BY <1>t DEF TypeOK, Probes
  <2>3. at \in Nat /\ gen \in Nat /\ gen' = gen
    BY <1>t DEF TypeOK, SendProbe
  <2>4. p.gen = gen /\ p.i = at'
    OBVIOUS
  <2>5. p \notin delivered
    BY <2>1, <2>3, <2>4, <1>1
  <2>6. \A q \in net \cup delivered : q.gen < gen' \/ (q.gen = gen' /\ q.i <= at')
    BY <2>1, <2>2, <2>3, <1>1
  <2>7. \A q \in net' \cup delivered' : q.gen < gen' \/ (q.gen = gen' /\ q.i <= at')
    BY <2>3, <2>4, <2>6, <1>1, <1>2
  <2>8. net' \cap delivered' = {}
    BY <2>5, <1>2 DEF IInv, NetFresh
  <2> QED
    BY <2>7, <2>8 DEF NetFresh
<1>5. CountsTruthful' /\ ReportsTruthful' /\ CreditsDelivered'
  BY DEF IInv, CountsTruthful, ReportsTruthful, CreditsDelivered, recvVars, Counted, SendProbe
<1> QED
  BY <1>3, <1>4, <1>5 DEF IInv

LEMMA JudgeTrainInv == ASSUME IInv, JudgeTrain PROVE IInv'
<1>1. floor' \in 0 .. Steps
  <2>1. Sustained \subseteq 1 .. Steps
    BY DEF Sustained, Ladder
  <2>2. CASE Sustained = {} /\ floor' = 0
    BY <2>2, StepsAssumption
  <2>3. ASSUME NEW best \in Sustained, floor' \in 0 .. best PROVE floor' \in 0 .. Steps
    BY <2>1, <2>3, StepsAssumption
  <2> QED
    BY <2>2, <2>3 DEF JudgeTrain
<1>2. TypeOK'
  BY <1>1 DEF IInv, TypeOK, JudgeTrain, recvVars
<1>3. NetFresh' /\ CountsTruthful' /\ ReportsTruthful' /\ CreditsDelivered'
  BY DEF IInv, NetFresh, CountsTruthful, ReportsTruthful, CreditsDelivered, recvVars, Counted, JudgeTrain
<1> QED
  BY <1>2, <1>3 DEF IInv

(* A probe that comes in: one more counted, and one more behind the count. *)
LEMMA ApplyProbeInv == ASSUME IInv, NEW p \in net, ApplyProbe(p) PROVE IInv'
<1>t. TypeOK
  BY DEF IInv
<1>p. p \in Probes /\ p \notin delivered /\ StepOf(p.i) \in Ladder
  BY <1>t, StepInLadder DEF IInv, NetFresh, TypeOK, Probes
<1>n. net' \subseteq net /\ UNCHANGED <<epoch, key, gen, at, probing, credited, floor, reports>>
  BY DEF ApplyProbe, sendVars
<1>1. CASE p.epoch # epoch
  <2>1. UNCHANGED <<rgen, counts, delivered>>
    BY <1>1 DEF ApplyProbe
  <2>2. TypeOK'
    BY <1>t, <1>n, <2>1 DEF TypeOK
  <2>3. NetFresh' /\ CountsTruthful' /\ ReportsTruthful' /\ CreditsDelivered'
    BY <1>n, <2>1 DEF IInv, NetFresh, CountsTruthful, ReportsTruthful, CreditsDelivered, Counted
  <2> QED
    BY <2>2, <2>3 DEF IInv
<1>2. CASE p.epoch = epoch
  <2> DEFINE t == StepOf(p.i)
             C == CountsFor(p.gen)
  <2>1. /\ net' = net \ {p} /\ rgen' = p.gen /\ delivered' = delivered \cup {p}
        /\ counts' = [C EXCEPT ![t] = @ + 1]
    BY <1>2 DEF ApplyProbe
  <2>2. C \in [Ladder -> Nat]
    BY <1>t DEF CountsFor, Zero, TypeOK
  <2>3. IsFiniteSet(delivered) /\ IsFiniteSet(delivered')
    BY <1>t, <2>1, FS_AddElement DEF TypeOK
  <2>4. TypeOK'
    <3>1. counts' \in [Ladder -> Nat]
      <4>1. t \in Ladder
        BY <1>p
      <4> HIDE DEF t, C
      <4>2. C[t] + 1 \in Nat
        BY <4>1, <2>2
      <4> QED
        BY <4>1, <4>2, <2>1, <2>2
    <3>2. rgen' \in Nat /\ delivered' \subseteq Probes
      BY <1>p, <1>t, <2>1 DEF Probes, TypeOK
    <3> QED
      BY <1>t, <1>n, <2>3, <3>1, <3>2 DEF TypeOK
  <2>5. NetFresh'
    BY <1>n, <2>1 DEF IInv, NetFresh
  <2>6. /\ \A e, g, s : /\ Cardinality(Counted(e, g, s)) <= Cardinality(Counted(e, g, s)')
                        /\ Cardinality(Counted(e, g, s)) \in Nat
                        /\ Cardinality(Counted(e, g, s)') \in Nat
    BY <2>1, <2>3, CountedGrows
  <2>7. CountsTruthful'
    <3> SUFFICES ASSUME NEW s \in Ladder
                 PROVE  counts'[s] <= Cardinality(Counted(epoch, p.gen, s)')
      BY <1>n, <2>1 DEF CountsTruthful, Counted
    <3>1. C[s] <= Cardinality(Counted(epoch, p.gen, s))
      <4>1. CASE p.gen = rgen
        BY <4>1 DEF CountsFor, IInv, CountsTruthful
      <4>2. CASE p.gen # rgen
        BY <4>2, <2>6 DEF CountsFor, Zero
      <4> QED
        BY <4>1, <4>2
    <3>4. C[s] \in Nat
      BY <2>2
    <3>5. /\ Cardinality(Counted(epoch, p.gen, s)) <= Cardinality(Counted(epoch, p.gen, s)')
          /\ Cardinality(Counted(epoch, p.gen, s)) \in Nat
          /\ Cardinality(Counted(epoch, p.gen, s)') \in Nat
      <4>1. PICK e : e = epoch /\ e = epoch'
        BY <1>n
      <4>2. /\ Cardinality(Counted(e, p.gen, s)) <= Cardinality(Counted(e, p.gen, s)')
            /\ Cardinality(Counted(e, p.gen, s)) \in Nat
            /\ Cardinality(Counted(e, p.gen, s)') \in Nat
        BY <2>6
      <4> QED
        BY <4>1, <4>2
    <3>2. CASE s # t
      <4>1. counts'[s] = C[s]
        BY <3>2, <2>1, <2>2
      <4> QED
        BY <4>1, <3>4, <3>5, <3>1, AtMost
    <3>3. CASE s = t
      <4>1. counts'[s] = C[s] + 1
        BY <3>3, <2>1, <2>2
      <4>2. Counted(epoch, p.gen, s)' = Counted(epoch, p.gen, s) \cup {p}
        BY <3>3, <2>1, <1>2, <1>n DEF Counted
      <4>3. p \notin Counted(epoch, p.gen, s)
        BY <1>p DEF Counted
      <4>4. Cardinality(Counted(epoch, p.gen, s)') = Cardinality(Counted(epoch, p.gen, s)) + 1
        BY <4>2, <4>3, <2>3, CountedFinite, FS_AddElement
      <4> QED
        BY <4>1, <4>4, <3>1, <2>2, <2>6
    <3> QED
      BY <3>2, <3>3
  <2>8. ReportsTruthful'
    <3> SUFFICES ASSUME NEW r \in reports, NEW s \in Ladder
                 PROVE  r.counts[s] <= Cardinality(Counted(r.epoch, r.gen, s)')
      BY <1>n DEF ReportsTruthful, Counted
    <3>1. r.counts[s] <= Cardinality(Counted(r.epoch, r.gen, s))
      BY DEF IInv, ReportsTruthful
    <3>2. r.counts[s] \in Nat
      BY <1>t DEF TypeOK, Reports
    <3> QED
      BY <3>1, <3>2, <2>6
  <2>9. CreditsDelivered'
    <3> SUFFICES ASSUME NEW s \in Ladder
                 PROVE  credited[s] <= Cardinality(Counted(key, gen, s)')
      BY <1>n DEF CreditsDelivered, Counted
    <3>1. credited[s] <= Cardinality(Counted(key, gen, s)) /\ credited[s] \in Nat
      BY <1>t DEF IInv, CreditsDelivered, TypeOK
    <3>2. /\ Cardinality(Counted(key, gen, s)) <= Cardinality(Counted(key, gen, s)')
          /\ Cardinality(Counted(key, gen, s)) \in Nat
          /\ Cardinality(Counted(key, gen, s)') \in Nat
      <4>1. PICK e, g : e = key /\ e = key' /\ g = gen /\ g = gen'
        BY <1>n
      <4>2. /\ Cardinality(Counted(e, g, s)) <= Cardinality(Counted(e, g, s)')
            /\ Cardinality(Counted(e, g, s)) \in Nat
            /\ Cardinality(Counted(e, g, s)') \in Nat
        BY <2>6
      <4> QED
        BY <4>1, <4>2
    <3> QED
      BY <3>1, <3>2, AtMost
  <2> QED
    BY <2>4, <2>5, <2>7, <2>8, <2>9 DEF IInv
<1> QED
  BY <1>1, <1>2

LEMMA FeedbackInv == ASSUME IInv, Feedback PROVE IInv'
<1> DEFINE r == [epoch |-> epoch, gen |-> rgen, counts |-> counts]
<1>1. r \in Reports /\ reports' = reports \cup {r}
  BY DEF IInv, TypeOK, Reports, Feedback
<1>2. TypeOK'
  BY <1>1 DEF IInv, TypeOK, Feedback, recvVars, sendVars
<1>3. NetFresh' /\ CountsTruthful' /\ CreditsDelivered'
  BY DEF IInv, NetFresh, CountsTruthful, CreditsDelivered, Counted, Feedback, recvVars, sendVars
<1>4. ReportsTruthful'
  <2>1. \A s \in Ladder : r.counts[s] <= Cardinality(Counted(r.epoch, r.gen, s))
    BY DEF IInv, CountsTruthful
  <2> HIDE DEF r
  <2> QED
    BY <1>1, <2>1 DEF IInv, ReportsTruthful, Counted, Feedback, recvVars
<1> QED
  BY <1>2, <1>3, <1>4 DEF IInv

LEMMA HandleFeedbackInv == ASSUME IInv, NEW r \in reports, HandleFeedback(r) PROVE IInv'
<1>1. r \in Reports /\ reports' \subseteq reports
  BY DEF IInv, TypeOK, HandleFeedback
<1>2. TypeOK'
  <2>1. credited' \in [Ladder -> Nat]
    BY <1>1 DEF HandleFeedback, IInv, TypeOK, Reports
  <2> QED
    BY <1>1, <2>1 DEF IInv, TypeOK, HandleFeedback, recvVars
<1>3. NetFresh' /\ CountsTruthful' /\ ReportsTruthful'
  BY <1>1 DEF IInv, NetFresh, CountsTruthful, ReportsTruthful, Counted, HandleFeedback, recvVars
<1>4. CreditsDelivered'
  <2>1. UNCHANGED <<key, gen, delivered>>
    BY DEF HandleFeedback, recvVars
  <2>2. CASE OwnTrain(r)
    <3>1. credited' = r.counts /\ r.epoch = key /\ r.gen = gen
      BY <2>2 DEF HandleFeedback, OwnTrain
    <3>2. \A s \in Ladder : r.counts[s] <= Cardinality(Counted(r.epoch, r.gen, s))
      BY DEF IInv, ReportsTruthful
    <3> QED
      BY <2>1, <3>1, <3>2 DEF CreditsDelivered, Counted
  <2>3. CASE ~OwnTrain(r)
    BY <2>1, <2>3 DEF IInv, CreditsDelivered, Counted, HandleFeedback
  <2> QED
    BY <2>2, <2>3
<1> QED
  BY <1>2, <1>3, <1>4 DEF IInv

LEMMA NewEpochInv == ASSUME IInv, NewEpoch PROVE IInv'
<1>t. TypeOK
  BY DEF IInv
<1>1. TypeOK'
  BY <1>t DEF TypeOK, NewEpoch, sendVars, Zero
<1>2. NetFresh' /\ ReportsTruthful' /\ CreditsDelivered'
  BY DEF IInv, NetFresh, ReportsTruthful, CreditsDelivered, Counted, NewEpoch, sendVars
<1>3. CountsTruthful'
  <2>1. \A e, g, s : Cardinality(Counted(e, g, s)') \in Nat
    BY <1>t, <1>1, CountedGrows DEF TypeOK, NewEpoch
  <2> QED
    BY <2>1 DEF NewEpoch, Zero, CountsTruthful
<1> QED
  BY <1>1, <1>2, <1>3 DEF IInv

LEMMA NextInv == IInv /\ [Next]_vars => IInv'
<1> SUFFICES ASSUME IInv, [Next]_vars PROVE IInv'
  OBVIOUS
<1>1. CASE Retrain
  BY <1>1, BeginTrainInv DEF Retrain, IInv, TypeOK
<1>2. CASE NewSession
  BY <1>2, BeginTrainInv DEF NewSession, IInv, TypeOK
<1>3. CASE SendProbe
  BY <1>3, SendProbeInv
<1>4. CASE JudgeTrain
  BY <1>4, JudgeTrainInv
<1>5. ASSUME NEW p \in net, ApplyProbe(p) PROVE IInv'
  BY <1>5, ApplyProbeInv
<1>6. CASE Feedback
  BY <1>6, FeedbackInv
<1>7. ASSUME NEW r \in reports, HandleFeedback(r) PROVE IInv'
  BY <1>7, HandleFeedbackInv
<1>8. CASE NewEpoch
  BY <1>8, NewEpochInv
<1>9. CASE UNCHANGED vars
  BY <1>9 DEF vars, IInv, TypeOK, NetFresh, CountsTruthful, ReportsTruthful, CreditsDelivered, Counted
<1> QED
  BY <1>1, <1>2, <1>3, <1>4, <1>5, <1>6, <1>7, <1>8, <1>9 DEF Next

LEMMA Invariance == Spec => []IInv
  BY InitInv, NextInv, PTL DEF Spec

(* A sender credits a train with no more than what arrived of it.          *)
THEOREM CreditsAreDelivered == Spec => []CreditsDelivered
<1>1. IInv => CreditsDelivered
  BY DEF IInv
<1> QED
  BY <1>1, Invariance, PTL

(* A receiver's feedback tells of no probe that did not arrive.            *)
THEOREM ReportsAreTruthful == Spec => []ReportsTruthful
<1>1. IInv => ReportsTruthful
  BY DEF IInv
<1> QED
  BY <1>1, Invariance, PTL

(* The estimated goodput rests on a step that cleared the loss budget.     *)
THEOREM FloorIsBacked == Spec => FloorBacked
<1>1. IInv /\ [Next]_vars
        => [probing /\ ~probing' =>
              floor' = 0 \/ \E s \in floor' .. Steps :
                              Cardinality(Counted(key, gen, s)) * 100 >= PerStep * Budget]_vars
  <2> SUFFICES ASSUME IInv, Next, probing, ~probing'
               PROVE  floor' = 0 \/ \E s \in floor' .. Steps :
                        Cardinality(Counted(key, gen, s)) * 100 >= PerStep * Budget
    OBVIOUS
  <2>1. JudgeTrain
    BY DEF Next, Retrain, NewSession, BeginTrain, SendProbe, ApplyProbe, Feedback, HandleFeedback,
           NewEpoch, sendVars
  <2>2. ASSUME NEW best \in Sustained, floor' \in 0 .. best
        PROVE  \E s \in floor' .. Steps :
                 Cardinality(Counted(key, gen, s)) * 100 >= PerStep * Budget
    <3>1. best \in Ladder /\ credited[best] * 100 >= PerStep * Budget
      BY DEF Sustained
    <3>2. credited[best] <= Cardinality(Counted(key, gen, best)) /\ credited[best] \in Nat
      BY <3>1 DEF IInv, CreditsDelivered, TypeOK
    <3>3. Cardinality(Counted(key, gen, best)) \in Nat
      BY CountedFinite DEF IInv, TypeOK
    <3>4. Cardinality(Counted(key, gen, best)) * 100 >= PerStep * Budget
      <4> DEFINE k == Cardinality(Counted(key, gen, best))
                 b == PerStep * Budget
      <4>1. b \in Nat
        BY PerStepAssumption, BudgetAssumption
      <4>2. credited[best] * 100 >= b /\ credited[best] <= k /\ k \in Nat
        BY <3>1, <3>2, <3>3
      <4> HIDE DEF k, b
      <4>3. k * 100 >= b
        BY <4>1, <4>2, <3>2
      <4> QED
        BY <4>3 DEF k, b
    <3>5. best \in floor' .. Steps
      BY <2>2, <3>1, StepsAssumption DEF Ladder
    <3> QED
      BY <3>4, <3>5
  <2> QED
    BY <2>1, <2>2 DEF JudgeTrain
<1> QED
  BY <1>1, Invariance, PTL DEF Spec, FloorBacked


-----------------------------------------------------------------------------
(* Adapt.  Profiles and buffers stay within the range of the code.         *)
LEMMA ProfileRange ==
  ASSUME NEW p \in Profiles
  PROVE  /\ StepDown(p) \in Profiles /\ StepDown(p) >= p
         /\ StepUp(p) \in Profiles /\ StepUp(p) >= p - 1
         /\ p > 0 => StepUp(p) = p - 1
         /\ DefaultBuffer(p) \in MinBuffer .. MaxBuffer
BY DEF Profiles, StepDown, StepUp, Smaller, Larger, DefaultBuffer, MinBuffer, MaxBuffer

LEMMA ClampRange == \A n \in Int : Clamp(n) \in MinBuffer .. MaxBuffer
BY DEF Clamp, Larger, Smaller, MinBuffer, MaxBuffer

(* A step toward a buffer in the range stays in the range.                 *)
LEMMA TowardRange ==
  ASSUME target \in MinBuffer .. MaxBuffer, NEW w \in MinBuffer .. MaxBuffer
  PROVE  Toward(w) \in MinBuffer .. MaxBuffer
BY DEF Toward, Larger, Smaller, MinBuffer, MaxBuffer

LEMMA PacketsRange ==
  ASSUME NEW a \in MinBuffer .. MaxBuffer, NEW b \in MinBuffer .. MaxBuffer
  PROVE  PacketsOf(a, b) \in 4 .. 30
BY DEF PacketsOf, Larger, MinBuffer, MaxBuffer

LEMMA WantRange ==
  ASSUME AdaptTypeOK, NEW u \in {0, 1, 3}
  PROVE  Want(u) \in MinBuffer .. MaxBuffer
<1>1. DefaultBuffer(profile) \in Int /\ path.jitter \in Int /\ path.rtt \in Int
  BY ProfileRange, PathsAssumption DEF AdaptTypeOK, MinBuffer, MaxBuffer
<1> QED
  BY <1>1, ClampRange DEF Want

LEMMA AdaptInitInv == AdaptInit => AdaptTypeOK /\ WithinFloor
<1> SUFFICES ASSUME AdaptInit PROVE AdaptTypeOK /\ WithinFloor
  OBVIOUS
<1>1. /\ 0 \in 0 .. MaxChanges /\ 0 \in 0 .. MaxNoise /\ 0 \in Profiles
      /\ 20 \in MinBuffer .. MaxBuffer /\ 0 \in 0 .. 1 /\ 0 \in 0 .. 3 /\ 4 \in 4 .. 30
  BY ChangesAssumption DEF Profiles, MinBuffer, MaxBuffer
<1>2. WithinFloor
  BY DEF AdaptInit, WithinFloor
<1> QED
  BY <1>1, <1>2 DEF AdaptInit, AdaptTypeOK

(* What a train that allows f does to the sender.                          *)
LEMMA TrainSteps ==
  ASSUME AdaptTypeOK, NEW f \in Profiles, Train(f)
  PROVE  /\ profile' \in Profiles /\ target' \in MinBuffer .. MaxBuffer /\ bad' = 0
         /\ profile' >= allowed' /\ allowed' = f /\ gradual' = TRUE
         /\ profile' < profile /\ gradual => profile' = profile - 1
<1>1. /\ profile \in Profiles /\ profile \in 0 .. 2 /\ f \in 0 .. 2
      /\ target \in MinBuffer .. MaxBuffer /\ gradual \in BOOLEAN
  BY DEF AdaptTypeOK, Profiles
<1>2. profile' = ProfileFor(f) /\ bad' = 0 /\ gradual' = TRUE /\ allowed' = f
  BY DEF Train, ApplyFloor
<1>3. target' \in MinBuffer .. MaxBuffer
  <2>1. DefaultBuffer(f) \in MinBuffer .. MaxBuffer
    BY <1>1, ProfileRange
  <2>2. Clamp(Larger(target, DefaultBuffer(f))) \in MinBuffer .. MaxBuffer
    BY <1>1, <2>1, ClampRange DEF Larger, MinBuffer, MaxBuffer
  <2> QED
    BY <1>1, <2>1, <2>2 DEF Train, ApplyFloor
<1>4. CASE f > profile \/ ~gradual
  BY <1>1, <1>2, <1>3, <1>4 DEF ProfileFor
<1>5. CASE ~(f > profile \/ ~gradual)
  BY <1>1, <1>2, <1>3, <1>5, ProfileRange DEF ProfileFor
<1> QED
  BY <1>4, <1>5

(* Invariance, for each kind of step.                                      *)
LEMMA TrainInv ==
  ASSUME AdaptTypeOK, NEW f \in Profiles, Train(f), noise' \in 0 .. MaxNoise
  PROVE  (AdaptTypeOK /\ WithinFloor)'
<1>1. UNCHANGED <<path, changes, local, stable, suggested, packets>>
  BY DEF Train, receiverVars
<1>2. /\ profile' \in Profiles /\ allowed' \in Profiles /\ bad' = 0 /\ gradual' = TRUE
      /\ target' \in MinBuffer .. MaxBuffer
  BY TrainSteps
<1>3. AdaptTypeOK'
  BY <1>1, <1>2 DEF AdaptTypeOK
<1> QED
  BY <1>3, TrainSteps DEF WithinFloor

LEMMA ObserveInv ==
  ASSUME AdaptTypeOK, WithinFloor, NEW loss \in Losses, NEW u \in Underruns, Observe(loss, u),
         noise' \in 0 .. MaxNoise
  PROVE  (AdaptTypeOK /\ WithinFloor)' /\ profile' >= profile
<1>1. UNCHANGED <<path, changes, gradual, allowed, local, stable, suggested, packets>>
  BY DEF Observe, receiverVars
<1>2. target' \in MinBuffer .. MaxBuffer
  BY WantRange, TowardRange DEF Observe, Underruns, AdaptTypeOK
<1>3. profile' \in Profiles /\ profile' >= profile
  BY ProfileRange DEF Observe, AdaptTypeOK, Profiles
<1>4. bad' \in 0 .. 1
  BY DEF Observe, BadAfter
<1>5. WithinFloor'
  BY <1>1, <1>3 DEF WithinFloor, AdaptTypeOK, Profiles
<1> QED
  BY <1>1, <1>2, <1>3, <1>4, <1>5 DEF AdaptTypeOK

LEMMA RetargetInv ==
  ASSUME AdaptTypeOK, WithinFloor, NEW u \in Underruns, Retarget(u), noise' \in 0 .. MaxNoise
  PROVE  (AdaptTypeOK /\ WithinFloor)' /\ profile' = profile
<1>1. UNCHANGED <<path, changes, suggested, profile, target, bad, gradual, allowed>>
  BY DEF Retarget, senderVars
<1>2. local' \in MinBuffer .. MaxBuffer /\ stable' \in 0 .. 3
  <2>1. local \in MinBuffer .. MaxBuffer /\ stable \in 0 .. 3 /\ u \in {0, 1, 3}
    BY DEF AdaptTypeOK, Underruns
  <2>2. ReceiverObserve(u)
    BY DEF Retarget
  <2> QED
    BY <2>1, <2>2 DEF ReceiverObserve, Smaller, Larger, MinBuffer, MaxBuffer
<1>3. packets' \in 4 .. 30
  BY <1>2, PacketsRange DEF Retarget, AdaptTypeOK
<1> QED
  BY <1>1, <1>2, <1>3 DEF AdaptTypeOK, WithinFloor

LEMMA AdaptNextInv ==
  ASSUME AdaptTypeOK, WithinFloor, [AdaptNext]_adaptVars
  PROVE  (AdaptTypeOK /\ WithinFloor)'
<1>1. path.rank \in Profiles /\ 0 \in Underruns /\ "heavy" \in Losses /\ "none" \in Losses
  BY PathsAssumption DEF AdaptTypeOK, Profiles, Underruns, Losses
<1>2. Quiet => noise' \in 0 .. MaxNoise
  BY DEF Quiet, AdaptTypeOK
<1>3. Disturbed => noise' \in 0 .. MaxNoise
  BY ChangesAssumption DEF Disturbed, AdaptTypeOK
<1>4. CASE TrainJudged
  <2>1. PICK f \in Profiles : Train(f) /\ (Quiet \/ Disturbed)
    BY <1>1, <1>4 DEF TrainJudged, TrainFair
  <2> QED
    BY <1>2, <1>3, <2>1, TrainInv
<1>5. CASE ObserveFeedback
  BY <1>1, <1>2, <1>3, <1>5, ObserveInv DEF ObserveFeedback, FeedbackFair
<1>6. CASE FeedbackDue
  BY <1>1, <1>2, <1>3, <1>6, RetargetInv DEF FeedbackDue, DueFair
<1>7. CASE ApplyAudio
  BY <1>7 DEF ApplyAudio, senderVars, AdaptTypeOK, WithinFloor
<1>8. CASE SessionAnew
  <2>1. 4 \in 4 .. 30 /\ 20 \in MinBuffer .. MaxBuffer /\ 0 \in 0 .. 3
    BY DEF MinBuffer, MaxBuffer
  <2>2. /\ local' \in MinBuffer .. MaxBuffer /\ stable' \in 0 .. 3
        /\ suggested' \in MinBuffer .. MaxBuffer /\ packets' \in 4 .. 30
    BY <1>8, <2>1 DEF SessionAnew, FreshPeer, FreshStream, receiverVars, AdaptTypeOK
  <2>3. UNCHANGED <<profile, target, bad, allowed, path, changes>> /\ gradual' \in BOOLEAN
    BY <1>8 DEF SessionAnew
  <2>4. noise' \in 0 .. MaxNoise
    BY <1>8, <1>3 DEF SessionAnew
  <2> QED
    BY <2>2, <2>3, <2>4 DEF AdaptTypeOK, WithinFloor
<1>9. CASE PathChanges
  BY <1>9, ChangesAssumption DEF PathChanges, senderVars, receiverVars, AdaptTypeOK, WithinFloor
<1>10. CASE UNCHANGED adaptVars
  BY <1>10 DEF adaptVars, senderVars, receiverVars, AdaptTypeOK, WithinFloor
<1> QED
  BY <1>4, <1>5, <1>6, <1>7, <1>8, <1>9, <1>10 DEF AdaptNext

LEMMA AdaptInvariance == AdaptSpec => [](AdaptTypeOK /\ WithinFloor)
<1>1. AdaptTypeOK /\ WithinFloor /\ [AdaptNext]_adaptVars => (AdaptTypeOK /\ WithinFloor)'
  BY AdaptNextInv
<1> QED
  BY <1>1, AdaptInitInv, PTL DEF AdaptSpec

(* Profile, targets and counters of AdaptState and ReceiverAdapt keep to   *)
(* the range of the code: no sum of jitter and delay takes a buffer out of *)
(* 20 to 150 ms.                                                           *)
THEOREM AdaptTypeCorrect == AdaptSpec => []AdaptTypeOK
BY AdaptInvariance, PTL

(* observe and apply_floor never leave a profile in use that the last      *)
(* judged train said the path does not carry.                              *)
THEOREM KeptWithinFloor == AdaptSpec => []WithinFloor
BY AdaptInvariance, PTL

(* The quality goes up only when a train is judged, and by one step within *)
(* a session.                                                              *)
THEOREM UpOneStep == AdaptSpec => OneStepUp
<1>1. ASSUME AdaptTypeOK, WithinFloor, [AdaptNext]_adaptVars, profile' < profile
      PROVE  (gradual => profile' = profile - 1) /\ gradual' /\ bad' = 0
  <2>0. profile \in Int
    BY <1>1 DEF AdaptTypeOK, Profiles
  <2>1. path.rank \in Profiles /\ 0 \in Underruns /\ "heavy" \in Losses /\ "none" \in Losses
    BY <1>1, PathsAssumption DEF AdaptTypeOK, Profiles, Underruns, Losses
  <2>2. (Quiet \/ Disturbed) => noise' \in 0 .. MaxNoise
    BY <1>1, ChangesAssumption DEF Quiet, Disturbed, AdaptTypeOK
  <2>3. CASE TrainJudged
    <3>1. PICK f \in Profiles : Train(f)
      BY <2>1, <2>3 DEF TrainJudged, TrainFair
    <3> QED
      BY <1>1, <3>1, TrainSteps
  <2>4. ObserveFeedback => profile' >= profile
    BY <1>1, <2>1, <2>2, ObserveInv DEF ObserveFeedback, FeedbackFair
  <2>5. FeedbackDue => profile' = profile
    BY <1>1, <2>1, <2>2, RetargetInv DEF FeedbackDue, DueFair
  <2>6. ApplyAudio \/ SessionAnew \/ PathChanges \/ UNCHANGED adaptVars => profile' = profile
    BY DEF ApplyAudio, SessionAnew, PathChanges, adaptVars, senderVars
  <2> QED
    <3>1. ~(profile' >= profile) /\ ~(profile' = profile)
      <4>1. profile' \in Int
        BY <1>1, AdaptNextInv DEF AdaptTypeOK, Profiles
      <4> QED
        BY <1>1, <2>0, <4>1
    <3>2. TrainJudged
      BY <1>1, <2>4, <2>5, <2>6, <3>1 DEF AdaptNext
    <3> QED
      BY <2>3, <3>2
<1>2. AdaptTypeOK /\ WithinFloor /\ [AdaptNext]_adaptVars =>
        [profile' < profile =>
           (gradual => profile' = profile - 1) /\ gradual' /\ bad' = 0]_adaptVars
  BY <1>1
<1> QED
  BY <1>2, AdaptInvariance, PTL DEF AdaptSpec, OneStepUp

=============================================================================
