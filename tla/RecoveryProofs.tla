---------------------------- MODULE RecoveryProofs ----------------------------
(***************************************************************************)
(* What comes back by itself: theorems about Reconnect, for any number of  *)
(* receivers and faults, and about Devices, for any set of devices and     *)
(* picks and any grace and patience that suit each other.                  *)
(***************************************************************************)
EXTENDS Reconnect, Devices, FiniteSetTheorems, NaturalsInduction, TLAPS

(* Every id is drawn by a start or a rotation, and a receiver that runs    *)
(* again has crashed: the bound that Ids gives.                            *)
DrawsCounted == drawn <= Cardinality(up) + faults

(* No id is ahead of the last one drawn; the engine's epoch is not ahead   *)
(* of its receiver's; no answer to an open query is behind it.             *)
IdsOrdered ==
  /\ \A r \in Receivers : epoch[r] <= drawn /\ instance[r] <= drawn
  /\ bound.epoch <= epoch[bound.rx]
  /\ \A a \in found :
       a.epoch <= epoch[a.rx] /\ (a.rx = bound.rx => a.epoch >= bound.epoch)

IInv ==
  /\ TypeOK
  /\ DrawsCounted
  /\ IdsOrdered
  /\ OneVerify

-----------------------------------------------------------------------------
LEMMA InitInv == Init => IInv
<1> SUFFICES ASSUME Init PROVE IInv
  OBVIOUS
<1>1. Cardinality({}) = 0
  BY FS_EmptySet
<1>9. Cardinality(Receivers) \in Nat
  BY FS_CardinalityType, ReceiversAssumption
<1>2. 0 \in Ids
  BY <1>9, FaultsAssumption DEF Ids
<1>3. (CHOOSE r \in Receivers : TRUE) \in Receivers
  BY ReceiversAssumption
<1>4. TypeOK
  <2>1. bound \in Announces
    BY <1>2, <1>3 DEF Init, Announces
  <2>2. epoch \in [Receivers -> Ids] /\ instance \in [Receivers -> Ids]
    BY <1>2 DEF Init
  <2>3. drawn \in Ids /\ faults \in 0 .. MaxFaults /\ misses \in 0 .. 2 /\ tasks \in Nat
    BY <1>2, FaultsAssumption DEF Init
  <2>4. up \subseteq Receivers /\ admitted \subseteq up /\ asking \subseteq up
        /\ found \subseteq Announces
    BY DEF Init
  <2>5. phase \in {"seek", "stream"} /\ inflight \in BOOLEAN /\ healthy \in BOOLEAN
    BY DEF Init
  <2>6. named \in Choices
    BY DEF Init
  <2> QED
    BY <2>1, <2>2, <2>3, <2>4, <2>5, <2>6 DEF TypeOK
<1>5. DrawsCounted
  BY <1>1 DEF Init, DrawsCounted
<1>6. IdsOrdered
  BY <1>3 DEF Init, IdsOrdered
<1>7. OneVerify
  BY DEF Init, OneVerify
<1> QED
  BY <1>4, <1>5, <1>6, <1>7 DEF IInv

(* What TypeOK says of the numbers, and of the receivers as a set.         *)
LEMMA Numbers ==
  ASSUME TypeOK
  PROVE  /\ drawn \in Nat /\ faults \in Nat
         /\ \A r \in Receivers : epoch[r] \in Nat /\ instance[r] \in Nat
         /\ bound.rx \in Receivers /\ bound.epoch \in Nat /\ bound.instance \in Nat
         /\ \A a \in found : a.rx \in Receivers /\ a.epoch \in Nat
         /\ IsFiniteSet(up)
         /\ Cardinality(up) \in Nat
         /\ Cardinality(up) <= Cardinality(Receivers)
         /\ Cardinality(Receivers) \in Nat
<1>1. Cardinality(Receivers) \in Nat
  BY FS_CardinalityType, ReceiversAssumption
<1>2. Ids \subseteq Nat
  BY <1>1, FaultsAssumption DEF Ids
<1>3. up \subseteq Receivers
  BY DEF TypeOK
<1>4. IsFiniteSet(up) /\ Cardinality(up) <= Cardinality(Receivers) /\ Cardinality(up) \in Nat
  BY <1>3, FS_Subset, FS_CardinalityType, ReceiversAssumption
<1>5. /\ drawn \in Ids /\ faults \in 0 .. MaxFaults
      /\ epoch \in [Receivers -> Ids] /\ instance \in [Receivers -> Ids]
  BY DEF TypeOK
<1>7. \A r \in Receivers : epoch[r] \in Nat /\ instance[r] \in Nat
  BY <1>2, <1>5
<1>8. drawn \in Nat /\ faults \in Nat
  BY <1>2, <1>5, FaultsAssumption
<1>6. /\ bound.rx \in Receivers /\ bound.epoch \in Nat /\ bound.instance \in Nat
      /\ \A a \in found : a.rx \in Receivers /\ a.epoch \in Nat
  BY <1>2 DEF TypeOK, Announces
<1> QED
  BY <1>1, <1>4, <1>6, <1>7, <1>8

LEMMA NextInv == IInv /\ [Next]_vars => IInv'
<1> SUFFICES ASSUME IInv, [Next]_vars PROVE IInv'
  OBVIOUS
<1> USE FaultsAssumption
<1>t. TypeOK /\ DrawsCounted /\ IdsOrdered /\ OneVerify
  BY DEF IInv
<1>n. /\ drawn \in Nat /\ faults \in Nat
      /\ \A r \in Receivers : epoch[r] \in Nat /\ instance[r] \in Nat
      /\ bound.rx \in Receivers /\ bound.epoch \in Nat /\ bound.instance \in Nat
      /\ \A a \in found : a.rx \in Receivers /\ a.epoch \in Nat
      /\ IsFiniteSet(up)
      /\ Cardinality(up) \in Nat
      /\ Cardinality(up) <= Cardinality(Receivers)
      /\ Cardinality(Receivers) \in Nat
  BY <1>t, Numbers
<1>1. ASSUME NEW r \in Receivers, Start(r) PROVE IInv'
  <2>1. Cardinality(up') = Cardinality(up) + 1 /\ Cardinality(up') <= Cardinality(Receivers)
    <3>1. up' = up \cup {r} /\ r \notin up /\ up' \subseteq Receivers
      BY <1>1, <1>t DEF Start, TypeOK
    <3> QED
      BY <3>1, <1>n, FS_AddElement, FS_Subset, ReceiversAssumption
  <2>2. DrawsCounted'
    BY <1>1, <2>1, <1>n, <1>t DEF Start, DrawsCounted
  <2>3. drawn + 1 \in Ids
    BY <1>1, <2>1, <1>n, <1>t DEF DrawsCounted, Ids, TypeOK
  <2>4. TypeOK'
    BY <1>1, <2>3, <1>t DEF Start, TypeOK, query, verifying
  <2>5. \A q \in Receivers : /\ epoch'[q] = IF q = r THEN drawn + 1 ELSE epoch[q]
                             /\ instance'[q] = IF q = r THEN drawn + 1 ELSE instance[q]
    BY <1>1, <1>t DEF Start, TypeOK
  <2>6. IdsOrdered'
    BY <1>1, <2>5, <1>t, <1>n DEF Start, IdsOrdered, query
  <2> QED
    BY <1>1, <1>t, <2>2, <2>4, <2>6 DEF IInv, Start, OneVerify, verifying
<1>2. ASSUME NEW r \in Receivers, Crash(r) PROVE IInv'
  <2>1. Cardinality(up') = Cardinality(up) - 1
    BY <1>2, <1>n, FS_RemoveElement DEF Crash
  <2>2. DrawsCounted'
    BY <1>2, <2>1, <1>n, <1>t DEF Crash, Fault, DrawsCounted
  <2>3. TypeOK'
    BY <1>2, <1>t, <1>n DEF Crash, Fault, TypeOK, verifying
  <2> QED
    BY <1>2, <1>t, <2>2, <2>3 DEF IInv, Crash, IdsOrdered, OneVerify, verifying
<1>3. ASSUME NEW r \in Receivers, Rotate(r) PROVE IInv'
  <2>1. drawn + 1 \in Ids /\ DrawsCounted'
    BY <1>3, <1>n, <1>t DEF Rotate, Fault, DrawsCounted, Ids, TypeOK
  <2>2. TypeOK'
    BY <1>3, <2>1, <1>t, <1>n DEF Rotate, Fault, TypeOK, query, verifying
  <2>3. \A q \in Receivers : epoch'[q] = IF q = r THEN drawn + 1 ELSE epoch[q]
    BY <1>3, <1>t DEF Rotate, TypeOK
  <2>4. IdsOrdered'
    BY <1>3, <2>3, <1>t, <1>n DEF Rotate, IdsOrdered, query
  <2> QED
    BY <1>3, <1>t, <2>1, <2>2, <2>4 DEF IInv, Rotate, OneVerify, verifying
<1>4. ASSUME NEW r \in Receivers, Forget(r) PROVE IInv'
  <2>1. faults' \in 0 .. MaxFaults /\ faults' >= faults
    BY <1>4, <1>t, <1>n DEF Forget, Fault, TypeOK
  <2>2. TypeOK' /\ DrawsCounted'
    BY <1>4, <1>t, <1>n, <2>1 DEF Forget, TypeOK, DrawsCounted, receivers, query, verifying
  <2> QED
    BY <1>4, <1>t, <2>2 DEF IInv, Forget, IdsOrdered, OneVerify, receivers, query, verifying
<1>5. ASSUME NEW r \in Receivers, Answer(r) PROVE IInv'
  <2>1. AnnounceOf(r) \in Announces
    BY <1>t DEF AnnounceOf, Announces, TypeOK
  <2>2. TypeOK'
    BY <1>5, <2>1, <1>t DEF Answer, TypeOK, receivers, verifying
  <2>3. IdsOrdered'
    BY <1>5, <1>t, <1>n DEF Answer, AnnounceOf, IdsOrdered, receivers
  <2> QED
    BY <1>5, <1>t, <2>2, <2>3 DEF IInv, Answer, DrawsCounted, OneVerify, receivers, verifying
<1>6. ASSUME HelloArrives PROVE IInv'
  BY <1>6, <1>t DEF IInv, HelloArrives, PathUp, TypeOK, DrawsCounted, IdsOrdered, OneVerify,
     receivers, query, verifying
<1>7. ASSUME FeedbackArrives PROVE IInv'
  BY <1>7, <1>t DEF IInv, FeedbackArrives, TypeOK, DrawsCounted, IdsOrdered, OneVerify,
     receivers, query, verifying
<1>8. ASSUME FeedbackStale PROVE IInv'
  <2>1. faults' \in 0 .. MaxFaults /\ faults' >= faults
    BY <1>8, <1>t, <1>n DEF FeedbackStale, Fault, TypeOK
  <2>2. TypeOK'
    BY <1>8, <1>t, <2>1 DEF FeedbackStale, TypeOK, receivers, query, verifying
  <2>3. DrawsCounted'
    BY <1>8, <1>t, <1>n, <2>1 DEF FeedbackStale, DrawsCounted, receivers
  <2> QED
    BY <1>8, <1>t, <2>2, <2>3 DEF IInv, FeedbackStale, IdsOrdered, OneVerify, receivers, query,
       verifying
<1>9. ASSUME AnswersLost PROVE IInv'
  <2>1. faults' \in 0 .. MaxFaults /\ faults' >= faults
    BY <1>9, <1>t, <1>n DEF AnswersLost, Fault, TypeOK
  <2>2. TypeOK'
    BY <1>9, <1>t, <2>1 DEF AnswersLost, TypeOK, receivers, verifying
  <2>3. DrawsCounted'
    BY <1>9, <1>t, <1>n, <2>1 DEF AnswersLost, DrawsCounted, receivers
  <2> QED
    BY <1>9, <1>t, <2>2, <2>3 DEF IInv, AnswersLost, IdsOrdered, OneVerify, receivers, verifying
<1>10. ASSUME SeekAgain PROVE IInv'
  BY <1>10, <1>t DEF IInv, SeekAgain, OpenQuery, TypeOK, DrawsCounted, IdsOrdered, OneVerify,
     receivers, verifying
<1>11. ASSUME Bind PROVE IInv'
  <2>1. TypeOK'
    <3>1. inflight' \in BOOLEAN /\ healthy' \in BOOLEAN
      BY <1>11 DEF Bind
    <3>2. bound' \in Announces /\ phase' \in {"seek", "stream"} /\ found' \subseteq Announces
      BY <1>11, <1>t DEF Bind, TypeOK
    <3>3. misses' \in 0 .. 2
      BY <1>11 DEF Bind
    <3>4. UNCHANGED <<named, up, epoch, instance, drawn, admitted, asking, tasks, faults>>
      BY <1>11 DEF Bind, receivers
    <3> QED
      BY <3>1, <3>2, <3>3, <3>4, <1>t DEF TypeOK
  <2>2. OneVerify'
    BY <1>11, <1>t DEF Bind, OneVerify
  <2>3. bound'.epoch <= epoch[bound'.rx]
    BY <1>11, <1>t DEF Bind, IdsOrdered
  <2>4. IdsOrdered' /\ DrawsCounted'
    BY <1>11, <1>t, <2>3 DEF Bind, IdsOrdered, DrawsCounted, receivers
  <2> QED
    BY <2>1, <2>2, <2>4 DEF IInv
<1>12. ASSUME VerifyDue PROVE IInv'
  BY <1>12, <1>t DEF IInv, VerifyDue, OpenQuery, TypeOK, DrawsCounted, IdsOrdered, OneVerify,
     receivers
<1>13. ASSUME Rekey \/ Rediscover PROVE IInv'
  <2>1. TakeResult /\ LeaveSession
    BY <1>13 DEF Rekey, Rediscover
  <2>2. TypeOK'
    <3>1. inflight' \in BOOLEAN /\ phase' \in {"seek", "stream"}
      BY <2>1 DEF TakeResult, LeaveSession
    <3>2. asking' \subseteq up /\ found' \subseteq Announces
      BY <2>1 DEF LeaveSession, OpenQuery
    <3>3. misses' \in 0 .. 2 /\ tasks' \in Nat
      BY <2>1, <1>t DEF TakeResult, LeaveSession, TypeOK
    <3>4. UNCHANGED <<named, up, epoch, instance, drawn, admitted, bound, healthy, faults>>
      BY <2>1 DEF TakeResult, receivers
    <3> QED
      BY <3>1, <3>2, <3>3, <3>4, <1>t DEF TypeOK
  <2>3. OneVerify'
    BY <2>1, <1>t DEF TakeResult, LeaveSession, TypeOK, OneVerify
  <2> QED
    BY <2>1, <2>2, <2>3, <1>t DEF IInv, TakeResult, LeaveSession, OpenQuery, DrawsCounted,
       IdsOrdered, receivers
<1>14. ASSUME Confirm \/ Miss PROVE IInv'
  <2>1. TakeResult /\ StaySession /\ misses' \in 0 .. 2
    BY <1>14, <1>t DEF Confirm, Miss, TypeOK
  <2>2. TypeOK'
    <3>1. inflight' \in BOOLEAN
      BY <2>1 DEF TakeResult
    <3>2. tasks' \in Nat
      BY <2>1, <1>t DEF TakeResult, TypeOK
    <3>3. UNCHANGED <<named, up, epoch, instance, drawn, admitted, phase, bound, asking, found,
                      healthy, faults>>
      BY <2>1 DEF TakeResult, StaySession, receivers, query
    <3> QED
      BY <2>1, <3>1, <3>2, <3>3, <1>t DEF TypeOK
  <2>3. OneVerify'
    BY <2>1, <1>t DEF TakeResult, StaySession, TypeOK, OneVerify
  <2> QED
    BY <2>1, <2>2, <2>3, <1>t DEF IInv, TakeResult, StaySession, DrawsCounted, IdsOrdered,
       receivers, query
<1>15. ASSUME UNCHANGED vars PROVE IInv'
  BY <1>15, <1>t DEF IInv, TypeOK, DrawsCounted, IdsOrdered, OneVerify, vars, receivers, query,
     verifying
<1> QED
  BY <1>1, <1>2, <1>3, <1>4, <1>5, <1>6, <1>7, <1>8, <1>9, <1>10, <1>11, <1>12, <1>13, <1>14,
     <1>15 DEF Next, VerifyResult

LEMMA Invariance == Spec => []IInv
  BY InitInv, NextInv, PTL DEF Spec

(* Every reachable state has the types of TypeOK; the ids of a run with    *)
(* boundedly many faults are boundedly many.                               *)
THEOREM TypeCorrect == Spec => []TypeOK
<1>1. IInv => TypeOK
  BY DEF IInv
<1> QED
  BY <1>1, Invariance, PTL

(* No verify result is taken in another session than the one it was asked  *)
(* for (run_sender).                                                       *)
THEOREM OneVerifyOnly == Spec => []OneVerify
<1>1. IInv => OneVerify
  BY DEF IInv
<1> QED
  BY <1>1, Invariance, PTL

(* The engine is never bound to an older epoch of the same receiver        *)
(* (discover_toward, open_announce, bind_peer).                            *)
THEOREM ForwardOnly == Spec => NeverBackwards
<1>1. IInv /\ [Next]_vars => [bound'.rx = bound.rx => bound'.epoch >= bound.epoch]_vars
  <2> SUFFICES ASSUME IInv, Next, bound'.rx = bound.rx PROVE bound'.epoch >= bound.epoch
    BY DEF vars
  <2>1. bound.epoch \in Nat
    BY Numbers DEF IInv
  <2>2. CASE Bind
    BY <2>2 DEF Bind, IInv, IdsOrdered
  <2>3. CASE ~Bind
    <3>1. bound' = bound
      BY <2>3 DEF Next, Start, Crash, Rotate, Forget, Answer, HelloArrives, FeedbackArrives,
         FeedbackStale, AnswersLost, SeekAgain, VerifyDue, VerifyResult, Rekey, Confirm, Miss,
         Rediscover, TakeResult
    <3> QED
      BY <3>1, <2>1
  <2> QED
    BY <2>2, <2>3
<1> QED
  BY <1>1, Invariance, PTL DEF Spec, NeverBackwards

-----------------------------------------------------------------------------
(* An instance id belongs to one receiver, now and in every announce.      *)
InstancesOwned ==
  /\ \A r \in up : instance[r] # 0
  /\ \A r, q \in Receivers : instance[r] = instance[q] /\ instance[r] # 0 => r = q
  /\ \A a \in found :
       /\ a.instance # 0 /\ a.instance <= drawn
       /\ \A r \in Receivers : instance[r] = a.instance => r = a.rx
       /\ a.instance = bound.instance => a.rx = bound.rx
  /\ bound.instance <= drawn
  /\ bound.instance # 0 => \A r \in Receivers : instance[r] = bound.instance => r = bound.rx
  /\ phase = "stream" => bound.instance # 0

LEMMA InitOwned == Init => InstancesOwned
  BY DEF Init, InstancesOwned

LEMMA NextOwned == IInv /\ InstancesOwned /\ [Next]_vars => InstancesOwned'
<1> SUFFICES ASSUME IInv, InstancesOwned, [Next]_vars PROVE InstancesOwned'
  OBVIOUS
<1>t. TypeOK /\ IdsOrdered
  BY DEF IInv
<1>n. /\ drawn \in Nat /\ bound.instance \in Nat /\ bound.rx \in Receivers
      /\ \A r \in Receivers : instance[r] \in Nat
      /\ up \subseteq Receivers /\ asking \subseteq up
  BY <1>t, Numbers DEF TypeOK
<1>a. \A a \in found : a.instance \in Nat
  <2>1. Ids \subseteq Nat
    BY FS_CardinalityType, ReceiversAssumption, FaultsAssumption DEF Ids
  <2> QED
    BY <2>1, <1>t DEF TypeOK, Announces
<1>1. ASSUME NEW r \in Receivers, Start(r) PROVE InstancesOwned'
  <2>1. \A q \in Receivers : instance'[q] = IF q = r THEN drawn + 1 ELSE instance[q]
    BY <1>1, <1>t DEF Start, TypeOK
  <2>2. \A q \in Receivers : instance[q] <= drawn
    BY <1>t DEF IdsOrdered
  <2>3. /\ up' = up \cup {r} /\ drawn' = drawn + 1
        /\ found' = found /\ bound' = bound /\ phase' = phase
    BY <1>1 DEF Start, query
  <2>4. \A q \in up' : instance'[q] # 0
    BY <2>1, <2>3, <1>n DEF InstancesOwned
  <2>5. \A p, q \in Receivers : instance'[p] = instance'[q] /\ instance'[p] # 0 => p = q
    BY <2>1, <2>2, <1>n DEF InstancesOwned
  <2>6. ASSUME NEW a \in found
        PROVE  /\ a.instance # 0 /\ a.instance <= drawn'
               /\ \A q \in Receivers : instance'[q] = a.instance => q = a.rx
               /\ a.instance = bound.instance => a.rx = bound.rx
    BY <2>1, <2>3, <1>n, <1>a DEF InstancesOwned
  <2>7. /\ bound.instance <= drawn'
        /\ bound.instance # 0 =>
             \A q \in Receivers : instance'[q] = bound.instance => q = bound.rx
    BY <2>1, <2>3, <1>n DEF InstancesOwned
  <2> QED
    BY <2>3, <2>4, <2>5, <2>6, <2>7 DEF InstancesOwned
<1>2. ASSUME NEW r \in Receivers, Answer(r) PROVE InstancesOwned'
  <2>1. found' = found \cup {AnnounceOf(r)} /\ r \in up
        /\ UNCHANGED <<up, instance, drawn, bound, phase>>
    BY <1>2, <1>n DEF Answer, receivers
  <2>2. AnnounceOf(r).instance = instance[r] /\ AnnounceOf(r).rx = r /\ instance[r] <= drawn
    BY <1>t DEF AnnounceOf, IdsOrdered
  <2> QED
    BY <2>1, <2>2, <1>n DEF InstancesOwned
<1>3. ASSUME NEW r \in Receivers, Rotate(r) PROVE InstancesOwned'
  <2>1. drawn' = drawn + 1 /\ UNCHANGED <<up, instance, found, bound, phase>>
    BY <1>3 DEF Rotate, query
  <2> QED
    BY <2>1, <1>n, <1>a DEF InstancesOwned
<1>4. ASSUME NEW r \in Receivers, Crash(r) PROVE InstancesOwned'
  BY <1>4 DEF InstancesOwned, Crash
<1>5. ASSUME Bind PROVE InstancesOwned'
  BY <1>5 DEF InstancesOwned, Bind, receivers
<1>6. ASSUME SeekAgain \/ VerifyDue \/ Rekey \/ Rediscover PROVE InstancesOwned'
  <2>1. /\ found' = {} /\ (phase' = phase \/ phase' = "seek")
        /\ UNCHANGED <<up, instance, drawn, bound>>
    BY <1>6 DEF SeekAgain, VerifyDue, Rekey, Rediscover, TakeResult, LeaveSession, OpenQuery,
       receivers
  <2> QED
    BY <2>1 DEF InstancesOwned
<1>7. ASSUME \/ \E r \in Receivers : Forget(r)
             \/ HelloArrives \/ FeedbackArrives \/ FeedbackStale \/ AnswersLost
             \/ Confirm \/ Miss \/ UNCHANGED vars
      PROVE  InstancesOwned'
  <2>1. UNCHANGED <<up, instance, drawn, found, bound, phase>>
    BY <1>7 DEF Forget, HelloArrives, FeedbackArrives, FeedbackStale, AnswersLost, Confirm, Miss,
       TakeResult, StaySession, vars, receivers, query
  <2> QED
    BY <2>1 DEF InstancesOwned
<1> QED
  BY <1>1, <1>2, <1>3, <1>4, <1>5, <1>6, <1>7 DEF Next, VerifyResult

(* Where a name was given, only receivers of the name are asked, found and *)
(* bound.                                                                  *)
NameKept ==
  /\ named \in Choices
  /\ named # {} =>
       /\ asking \subseteq named
       /\ \A a \in found : a.rx \in named
       /\ phase = "stream" => bound.rx \in named

LEMMA InitName == Init => NameKept
  BY DEF Init, NameKept

LEMMA NextName == NameKept /\ [Next]_vars => NameKept'
<1> SUFFICES ASSUME NameKept, [Next]_vars PROVE NameKept'
  OBVIOUS
<1>1. named' = named
  BY DEF Next, Start, Crash, Rotate, Forget, Answer, HelloArrives, FeedbackArrives,
     FeedbackStale, AnswersLost, SeekAgain, Bind, VerifyDue, VerifyResult, Rekey, Confirm, Miss,
     Rediscover, TakeResult, receivers, vars
<1>2. CASE Bind
  BY <1>1, <1>2 DEF NameKept, Bind
<1>3. ASSUME NEW r \in Receivers, Answer(r) PROVE NameKept'
  <2>1. /\ r \in asking /\ asking' \subseteq asking /\ found' = found \cup {AnnounceOf(r)}
        /\ UNCHANGED <<phase, bound>>
    BY <1>3 DEF Answer
  <2>2. AnnounceOf(r).rx = r
    BY DEF AnnounceOf
  <2> QED
    BY <1>1, <2>1, <2>2 DEF NameKept
<1>4. ASSUME SeekAgain \/ VerifyDue \/ Rekey \/ Rediscover PROVE NameKept'
  <2>1. OpenQuery /\ (phase' = phase \/ phase' = "seek") /\ bound' = bound
    BY <1>4 DEF SeekAgain, VerifyDue, Rekey, Rediscover, TakeResult, LeaveSession
  <2>2. found' = {} /\ (named # {} => asking' \subseteq named)
    BY <2>1 DEF OpenQuery
  <2> QED
    BY <1>1, <2>1, <2>2 DEF NameKept
<1>5. ASSUME \/ \E r \in Receivers : Start(r) \/ Crash(r) \/ Rotate(r) \/ Forget(r)
             \/ HelloArrives \/ FeedbackArrives \/ FeedbackStale \/ AnswersLost
             \/ Confirm \/ Miss \/ UNCHANGED vars
      PROVE  NameKept'
  <2>1. asking' \subseteq asking /\ UNCHANGED <<found, bound, phase>>
    BY <1>5 DEF Start, Crash, Rotate, Forget, HelloArrives, FeedbackArrives, FeedbackStale,
       AnswersLost, Confirm, Miss, TakeResult, StaySession, vars, query
  <2> QED
    BY <1>1, <2>1 DEF NameKept
<1> QED
  BY <1>2, <1>3, <1>4, <1>5 DEF Next, VerifyResult

(* When no two receivers share the name, a session with fresh feedback is  *)
(* left only because its receiver changed epoch or stopped (the verify     *)
(* branch of run_sender).                                                  *)
THEOREM HealthyIsKept ==
  ASSUME \A c \in Choices : \A r, s \in c : r = s
  PROVE  Spec => HealthyKept
<1>1. IInv /\ InstancesOwned /\ NameKept /\ [Next]_vars
        => [phase = "stream" /\ phase' = "seek" /\ healthy
              => bound.rx \notin up \/ epoch[bound.rx] # bound.epoch]_vars
  <2> SUFFICES ASSUME IInv, InstancesOwned, NameKept, Next, phase = "stream", phase' = "seek",
                      healthy, epoch[bound.rx] = bound.epoch
               PROVE  FALSE
    BY DEF vars
  <2>1. Rekey
    BY DEF Next, Start, Crash, Rotate, Forget, Answer, HelloArrives, FeedbackArrives,
       FeedbackStale, AnswersLost, SeekAgain, Bind, VerifyDue, VerifyResult, Confirm, Miss,
       Rediscover, StaySession
  <2>2. PICK a \in Matching : a.epoch # bound.epoch
    BY <2>1 DEF Rekey
  <2>3. a \in found /\ (a.instance = bound.instance \/ a.rx \in named)
    BY <2>2 DEF Matching
  <2>4. a.rx \in Receivers /\ bound.rx \in Receivers /\ a.epoch \in Nat /\ bound.epoch \in Nat
    BY <2>3, Numbers DEF IInv
  <2>5. a.rx = bound.rx
    <3>1. CASE a.instance = bound.instance
      BY <3>1, <2>3 DEF InstancesOwned
    <3>2. CASE a.rx \in named
      <4>1. bound.rx \in named /\ named \in Choices
        BY <3>2 DEF NameKept
      <4> QED
        BY <3>2, <4>1
    <3> QED
      BY <2>3, <3>1, <3>2
  <2>6. a.epoch <= epoch[a.rx] /\ a.epoch >= bound.epoch
    BY <2>3, <2>5 DEF IInv, IdsOrdered
  <2> QED
    BY <2>2, <2>4, <2>5, <2>6
<1>2. Spec => []InstancesOwned
  BY InitOwned, NextOwned, Invariance, PTL DEF Spec
<1>3. Spec => []NameKept
  BY InitName, NextName, PTL DEF Spec
<1> QED
  BY <1>1, <1>2, <1>3, Invariance, PTL DEF Spec, HealthyKept

-----------------------------------------------------------------------------
(* Devices.  The picks that name a device there is.                        *)
Naming == {c \in Picks : Target(c) # None}

DevicesTyped ==
  /\ kind \in {"playback", "mic", "loopback"}
  /\ present \subseteq Ends
  /\ default \in IF present = {} THEN {None} ELSE present
  /\ wanted \in Picks /\ chosen \in Picks
  /\ unseen \in BOOLEAN /\ flowing \in BOOLEAN /\ failed \in BOOLEAN
  /\ sup \in {"open", "watch", "pause"}
  /\ worker \in {"none", "try", "play", "wait"}
  /\ rest \in 0 .. 2 /\ since \in 0 .. 2 /\ steady \in Nat
  /\ seeking \in BOOLEAN
  /\ age \in 0 .. Grace /\ quiet \in 0 .. Patience + 1 /\ woke \in BOOLEAN

(* The task and its worker go together, a stream is on a device there is   *)
(* while it calls back, and what a step is due to notice is not old: an    *)
(* error is seen in the second it comes up, a default that moved within    *)
(* two.                                                                    *)
Shape ==
  /\ sup = "watch" <=> worker # "none"
  /\ worker # "play" => stream = None /\ flowing = FALSE
  /\ flowing = TRUE => stream \in present
  /\ worker = "play" /\ failed = TRUE => steady = 0
  /\ sup = "pause" => rest + steady <= 2
  /\ worker = "play" /\ kind = "playback" /\ NameChanged => steady <= since
  /\ worker = "play" /\ kind = "loopback" /\ DefaultLeft => steady <= since
  /\ worker = "play" /\ kind = "loopback" /\ stream \notin present => steady <= since

(* What is not yet well is not long so: how many quiet seconds each state  *)
(* can have seen while the pick names a device.                            *)
PlaybackDue ==
  kind = "playback" =>
    /\ sup = "watch" /\ unseen = FALSE => chosen = wanted
    /\ unseen = TRUE => steady <= 2
    /\ worker \in {"try", "wait"} => failed = FALSE
    /\ wanted \in Naming /\ sup = "open" => steady <= Grace
    /\ wanted \in Naming /\ worker = "try" => steady <= Grace
    /\ chosen \in Naming /\ worker = "wait" => rest + steady <= 2
    /\ worker = "play" /\ flowing = FALSE =>
         /\ quiet > Patience \/ quiet >= steady
         /\ age = Grace \/ age >= steady
         /\ steady <= Grace
         /\ steady = Grace => woke = TRUE
    /\ worker = "play" /\ flowing = TRUE /\ quiet # 0 => steady <= Grace

CaptureDue ==
  kind # "playback" =>
    /\ unseen = FALSE => chosen = wanted
    /\ seeking = FALSE /\ unseen = TRUE => steady <= 2
    /\ sup = "open" => steady <= 2
    /\ worker = "try" => failed = FALSE
    /\ chosen \in Naming /\ worker = "try" => steady <= 3
    /\ chosen \in Naming /\ worker = "wait" => rest + steady <= 3

DevicesInv == DevicesTyped /\ Shape /\ PlaybackDue /\ CaptureDue

(* The minimum of a set of numbers.                                        *)
LEMMA LeastNumber ==
  ASSUME NEW S \in SUBSET Nat, S # {}
  PROVE  \E m \in S : \A s \in S : m <= s
<1> DEFINE Less == {ss \in Nat \X Nat : ss[1] < ss[2]}
<1>1. IsWellFoundedOn(Less, Nat)
  <2>1. OpToRel(<, Nat) = Less
    BY DEF OpToRel
  <2> QED
    BY <2>1, NatLessThanWellFounded
<1>2. PICK m \in S : \A s \in S : ~(<<s, m>> \in Less)
  BY <1>1, WFMin
<1>3. ASSUME NEW s \in S, s < m PROVE <<s, m>> \in Less
  BY <1>3
<1>4. ASSUME NEW s \in S PROVE m <= s
  <2>1. ~(s < m)
    BY <1>2, <1>3, Zenon
  <2> QED
    BY <2>1
<1> QED
  BY <1>4

(* A set of n numbers has one with exactly i smaller ones, for every i     *)
(* below n: were n the least number that is not so, a set without its      *)
(* minimum would have one with i - 1.                                      *)
Below(S, e) == {f \in S : f < e}
HasNth(S, i) == \E e \in S : Cardinality(Below(S, e)) = i

(* The k-th device of the list of the host is there when there are more    *)
(* than k devices.                                                         *)
LEMMA NthExists ==
  ASSUME NEW S \in SUBSET Nat, IsFiniteSet(S), NEW i \in Nat, i < Cardinality(S)
  PROVE  HasNth(S, i)
<1> DEFINE Lacks(n) == \E T \in SUBSET Nat : /\ IsFiniteSet(T) /\ Cardinality(T) = n
                                             /\ \E j \in Nat : j < n /\ ~HasNth(T, j)
           Bad == {n \in Nat : Lacks(n)}
<1>1. Bad = {}
  <2> SUFFICES ASSUME Bad # {} PROVE FALSE
    OBVIOUS
  <2>1. PICK n \in Bad : \A k \in Bad : n <= k
    <3>1. Bad \in SUBSET Nat
      OBVIOUS
    <3> HIDE DEF Bad
    <3> QED
      BY <3>1, LeastNumber
  <2>2. n \in Nat /\ Lacks(n)
    BY <2>1
  <2>3. PICK T \in SUBSET Nat : /\ IsFiniteSet(T) /\ Cardinality(T) = n
                                /\ \E j \in Nat : j < n /\ ~HasNth(T, j)
    BY <2>2
  <2>4. PICK j \in Nat : j < n /\ ~HasNth(T, j)
    BY <2>3
  <2>5. T # {}
    BY <2>2, <2>3, <2>4, FS_EmptySet
  <2>6. PICK m \in T : \A s \in T : m <= s
    BY <2>5, LeastNumber
  <2> DEFINE U == T \ {m}
  <2>7. IsFiniteSet(U) /\ Cardinality(U) = n - 1 /\ U \in SUBSET Nat
    BY <2>3, <2>6, FS_RemoveElement
  <2>8. CASE j = 0
    <3>1. Below(T, m) = {}
      <4>1. ASSUME NEW f \in T, f < m PROVE FALSE
        <5>1. m <= f /\ f \in Nat /\ m \in Nat
          BY <2>6
        <5> QED
          BY <4>1, <5>1
      <4> QED
        BY <4>1 DEF Below
    <3> QED
      BY <2>4, <2>6, <2>8, <3>1, FS_EmptySet DEF HasNth
  <2>9. CASE j # 0
    <3>1. j - 1 \in Nat /\ j - 1 < n - 1 /\ n - 1 \in Nat
      BY <2>2, <2>4, <2>9
    <3>2. n - 1 \notin Bad
      BY <2>1, <2>2
    <3>3. HasNth(U, j - 1)
      BY <2>7, <3>1, <3>2
    <3>4. PICK e \in U : Cardinality(Below(U, e)) = j - 1
      BY <3>3 DEF HasNth
    <3>5. e \in T /\ m < e /\ m \in Nat /\ e \in Nat
      <4>1. m \in T /\ e \in T /\ e # m /\ m <= e
        BY <2>6, <3>4
      <4> QED
        BY <4>1
    <3>6. Below(T, e) = Below(U, e) \cup {m} /\ m \notin Below(U, e)
      <4>1. m \notin Below(U, e) /\ m \in Below(T, e)
        BY <2>6, <3>5 DEF Below
      <4>2. ASSUME NEW f PROVE f \in Below(T, e) <=> f \in Below(U, e) \cup {m}
        BY <4>1 DEF Below
      <4> QED
        BY <4>1, <4>2
    <3>7. IsFiniteSet(Below(U, e))
      BY <2>7, FS_Subset DEF Below
    <3>8. Cardinality(Below(U, e) \cup {m}) = Cardinality(Below(U, e)) + 1
      BY <3>6, <3>7, FS_AddElement
    <3>9. Cardinality(Below(T, e)) = (j - 1) + 1
      <4>1. Cardinality(Below(T, e)) = Cardinality(Below(U, e)) + 1
        BY <3>6, <3>8, Zenon
      <4> QED
        BY <3>4, <4>1
    <3> QED
      BY <2>4, <3>5, <3>9 DEF HasNth
  <2> QED
    BY <2>8, <2>9
<1>2. Cardinality(S) \in Nat /\ Cardinality(S) \notin Bad
  BY <1>1, FS_CardinalityType
<1> QED
  BY <1>2

(* What a pick names is there.                                             *)
LEMMA TargetPresent ==
  ASSUME DevicesTyped, NEW c \in Picks, Target(c) # None
  PROVE  Target(c) \in present
<1>1. CASE c = Default
  BY <1>1 DEF Target, DevicesTyped
<1>2. CASE c # Default
  <2>1. c \in Nat
    BY <1>2, PicksAssumption
  <2>2. c < Cardinality(present) /\ Target(c) = Nth(c)
    BY <1>2 DEF Target
  <2>3. present \in SUBSET Nat /\ IsFiniteSet(present)
    BY EndsAssumption, FS_Subset DEF DevicesTyped
  <2>4. HasNth(present, c)
    BY <2>1, <2>2, <2>3, NthExists
  <2>5. \E e \in present : Cardinality({f \in present : f < e}) = c
    BY <2>4 DEF HasNth, Below
  <2> QED
    BY <2>2, <2>5 DEF Nth
<1> QED
  BY <1>1, <1>2

(* While the devices stay, a pick names what it named.                     *)
LEMMA SameWorld ==
  ASSUME UNCHANGED world
  PROVE  Naming' = Naming /\ UNCHANGED <<present, default, wanted>>
BY DEF world, Naming, Target, Nth

(* Invariance of DevicesInv, one lemma an action; first those common to    *)
(* the output and the input.  An event makes everything fresh.             *)
LEMMA EventStep ==
  ASSUME DevicesInv, Event, UNCHANGED <<names, watch, seeking>>
  PROVE  DevicesInv'
<1>1. /\ UNCHANGED <<kind, sup, chosen, worker, stream, rest, since>> /\ steady' = 0
      /\ UNCHANGED <<age, quiet, woke>>
  BY DEF Event, handle, watch
<1> DEFINE Host == /\ present' \subseteq Ends
                   /\ default' \in IF present' = {} THEN {None} ELSE present'
                   /\ wanted' \in Picks /\ unseen' \in BOOLEAN
                   /\ unseen' = FALSE => unseen = FALSE /\ wanted' = wanted
                   /\ flowing' \in BOOLEAN /\ failed' \in BOOLEAN
                   /\ flowing' = TRUE => flowing = TRUE /\ stream \in present'
                   /\ worker # "play" => UNCHANGED <<flowing, failed>>
<1>2. ASSUME NEW e \in Ends, Plug(e) PROVE Host
  <2>1. /\ e \notin present /\ present' = present \cup {e} /\ default' \in {default, e} \ {None}
        /\ UNCHANGED <<wanted, unseen, flowing, failed>>
    BY <1>2 DEF Plug
  <2>2. default' \in present'
    BY <2>1 DEF DevicesInv, DevicesTyped
  <2>3. flowing = TRUE => stream \in present
    BY DEF DevicesInv, Shape
  <2> QED
    BY <2>1, <2>2, <2>3 DEF DevicesInv, DevicesTyped
<1>3. ASSUME NEW e \in Ends, Unplug(e) PROVE Host
  <2>1. /\ e \in present /\ present' = present \ {e} /\ UNCHANGED <<wanted, unseen>>
        /\ default' \in IF present' = {} THEN {None}
                        ELSE IF default = e THEN present' ELSE {default}
        /\ IF stream = e THEN StreamStops ELSE UNCHANGED <<flowing, failed>>
    BY <1>3 DEF Unplug
  <2>2. default' \in IF present' = {} THEN {None} ELSE present'
    BY <2>1 DEF DevicesInv, DevicesTyped
  <2>3. flowing' \in BOOLEAN /\ failed' \in BOOLEAN /\ (flowing' = TRUE => flowing = TRUE)
    BY <2>1 DEF StreamStops, DevicesInv, DevicesTyped
  <2>4. flowing' = TRUE => stream \in present'
    BY <2>1 DEF StreamStops, DevicesInv, Shape
  <2>5. worker # "play" => UNCHANGED <<flowing, failed>>
    <3>1. worker # "play" => stream # e
      BY EndsAssumption DEF DevicesInv, Shape
    <3> QED
      BY <2>1, <3>1
  <2> QED
    BY <2>1, <2>2, <2>3, <2>4, <2>5 DEF DevicesInv, DevicesTyped
<1>4. ASSUME NEW e \in Ends, DefaultMoves(e) PROVE Host
  <2>1. /\ e \in present /\ default' = e /\ UNCHANGED <<present, wanted, unseen, flowing, failed>>
    BY <1>4 DEF DefaultMoves
  <2> QED
    BY <2>1 DEF DevicesInv, DevicesTyped, Shape
<1>5. ASSUME Fail PROVE Host
  <2>1. /\ worker = "play" /\ flowing' = FALSE /\ failed' \in {failed, TRUE}
        /\ UNCHANGED <<present, default, wanted, unseen>>
    BY <1>5 DEF Fail, StreamStops, world
  <2> QED
    BY <2>1 DEF DevicesInv, DevicesTyped
<1>6. ASSUME NEW c \in Picks, Choose(c) PROVE Host
  <2>1. wanted' = c /\ unseen' = TRUE /\ UNCHANGED <<present, default, flowing, failed>>
    BY <1>6 DEF Choose
  <2> QED
    BY <2>1 DEF DevicesInv, DevicesTyped, Shape
<1>7. Host
  BY <1>2, <1>3, <1>4, <1>5, <1>6 DEF Event
<1>8. DevicesTyped'
  BY <1>1, <1>7 DEF DevicesInv, DevicesTyped
<1>9. Shape'
  <2>1. rest' \in 0 .. 2 /\ since' \in 0 .. 2
    BY <1>1 DEF DevicesInv, DevicesTyped
  <2>2. steady' <= since' /\ rest' + steady' <= 2
    BY <1>1, <2>1
  <2> QED
    BY <1>1, <1>7, <2>2 DEF DevicesInv, Shape
<1>10. PlaybackDue'
  <2>1. /\ rest' + steady' <= 2 /\ steady' <= Grace /\ steady' # Grace /\ steady' <= 2
        /\ quiet' >= steady' /\ age' >= steady'
    BY <1>1, GraceAssumption DEF DevicesInv, DevicesTyped
  <2>2. /\ kind = "playback" /\ worker \in {"try", "wait"} => failed' = FALSE
        /\ kind = "playback" /\ sup = "watch" /\ unseen' = FALSE => chosen = wanted'
    BY <1>7 DEF DevicesInv, PlaybackDue
  <2> QED
    BY <1>1, <2>1, <2>2 DEF PlaybackDue
<1>11. CaptureDue'
  <2>1. rest' + steady' <= 3 /\ steady' <= 2 /\ steady' <= 3
    BY <1>1 DEF DevicesInv, DevicesTyped
  <2>2. /\ kind # "playback" /\ worker = "try" => failed' = FALSE
        /\ kind # "playback" /\ unseen' = FALSE => chosen = wanted'
    BY <1>7 DEF DevicesInv, CaptureDue
  <2> QED
    BY <1>1, <2>1, <2>2 DEF CaptureDue
<1> QED
  BY <1>8, <1>9, <1>10, <1>11 DEF DevicesInv

(* The stream that opens is on the target: a device there is.              *)
LEMMA OpensStep ==
  ASSUME DevicesInv, Opens, kind = "playback" => ~NameChanged', UNCHANGED <<watch, seeking>>
  PROVE  DevicesInv'
<1>0. Naming' = Naming /\ UNCHANGED <<present, default, wanted>>
  BY SameWorld DEF Opens, world
<1>1. Target(chosen) \in present /\ chosen \in Naming
  BY TargetPresent DEF DevicesInv, DevicesTyped, Opens, Naming
<1>2. /\ worker = "try" /\ worker' = "play" /\ stream' = Target(chosen) /\ flowing' = TRUE
      /\ since' = 0 /\ UNCHANGED <<kind, unseen, sup, chosen, rest, failed, steady>>
      /\ UNCHANGED <<age, quiet, woke>>
  BY DEF Opens, watch
<1>3. DevicesTyped'
  <2>1. since' \in 0 .. 2
    BY <1>2
  <2>2. flowing' \in BOOLEAN /\ worker' \in {"none", "try", "play", "wait"}
    BY <1>2, Zenon
  <2> QED
    BY <1>0, <1>2, <2>1, <2>2 DEF DevicesInv, DevicesTyped
<1>4. failed = FALSE
  BY <1>2 DEF DevicesInv, PlaybackDue, CaptureDue
<1>5. Shape'
  <2>1. ~DefaultLeft' /\ stream' \in present'
    BY <1>0, <1>1, <1>2 DEF DefaultLeft, Target
  <2> QED
    BY <1>0, <1>1, <1>2, <1>4, <2>1 DEF DevicesInv, Shape
<1>6. PlaybackDue'
  <2>1. ASSUME kind = "playback" PROVE steady <= Grace
    <3>1. unseen = TRUE => steady <= 2
      BY <2>1 DEF DevicesInv, PlaybackDue
    <3>2. unseen = FALSE => steady <= Grace
      BY <1>1, <1>2, <2>1 DEF DevicesInv, Shape, PlaybackDue
    <3> QED
      BY <3>1, <3>2, GraceAssumption DEF DevicesInv, DevicesTyped
  <2> QED
    BY <1>0, <1>2, <2>1 DEF DevicesInv, PlaybackDue
<1>7. CaptureDue'
  BY <1>0, <1>2 DEF DevicesInv, CaptureDue
<1> QED
  BY <1>3, <1>5, <1>6, <1>7 DEF DevicesInv

(* The output keeps the name of the device it opens.                       *)
LEMMA OpenOutputStep ==
  ASSUME DevicesInv, OpenOutput, kind = "playback", UNCHANGED seeking
  PROVE  DevicesInv'
<1>1. Opens /\ opened_name' = name[Target(chosen)] /\ UNCHANGED <<name, watch>>
  BY DEF OpenOutput
<1>2. chosen' = chosen /\ default' = default /\ Target(chosen) # None
  BY <1>1 DEF Opens, world
<1>3. ~NameChanged'
  <2>1. CASE chosen = Default
    BY <1>1, <1>2, <2>1 DEF NameChanged, DefaultName, Target
  <2>2. CASE chosen # Default
    BY <1>2, <2>2 DEF NameChanged
  <2> QED
    BY <2>1, <2>2
<1> QED
  BY <1>1, <1>3, OpensStep

(* A name that changes is an event like the others.                        *)
LEMMA RenameStep ==
  ASSUME DevicesInv, NEW e \in Ends, Rename(e), kind = "playback", UNCHANGED seeking
  PROVE  DevicesInv'
<1>0. Naming' = Naming /\ UNCHANGED <<present, default, wanted>>
  BY SameWorld DEF Rename, world
<1>1. /\ UNCHANGED <<kind, unseen, sup, chosen, worker, stream, rest, since, flowing, failed>>
      /\ UNCHANGED <<age, quiet, woke>>
      /\ steady' = 0
  BY DEF Rename, handle, watch
<1>2. DevicesTyped'
  BY <1>0, <1>1 DEF DevicesInv, DevicesTyped
<1>3. Shape'
  <2>1. rest' + steady' <= 2 /\ steady' <= since'
    BY <1>1 DEF DevicesInv, DevicesTyped
  <2> QED
    BY <1>0, <1>1, <2>1 DEF DevicesInv, Shape
<1>4. PlaybackDue'
  BY <1>0, <1>1, GraceAssumption DEF DevicesInv, DevicesTyped, PlaybackDue
<1>5. CaptureDue'
  BY <1>1 DEF CaptureDue
<1> QED
  BY <1>2, <1>3, <1>4, <1>5 DEF DevicesInv

(* The task could not make a handle and pauses for two seconds.            *)
LEMMA OpenFailsStep ==
  ASSUME DevicesInv, OpenFails, UNCHANGED <<names, watch, seeking>>
  PROVE  DevicesInv'
<1>0. Naming' = Naming /\ UNCHANGED <<present, default, wanted>>
  BY SameWorld DEF OpenFails, world
<1>1. DevicesTyped'
  BY <1>0, GraceAssumption, HorizonAssumption
  DEF DevicesInv, DevicesTyped, OpenFails, world, watch
<1>2. Shape'
  BY <1>0, EndsAssumption
  DEF DevicesInv, DevicesTyped, Shape, DefaultLeft, OpenFails, world
<1>3. PlaybackDue'
  BY <1>0, GraceAssumption
  DEF DevicesInv, DevicesTyped, Shape, PlaybackDue, OpenFails, world, watch
<1>4. CaptureDue'
  BY <1>0, GraceAssumption
  DEF DevicesInv, DevicesTyped, Shape, CaptureDue, OpenFails, world
<1> QED
  BY <1>1, <1>2, <1>3, <1>4 DEF DevicesInv

(* The pause ends.                                                         *)
LEMMA PauseOverStep ==
  ASSUME DevicesInv, PauseOver, UNCHANGED <<names, watch, seeking>>
  PROVE  DevicesInv'
<1>0. Naming' = Naming /\ UNCHANGED <<present, default, wanted>>
  BY SameWorld DEF PauseOver, world
<1>1. DevicesTyped'
  BY <1>0, GraceAssumption, HorizonAssumption
  DEF DevicesInv, DevicesTyped, PauseOver, world, watch
<1>2. Shape'
  BY <1>0, EndsAssumption
  DEF DevicesInv, DevicesTyped, Shape, DefaultLeft, PauseOver, world
<1>3. PlaybackDue'
  BY <1>0, GraceAssumption
  DEF DevicesInv, DevicesTyped, Shape, PlaybackDue, PauseOver, world, watch
<1>4. CaptureDue'
  BY <1>0, GraceAssumption
  DEF DevicesInv, DevicesTyped, Shape, CaptureDue, PauseOver, world
<1> QED
  BY <1>1, <1>2, <1>3, <1>4 DEF DevicesInv

(* The output.                                                             *)
LEMMA OpenPlaybackStep ==
  ASSUME DevicesInv, OpenPlayback, kind = "playback", UNCHANGED seeking
  PROVE  DevicesInv'
<1>0. Naming' = Naming /\ UNCHANGED <<present, default, wanted>>
  BY SameWorld DEF OpenPlayback, Borrowed, world
<1>1. DevicesTyped'
  BY <1>0, GraceAssumption, HorizonAssumption, 0 \in 0 .. Grace
  DEF DevicesInv, DevicesTyped, OpenPlayback, Borrowed, world, names, watch
<1>2. Shape'
  BY <1>0, EndsAssumption
  DEF DevicesInv, DevicesTyped, Shape, NameChanged, DefaultName, OpenPlayback, Borrowed, world,
      names, watch
<1>3. PlaybackDue'
  BY <1>0, GraceAssumption
  DEF DevicesInv, DevicesTyped, Shape, PlaybackDue, OpenPlayback, Borrowed, world, names, watch
<1>4. CaptureDue'
  BY <1>0, GraceAssumption
  DEF DevicesInv, DevicesTyped, Shape, CaptureDue, OpenPlayback, Borrowed, world, names, watch
<1> QED
  BY <1>1, <1>2, <1>3, <1>4 DEF DevicesInv

(* The output: the choice is noticed and the handle closed.                *)
LEMMA DeviceChangedStep ==
  ASSUME DevicesInv, DeviceChanged, kind = "playback", UNCHANGED seeking
  PROVE  DevicesInv'
<1>0. Naming' = Naming /\ UNCHANGED <<present, default, wanted>>
  BY SameWorld DEF DeviceChanged, Close, world
<1>1. DevicesTyped'
  BY <1>0, GraceAssumption, HorizonAssumption
  DEF DevicesInv, DevicesTyped, DeviceChanged, Close, world, names, watch
<1>2. Shape'
  BY <1>0, EndsAssumption
  DEF DevicesInv, DevicesTyped, Shape, NameChanged, DefaultName, DeviceChanged, Close, world, names,
      watch
<1>3. PlaybackDue'
  BY <1>0, GraceAssumption
  DEF DevicesInv, DevicesTyped, Shape, PlaybackDue, DeviceChanged, Close, world, names, watch
<1>4. CaptureDue'
  BY <1>0, GraceAssumption
  DEF DevicesInv, DevicesTyped, Shape, CaptureDue, DeviceChanged, Close, world, names, watch
<1> QED
  BY <1>1, <1>2, <1>3, <1>4 DEF DevicesInv

(* The watchdog closes only what has stalled past its grace.               *)
LEMMA WatchdogStep ==
  ASSUME DevicesInv, Watchdog, kind = "playback", UNCHANGED seeking
  PROVE  DevicesInv'
<1>0. Naming' = Naming /\ UNCHANGED <<present, default, wanted>>
  BY SameWorld DEF Watchdog, Stalled, Close, world
<1>1. DevicesTyped'
  BY <1>0, GraceAssumption, HorizonAssumption
  DEF DevicesInv, DevicesTyped, Watchdog, Stalled, Close, world, names, watch
<1>2. Shape'
  BY <1>0, EndsAssumption
  DEF DevicesInv, DevicesTyped, Shape, NameChanged, DefaultName, Watchdog, Stalled, Close, world,
      names, watch
<1>3. PlaybackDue'
  BY <1>0, GraceAssumption
  DEF DevicesInv, DevicesTyped, Shape, PlaybackDue, Watchdog, Stalled, Close, world, names, watch
<1>4. CaptureDue'
  BY <1>0, GraceAssumption
  DEF DevicesInv, DevicesTyped, Shape, CaptureDue, Watchdog, Stalled, Close, world, names, watch
<1> QED
  BY <1>1, <1>2, <1>3, <1>4 DEF DevicesInv

(* The worker of the output is refused, because there is no such device.   *)
LEMMA RefuseStep ==
  ASSUME DevicesInv, Refuse, kind = "playback", UNCHANGED seeking
  PROVE  DevicesInv'
<1>0. Naming' = Naming /\ UNCHANGED <<present, default, wanted>>
  BY SameWorld DEF Refuse, Refused, Naming, world
<1>1. DevicesTyped'
  BY <1>0, GraceAssumption, HorizonAssumption
  DEF DevicesInv, DevicesTyped, Refuse, Refused, Naming, world, names, watch
<1>2. Shape'
  BY <1>0, EndsAssumption
  DEF DevicesInv, DevicesTyped, Shape, NameChanged, DefaultName, Refuse, Refused, Naming, world,
      names, watch
<1>3. PlaybackDue'
  BY <1>0, GraceAssumption
  DEF DevicesInv, DevicesTyped, Shape, PlaybackDue, Refuse, Refused, Naming, world, names, watch
<1>4. CaptureDue'
  BY <1>0, GraceAssumption
  DEF DevicesInv, DevicesTyped, Shape, CaptureDue, Refuse, Refused, Naming, world, names, watch
<1> QED
  BY <1>1, <1>2, <1>3, <1>4 DEF DevicesInv

(* The worker of the output tries again.                                   *)
LEMMA RetryStep ==
  ASSUME DevicesInv, Retry, kind = "playback", UNCHANGED seeking
  PROVE  DevicesInv'
<1>0. Naming' = Naming /\ UNCHANGED <<present, default, wanted>>
  BY SameWorld DEF Retry, world
<1>1. DevicesTyped'
  BY <1>0, GraceAssumption, HorizonAssumption
  DEF DevicesInv, DevicesTyped, Retry, world, names, watch
<1>2. Shape'
  BY <1>0, EndsAssumption
  DEF DevicesInv, DevicesTyped, Shape, NameChanged, DefaultName, Retry, world, names, watch
<1>3. PlaybackDue'
  BY <1>0, GraceAssumption
  DEF DevicesInv, DevicesTyped, Shape, PlaybackDue, Retry, world, names, watch
<1>4. CaptureDue'
  BY <1>0, GraceAssumption
  DEF DevicesInv, DevicesTyped, Shape, CaptureDue, Retry, world, names, watch
<1> QED
  BY <1>1, <1>2, <1>3, <1>4 DEF DevicesInv

(* The worker of the output leaves a stream that failed or moved.          *)
LEMMA LeaveStep ==
  ASSUME DevicesInv, Leave, kind = "playback", UNCHANGED seeking
  PROVE  DevicesInv'
<1>0. Naming' = Naming /\ UNCHANGED <<present, default, wanted>>
  BY SameWorld DEF Leave, world
<1>1. DevicesTyped'
  BY <1>0, GraceAssumption, HorizonAssumption
  DEF DevicesInv, DevicesTyped, Leave, NameChanged, DefaultName, world, names, watch
<1>2. Shape'
  BY <1>0, EndsAssumption
  DEF DevicesInv, DevicesTyped, Shape, NameChanged, DefaultName, Leave, world, names, watch
<1>3. PlaybackDue'
  BY <1>0, GraceAssumption
  DEF DevicesInv, DevicesTyped, Shape, PlaybackDue, Leave, NameChanged, DefaultName, world, names,
      watch
<1>4. CaptureDue'
  BY <1>0, GraceAssumption
  DEF DevicesInv, DevicesTyped, Shape, CaptureDue, Leave, NameChanged, DefaultName, world, names,
      watch
<1> QED
  BY <1>1, <1>2, <1>3, <1>4 DEF DevicesInv

(* The worker finds its device is still the default.                       *)
LEMMA LookStep ==
  ASSUME DevicesInv, Look, kind = "playback", UNCHANGED seeking
  PROVE  DevicesInv'
<1>0. Naming' = Naming /\ UNCHANGED <<present, default, wanted>>
  BY SameWorld DEF Look, LookedAtDefault, world
<1>1. DevicesTyped'
  BY <1>0, GraceAssumption, HorizonAssumption
  DEF DevicesInv, DevicesTyped, Look, LookedAtDefault, NameChanged, DefaultName, world, names, watch
<1>2. Shape'
  BY <1>0, EndsAssumption
  DEF DevicesInv, DevicesTyped, Shape, NameChanged, DefaultName, Look, LookedAtDefault, world,
      names, watch
<1>3. PlaybackDue'
  BY <1>0, GraceAssumption
  DEF DevicesInv, DevicesTyped, Shape, PlaybackDue, Look, LookedAtDefault, NameChanged, DefaultName,
      world, names, watch
<1>4. CaptureDue'
  BY <1>0, GraceAssumption
  DEF DevicesInv, DevicesTyped, Shape, CaptureDue, Look, LookedAtDefault, NameChanged, DefaultName,
      world, names, watch
<1> QED
  BY <1>1, <1>2, <1>3, <1>4 DEF DevicesInv

(* The driver calls back, so the silence is over.                          *)
LEMMA CallbackStep ==
  ASSUME DevicesInv, Callback, kind = "playback", UNCHANGED seeking
  PROVE  DevicesInv'
<1>0. Naming' = Naming /\ UNCHANGED <<present, default, wanted>>
  BY SameWorld DEF Callback, endVars, handle, world
<1>1. DevicesTyped'
  BY <1>0, GraceAssumption, HorizonAssumption
  DEF DevicesInv, DevicesTyped, Callback, endVars, handle, world, names, watch
<1>2. Shape'
  BY <1>0, EndsAssumption
  DEF DevicesInv, DevicesTyped, Shape, NameChanged, DefaultName, Callback, endVars, handle, world,
      names, watch
<1>3. PlaybackDue'
  BY <1>0, GraceAssumption
  DEF DevicesInv, DevicesTyped, Shape, PlaybackDue, Callback, endVars, handle, world, names, watch
<1>4. CaptureDue'
  BY <1>0, GraceAssumption
  DEF DevicesInv, DevicesTyped, Shape, CaptureDue, Callback, endVars, handle, world, names, watch
<1> QED
  BY <1>1, <1>2, <1>3, <1>4 DEF DevicesInv

(* A second waited is a second less to wait.                               *)
LEMMA OneForOne ==
  ASSUME NEW r \in Nat, NEW s \in Nat, NEW t \in Nat, r + s <= 2, t <= s + 1
  PROVE  (r - 1) + t <= 2
OBVIOUS

(* A second goes by, and nobody was due: each bound moves by one.          *)
LEMMA PlaybackSecondStep ==
  ASSUME DevicesInv, PlaybackSecond, kind = "playback", UNCHANGED seeking
  PROVE  DevicesInv'
<1>0. Naming' = Naming /\ UNCHANGED <<present, default, wanted>>
  BY SameWorld DEF PlaybackSecond, SecondPasses, world
<1>1. DevicesTyped'
  BY <1>0, GraceAssumption, HorizonAssumption
  DEF DevicesInv, DevicesTyped, PlaybackSecond, SecondPasses, world, names, watch
<1>2. Shape'
  BY <1>0, EndsAssumption
  DEF DevicesInv, DevicesTyped, Shape, NameChanged, DefaultName, PlaybackSecond, SecondPasses,
      world, names, watch
<1>3. PlaybackDue'
  <2>1. UNCHANGED <<kind, unseen, sup, chosen, wanted, worker, stream, flowing, failed>>
    BY <1>0 DEF PlaybackSecond, SecondPasses
  <2>2. steady' <= steady + 1 /\ steady' \in Nat
    BY HorizonAssumption DEF DevicesInv, DevicesTyped, PlaybackSecond, SecondPasses
  <2>3. /\ rest' = (IF rest = 0 THEN 0 ELSE rest - 1)
        /\ age' = (IF age < Grace THEN age + 1 ELSE age)
        /\ quiet' = (IF flowing \/ quiet > Patience THEN quiet ELSE quiet + 1)
        /\ sup = "watch" => woke' = TRUE
    BY DEF PlaybackSecond, SecondPasses
  <2>4. /\ (sup = "watch" /\ unseen = FALSE) \/ (sup = "pause" /\ rest > 0)
        /\ worker # "try" /\ woke = FALSE
    <3>1. unseen \in BOOLEAN /\ woke \in BOOLEAN
      BY DEF DevicesInv, DevicesTyped
    <3> QED
      BY <3>1 DEF PlaybackSecond, SecondPasses
  <2>5. worker = "wait" => rest > 0
    BY DEF PlaybackSecond, SecondPasses
  <2>6. worker = "play" /\ flowing = TRUE => quiet = 0
    BY DEF PlaybackSecond
  <2>7. unseen = TRUE => steady' <= 2
    BY <2>1, <2>2, <2>4 DEF DevicesInv, DevicesTyped, Shape
  <2>8. ASSUME chosen \in Naming, worker = "wait" PROVE rest' + steady' <= 2
    <3>1. rest + steady <= 2 /\ rest > 0
      BY <2>5, <2>8 DEF DevicesInv, PlaybackDue
    <3>2. rest' = rest - 1
      BY <2>3, <3>1
    <3>3. rest \in Nat /\ steady \in Nat
      BY DEF DevicesInv, DevicesTyped
    <3>4. steady' \in Nat /\ steady' <= steady + 1
      BY <2>2
    <3> QED
      BY <3>1, <3>2, <3>3, <3>4, OneForOne
  <2>9. ASSUME worker = "play", flowing = FALSE
        PROVE  /\ quiet' > Patience \/ quiet' >= steady'
               /\ age' = Grace \/ age' >= steady'
               /\ steady' <= Grace
               /\ woke' = TRUE
    <3>1. sup = "watch" /\ steady < Grace
      BY <2>4, <2>9, GraceAssumption DEF DevicesInv, DevicesTyped, Shape, PlaybackDue
    <3>2. /\ quiet > Patience \/ quiet >= steady
          /\ age = Grace \/ age >= steady
      BY <2>9 DEF DevicesInv, PlaybackDue
    <3>3. quiet' > Patience \/ quiet' >= steady'
      BY <2>2, <2>3, <2>9, <3>2, GraceAssumption DEF DevicesInv, DevicesTyped
    <3>4. age' = Grace \/ age' >= steady'
      BY <2>2, <2>3, <3>2, GraceAssumption DEF DevicesInv, DevicesTyped
    <3>5. steady' <= Grace /\ woke' = TRUE
      BY <2>2, <2>3, <3>1, GraceAssumption DEF DevicesInv, DevicesTyped
    <3> QED
      BY <3>3, <3>4, <3>5
  <2>10. worker = "play" /\ flowing = TRUE => quiet' = 0
    BY <2>3, <2>6, GraceAssumption
  <2> QED
    BY <1>0, <2>1, <2>4, <2>7, <2>8, <2>9, <2>10 DEF DevicesInv, DevicesTyped, PlaybackDue
<1>4. CaptureDue'
  BY <1>0, GraceAssumption
  DEF DevicesInv, DevicesTyped, Shape, CaptureDue, PlaybackSecond, SecondPasses, world, names, watch
<1> QED
  BY <1>1, <1>2, <1>3, <1>4 DEF DevicesInv

(* The input.                                                              *)
LEMMA OpenCaptureStep ==
  ASSUME DevicesInv, OpenCapture, kind # "playback", UNCHANGED <<names, watch, seeking>>
  PROVE  DevicesInv'
<1>0. Naming' = Naming /\ UNCHANGED <<present, default, wanted>>
  BY SameWorld DEF OpenCapture, world
<1>1. DevicesTyped'
  BY <1>0, GraceAssumption, HorizonAssumption
  DEF DevicesInv, DevicesTyped, OpenCapture, world, watch
<1>2. Shape'
  BY <1>0, EndsAssumption
  DEF DevicesInv, DevicesTyped, Shape, DefaultLeft, OpenCapture, world
<1>3. PlaybackDue'
  BY <1>0, GraceAssumption
  DEF DevicesInv, DevicesTyped, Shape, PlaybackDue, OpenCapture, world, watch
<1>4. CaptureDue'
  BY <1>0, GraceAssumption
  DEF DevicesInv, DevicesTyped, Shape, CaptureDue, OpenCapture, world
<1> QED
  BY <1>1, <1>2, <1>3, <1>4 DEF DevicesInv

(* The input: the choice is taken and the handle closed.                   *)
LEMMA CaptureChangedStep ==
  ASSUME DevicesInv, CaptureChanged, kind # "playback", UNCHANGED <<names, watch, seeking>>
  PROVE  DevicesInv'
<1>0. Naming' = Naming /\ UNCHANGED <<present, default, wanted>>
  BY SameWorld DEF CaptureChanged, Close, world
<1>1. DevicesTyped'
  BY <1>0, GraceAssumption, HorizonAssumption
  DEF DevicesInv, DevicesTyped, CaptureChanged, Close, world, watch
<1>2. Shape'
  BY <1>0, EndsAssumption
  DEF DevicesInv, DevicesTyped, Shape, DefaultLeft, CaptureChanged, Close, world
<1>3. PlaybackDue'
  BY <1>0, GraceAssumption
  DEF DevicesInv, DevicesTyped, Shape, PlaybackDue, CaptureChanged, Close, world, watch
<1>4. CaptureDue'
  BY <1>0, GraceAssumption
  DEF DevicesInv, DevicesTyped, Shape, CaptureDue, CaptureChanged, Close, world
<1> QED
  BY <1>1, <1>2, <1>3, <1>4 DEF DevicesInv

(* The worker of the input is refused.                                     *)
LEMMA CaptureRefusedStep ==
  ASSUME DevicesInv, CaptureRefused, kind # "playback", UNCHANGED <<names, watch, seeking>>
  PROVE  DevicesInv'
<1>0. Naming' = Naming /\ UNCHANGED <<present, default, wanted>>
  BY SameWorld DEF CaptureRefused, Refused, Naming, world
<1>1. DevicesTyped'
  BY <1>0, GraceAssumption, HorizonAssumption
  DEF DevicesInv, DevicesTyped, CaptureRefused, Refused, Naming, world, watch
<1>2. Shape'
  BY <1>0, EndsAssumption
  DEF DevicesInv, DevicesTyped, Shape, DefaultLeft, CaptureRefused, Refused, Naming, world
<1>3. PlaybackDue'
  BY <1>0, GraceAssumption
  DEF DevicesInv, DevicesTyped, Shape, PlaybackDue, CaptureRefused, Refused, Naming, world, watch
<1>4. CaptureDue'
  BY <1>0, GraceAssumption
  DEF DevicesInv, DevicesTyped, Shape, CaptureDue, CaptureRefused, Refused, Naming, world
<1> QED
  BY <1>1, <1>2, <1>3, <1>4 DEF DevicesInv

(* The worker of the input clears its error and tries again.               *)
LEMMA RetryCaptureStep ==
  ASSUME DevicesInv, RetryCapture, kind # "playback", UNCHANGED <<names, watch, seeking>>
  PROVE  DevicesInv'
<1>0. Naming' = Naming /\ UNCHANGED <<present, default, wanted>>
  BY SameWorld DEF RetryCapture, world
<1>1. DevicesTyped'
  BY <1>0, GraceAssumption, HorizonAssumption
  DEF DevicesInv, DevicesTyped, RetryCapture, world, watch
<1>2. Shape'
  BY <1>0, EndsAssumption
  DEF DevicesInv, DevicesTyped, Shape, DefaultLeft, RetryCapture, world
<1>3. PlaybackDue'
  BY <1>0, GraceAssumption
  DEF DevicesInv, DevicesTyped, Shape, PlaybackDue, RetryCapture, world, watch
<1>4. CaptureDue'
  BY <1>0, GraceAssumption
  DEF DevicesInv, DevicesTyped, Shape, CaptureDue, RetryCapture, world
<1> QED
  BY <1>1, <1>2, <1>3, <1>4 DEF DevicesInv

(* Leaving a stream whose failure is fresh.                                *)
LEMMA LeavesCaptureStep ==
  ASSUME DevicesInv, worker = "play", LeavesCapture, steady' \in {0, steady}, kind # "playback",
         failed = TRUE \/ EndpointLeft \/ steady' = 0, UNCHANGED <<names, watch, seeking>>
  PROVE  DevicesInv'
<1>0. Naming' = Naming /\ UNCHANGED <<present, default, wanted>>
  BY SameWorld DEF LeavesCapture, world
<1>1. /\ UNCHANGED <<kind, unseen, sup, chosen, since>>
      /\ failed' = TRUE /\ worker' = "wait" /\ rest' = 1 /\ stream' = None /\ flowing' = FALSE
      /\ UNCHANGED <<age, quiet, woke, seeking>>
  BY DEF LeavesCapture, watch
<1>2. steady \in Nat /\ since \in 0 .. 2 /\ steady' \in Nat /\ steady' <= steady
  BY DEF DevicesInv, DevicesTyped
<1>3. steady' <= 2
  <2>1. CASE failed = TRUE
    BY <1>2, <2>1 DEF DevicesInv, Shape
  <2>2. CASE EndpointLeft
    BY <1>2, <2>2 DEF DevicesInv, Shape, EndpointLeft
  <2>3. CASE steady' = 0
    BY <2>3
  <2> QED
    BY <2>1, <2>2, <2>3
<1>4. DevicesTyped'
  <2>1. rest' \in 0 .. 2
    BY <1>1
  <2>2. failed' \in BOOLEAN /\ flowing' \in BOOLEAN
    BY <1>1, Zenon
  <2>3. worker' \in {"none", "try", "play", "wait"}
    BY <1>1
  <2> QED
    BY <1>0, <1>1, <1>2, <2>1, <2>2, <2>3 DEF DevicesInv, DevicesTyped
<1>5. Shape'
  <2>1. sup = "watch"
    BY DEF DevicesInv, Shape
  <2> QED
    BY <1>1, <2>1 DEF Shape
<1>6. PlaybackDue'
  BY <1>1 DEF PlaybackDue
<1>7. CaptureDue'
  <2>1. rest' + steady' <= 3
    <3>1. rest' = 1
      BY <1>1
    <3>2. \A n \in Nat : n <= 2 => 1 + n <= 3
      OBVIOUS
    <3> QED
      BY <1>2, <1>3, <3>1, <3>2, Zenon
  <2> QED
    BY <1>0, <1>1, <1>2, <1>3, <2>1 DEF DevicesInv, Shape, CaptureDue
<1> QED
  BY <1>4, <1>5, <1>6, <1>7 DEF DevicesInv

(* The worker of the input leaves a stream that failed, or its endpoint.   *)
LEMMA LeaveCaptureStep ==
  ASSUME DevicesInv, LeaveCapture, kind # "playback", UNCHANGED <<names, watch, seeking>>
  PROVE  DevicesInv'
<1>1. worker = "play" /\ LeavesCapture /\ steady' = steady /\ (failed \/ EndpointLeft)
  BY DEF LeaveCapture
<1>2. failed \in BOOLEAN
  BY DEF DevicesInv, DevicesTyped
<1> QED
  BY <1>1, <1>2, LeavesCaptureStep

(* The loopback leaves its endpoint when a check of it ends in an error.   *)
LEMMA CheckFailsStep ==
  ASSUME DevicesInv, CheckFails, kind # "playback", UNCHANGED <<names, watch, seeking>>
  PROVE  DevicesInv'
<1>1. worker = "play" /\ LeavesCapture /\ steady' = 0
  BY DEF CheckFails
<1> QED
  BY <1>1, LeavesCaptureStep

(* The loopback finds its endpoint active and still the default.           *)
LEMMA LookCaptureStep ==
  ASSUME DevicesInv, LookCapture, kind # "playback", UNCHANGED <<names, watch, seeking>>
  PROVE  DevicesInv'
<1>0. Naming' = Naming /\ UNCHANGED <<present, default, wanted>>
  BY SameWorld DEF LookCapture, EndpointLeft, LookedAtDefault, DefaultLeft, world
<1>1. DevicesTyped'
  BY <1>0, GraceAssumption, HorizonAssumption
  DEF DevicesInv, DevicesTyped, LookCapture, EndpointLeft, LookedAtDefault, DefaultLeft, world,
      watch
<1>2. Shape'
  BY <1>0, EndsAssumption
  DEF DevicesInv, DevicesTyped, Shape, DefaultLeft, LookCapture, EndpointLeft, LookedAtDefault,
      world
<1>3. PlaybackDue'
  BY <1>0, GraceAssumption
  DEF DevicesInv, DevicesTyped, Shape, PlaybackDue, LookCapture, EndpointLeft, LookedAtDefault,
      DefaultLeft, world, watch
<1>4. CaptureDue'
  BY <1>0, GraceAssumption
  DEF DevicesInv, DevicesTyped, Shape, CaptureDue, LookCapture, EndpointLeft, LookedAtDefault,
      DefaultLeft, world
<1> QED
  BY <1>1, <1>2, <1>3, <1>4 DEF DevicesInv

(* A second goes by for the input.                                         *)
LEMMA CaptureSecondStep ==
  ASSUME DevicesInv, CaptureSecond, kind # "playback", UNCHANGED <<names, watch, seeking>>
  PROVE  DevicesInv'
<1>0. Naming' = Naming /\ UNCHANGED <<present, default, wanted>>
  BY SameWorld DEF CaptureSecond, SecondPasses, world
<1>1. DevicesTyped'
  BY <1>0, GraceAssumption, HorizonAssumption
  DEF DevicesInv, DevicesTyped, CaptureSecond, SecondPasses, world, watch
<1>2. Shape'
  BY <1>0, EndsAssumption
  DEF DevicesInv, DevicesTyped, Shape, DefaultLeft, CaptureSecond, SecondPasses, world
<1>3. PlaybackDue'
  BY <1>0, GraceAssumption
  DEF DevicesInv, DevicesTyped, Shape, PlaybackDue, CaptureSecond, SecondPasses, world, watch
<1>4. CaptureDue'
  BY <1>0, GraceAssumption
  DEF DevicesInv, DevicesTyped, Shape, CaptureDue, CaptureSecond, SecondPasses, world
<1> QED
  BY <1>1, <1>2, <1>3, <1>4 DEF DevicesInv

(* The sender has a receiver and takes changes of device again.            *)
LEMMA FindPeerStep ==
  ASSUME DevicesInv, FindPeer, kind # "playback", UNCHANGED <<names, watch>>
  PROVE  DevicesInv'
<1>0. Naming' = Naming /\ UNCHANGED <<present, default, wanted>>
  BY SameWorld DEF FindPeer, handle, world
<1>1. DevicesTyped'
  BY <1>0, GraceAssumption, HorizonAssumption
  DEF DevicesInv, DevicesTyped, FindPeer, handle, world, watch
<1>2. Shape'
  BY <1>0, EndsAssumption
  DEF DevicesInv, DevicesTyped, Shape, DefaultLeft, FindPeer, handle, world
<1>3. PlaybackDue'
  BY <1>0, GraceAssumption
  DEF DevicesInv, DevicesTyped, Shape, PlaybackDue, FindPeer, handle, world, watch
<1>4. CaptureDue'
  BY <1>0, GraceAssumption
  DEF DevicesInv, DevicesTyped, Shape, CaptureDue, FindPeer, handle, world
<1> QED
  BY <1>1, <1>2, <1>3, <1>4 DEF DevicesInv

(* The sender is back in its wait for a receiver.                          *)
LEMMA LosePeerStep ==
  ASSUME DevicesInv, LosePeer, kind # "playback", UNCHANGED <<names, watch>>
  PROVE  DevicesInv'
<1>0. Naming' = Naming /\ UNCHANGED <<present, default, wanted>>
  BY SameWorld DEF LosePeer, endVars, handle, world
<1>1. DevicesTyped'
  BY <1>0, GraceAssumption, HorizonAssumption
  DEF DevicesInv, DevicesTyped, LosePeer, endVars, handle, world, watch
<1>2. Shape'
  BY <1>0, EndsAssumption
  DEF DevicesInv, DevicesTyped, Shape, DefaultLeft, LosePeer, endVars, handle, world
<1>3. PlaybackDue'
  BY <1>0, GraceAssumption
  DEF DevicesInv, DevicesTyped, Shape, PlaybackDue, LosePeer, endVars, handle, world, watch
<1>4. CaptureDue'
  BY <1>0, GraceAssumption
  DEF DevicesInv, DevicesTyped, Shape, CaptureDue, LosePeer, endVars, handle, world
<1> QED
  BY <1>1, <1>2, <1>3, <1>4 DEF DevicesInv

(* The bounds hold before anything was opened, with steady at zero.        *)
LEMMA DevicesInitInv == DevicesInit => DevicesInv
<1> SUFFICES ASSUME DevicesInit PROVE DevicesInv
  OBVIOUS
<1>1. /\ 0 \in 0 .. 2 /\ 0 \in 0 .. Grace /\ Patience + 1 \in 0 .. Patience + 1
      /\ 0 <= 2 /\ 0 <= Grace /\ 0 <= 3
  BY GraceAssumption
<1>2. DevicesTyped
  BY <1>1 DEF DevicesInit, EndInit, PlaybackInit, CaptureInit, DevicesTyped
<1>3. Shape
  BY DEF DevicesInit, EndInit, Shape
<1>4. PlaybackDue /\ CaptureDue
  BY <1>1 DEF DevicesInit, EndInit, PlaybackInit, CaptureInit, PlaybackDue, CaptureDue
<1> QED
  BY <1>2, <1>3, <1>4 DEF DevicesInv

(* Every step is one of those above.                                       *)
LEMMA DevicesNextInv == DevicesInv /\ [DevicesNext]_devicesVars => DevicesInv'
<1> SUFFICES ASSUME DevicesInv, [DevicesNext]_devicesVars PROVE DevicesInv'
  OBVIOUS
<1>1. CASE UNCHANGED devicesVars
  <2>1. /\ UNCHANGED <<kind, world, unseen, sup, chosen, worker, stream, flowing, failed, rest>>
        /\ UNCHANGED <<since, steady, name, opened_name, age, quiet, woke, seeking>>
    BY <1>1 DEF devicesVars, playbackVars, endVars, handle, names, watch
  <2>2. Naming' = Naming /\ UNCHANGED <<present, default, wanted>>
    BY <2>1, SameWorld
  <2> QED
    BY <2>1, <2>2
    DEF DevicesInv, DevicesTyped, Shape, DefaultLeft, NameChanged, DefaultName, PlaybackDue,
        CaptureDue
<1>2. CASE kind = "playback" /\ PlaybackNext /\ UNCHANGED seeking
  <2>1. ASSUME Event \/ OpenFails \/ PauseOver, UNCHANGED <<names, watch>> PROVE DevicesInv'
    BY <1>2, <2>1, EventStep, OpenFailsStep, PauseOverStep
  <2>2. ASSUME NEW e \in Ends, Rename(e) PROVE DevicesInv'
    BY <1>2, <2>2, RenameStep
  <2> QED
    BY <1>2, <2>1, <2>2, OpenOutputStep, OpenPlaybackStep, DeviceChangedStep, WatchdogStep,
       RefuseStep, RetryStep, LeaveStep, LookStep, CallbackStep, PlaybackSecondStep
    DEF PlaybackNext
<1>3. CASE kind # "playback" /\ CaptureNext /\ UNCHANGED <<names, watch>>
  BY <1>3, EventStep, OpenFailsStep, PauseOverStep, OpensStep, OpenCaptureStep,
     CaptureChangedStep, CaptureRefusedStep, RetryCaptureStep, LeaveCaptureStep, CheckFailsStep,
     LookCaptureStep, CaptureSecondStep, FindPeerStep, LosePeerStep
  DEF CaptureNext, DeviceStep, OpenMicrophone, OpenLoopback, Opens
<1> QED
  BY <1>1, <1>2, <1>3 DEF DevicesNext

(* So the bounds hold throughout.                                          *)
LEMMA DevicesInvariance == DevicesSpec => []DevicesInv
BY DevicesInitInv, DevicesNextInv, PTL DEF DevicesSpec

(* supervise_playback over open_playback: once Grace seconds have gone by  *)
(* since the last fault or choice, the output that is chosen plays, for    *)
(* any number of devices, whatever their names, and for faults, renames    *)
(* and choices in any order; with the default chosen, on a device that had *)
(* the name which the default has now.                                     *)
THEOREM PlaybackAlwaysReturns == DevicesSpec => []PlaybackReturns
<1>1. ASSUME DevicesInv, kind = "playback", steady > Grace, Target(wanted) # None PROVE Plays
  <2>1. wanted \in Naming /\ steady \in Nat /\ steady > 2 /\ Grace \in Nat
    BY <1>1, GraceAssumption DEF DevicesInv, DevicesTyped, Naming
  <2>2. sup = "watch"
    <3>1. rest \in 0 .. 2 /\ sup \in {"open", "watch", "pause"}
      BY <1>1 DEF DevicesInv, DevicesTyped
    <3>2. sup # "open"
      BY <1>1, <2>1 DEF DevicesInv, PlaybackDue
    <3>3. sup # "pause"
      BY <1>1, <2>1, <3>1 DEF DevicesInv, Shape
    <3> QED
      BY <3>1, <3>2, <3>3
  <2>3. chosen = wanted
    <3>1. unseen # TRUE
      <4>1. unseen = TRUE => steady <= 2
        BY <1>1 DEF DevicesInv, PlaybackDue
      <4>2. ~(steady <= 2)
        BY <2>1
      <4> QED
        BY <4>1, <4>2, Zenon
    <3> QED
      BY <1>1, <2>2, <3>1 DEF DevicesInv, DevicesTyped, PlaybackDue
  <2>4. worker = "play"
    <3>1. rest \in 0 .. 2 /\ worker \in {"try", "play", "wait"}
      BY <1>1, <2>2 DEF DevicesInv, DevicesTyped, Shape
    <3>2. worker # "try" /\ worker # "wait"
      BY <1>1, <2>1, <2>3, <3>1 DEF DevicesInv, PlaybackDue
    <3> QED
      BY <3>1, <3>2
  <2>5. flowing = TRUE
    <3>1. flowing # FALSE
      <4>1. flowing = FALSE => steady <= Grace
        BY <1>1, <2>4 DEF DevicesInv, PlaybackDue
      <4>2. ~(steady <= Grace)
        BY <1>1, <2>1
      <4> QED
        BY <4>1, <4>2, Zenon
    <3> QED
      BY <1>1, <3>1 DEF DevicesInv, DevicesTyped
  <2>6. ~NameChanged
    <3>1. since \in 0 .. 2
      BY <1>1 DEF DevicesInv, DevicesTyped
    <3> QED
      BY <1>1, <2>1, <2>4, <3>1 DEF DevicesInv, Shape
  <2> QED
    BY <1>1, <2>3, <2>4, <2>5, <2>6 DEF DevicesInv, Shape, Plays, NameChanged
<1>2. DevicesInv => PlaybackReturns
  BY <1>1 DEF PlaybackReturns
<1> QED
  BY <1>2, DevicesInvariance, PTL

(* open_capture_retry and the workers of capture.rs: once three seconds    *)
(* have gone by since the last fault or choice, the input that is asked    *)
(* for is captured, or its stream fell silent without an error.            *)
THEOREM CaptureAlwaysReturns == DevicesSpec => []CaptureReturns
<1>1. ASSUME DevicesInv, kind # "playback", steady > Recovery, Target(Asked) # None
      PROVE  Captures \/ FellSilent
  <2>1. steady \in Nat /\ steady > 3 /\ rest \in 0 .. 2 /\ since \in 0 .. 2
    BY <1>1 DEF DevicesInv, DevicesTyped, Recovery
  <2>2. sup = "watch"
    <3>1. sup # "open"
      BY <1>1, <2>1 DEF DevicesInv, CaptureDue
    <3>2. sup # "pause"
      BY <1>1, <2>1 DEF DevicesInv, Shape
    <3> QED
      BY <1>1, <3>1, <3>2 DEF DevicesInv, DevicesTyped
  <2>3. chosen = Asked
    <3>1. unseen \in BOOLEAN /\ seeking \in BOOLEAN
      BY <1>1 DEF DevicesInv, DevicesTyped
    <3>2. ~(seeking = FALSE /\ unseen = TRUE)
      BY <1>1, <2>1 DEF DevicesInv, CaptureDue
    <3>3. unseen = FALSE => chosen = wanted
      BY <1>1 DEF DevicesInv, CaptureDue
    <3> QED
      BY <3>1, <3>2, <3>3 DEF Asked
  <2>4. chosen \in Naming
    <3>1. chosen \in Picks
      BY <1>1 DEF DevicesInv, DevicesTyped
    <3> QED
      BY <1>1, <2>3, <3>1 DEF Naming
  <2>5. worker = "play"
    <3>1. worker # "try" /\ worker # "wait"
      BY <1>1, <2>1, <2>4 DEF DevicesInv, CaptureDue
    <3> QED
      BY <1>1, <2>2, <3>1 DEF DevicesInv, DevicesTyped, Shape
  <2>6. failed = FALSE /\ flowing \in BOOLEAN
    <3>1. failed # TRUE
      <4>1. failed = TRUE => steady = 0
        BY <1>1, <2>5 DEF DevicesInv, Shape
      <4>2. steady # 0
        BY <2>1
      <4> QED
        BY <4>1, <4>2, Zenon
    <3> QED
      BY <1>1, <3>1 DEF DevicesInv, DevicesTyped
  <2>7. kind = "loopback" => ~DefaultLeft /\ stream \in present
    BY <1>1, <2>1, <2>5 DEF DevicesInv, Shape
  <2>8. CASE flowing = TRUE
    BY <1>1, <2>3, <2>5, <2>6, <2>7, <2>8 DEF DevicesInv, Shape, Captures, DefaultLeft
  <2>9. CASE flowing = FALSE
    BY <1>1, <2>5, <2>6, <2>7, <2>9 DEF DevicesInv, DevicesTyped, FellSilent
  <2> QED
    BY <2>6, <2>8, <2>9
<1>2. DevicesInv => CaptureReturns
  BY <1>1 DEF CaptureReturns
<1> QED
  BY <1>2, DevicesInvariance, PTL

(* supervise_playback, open_playback and the workers of capture.rs: once   *)
(* the output or the input has had its time to return, no step but a new   *)
(* fault or choice opens or closes a stream: there is no flapping.         *)
THEOREM StreamIsKept == DevicesSpec => StreamKept
<1>1. ASSUME DevicesInv, kind = "playback", PlaybackNext, steady > Grace, steady' # 0
      PROVE  stream' = stream
  <2>1. /\ steady \in Nat /\ since \in 0 .. 2 /\ quiet \in Nat /\ Patience \in Nat
        /\ Grace \in Nat /\ ~(steady <= Grace) /\ ~(steady <= 2)
        /\ flowing \in BOOLEAN /\ failed \in BOOLEAN /\ unseen \in BOOLEAN
    BY <1>1, GraceAssumption DEF DevicesInv, DevicesTyped
  <2>2. unseen = FALSE
    BY <1>1, <2>1 DEF DevicesInv, PlaybackDue
  <2>3. ~OpenOutput
    <3>1. SUFFICES ASSUME OpenOutput PROVE FALSE
      OBVIOUS
    <3>2. worker = "try" /\ chosen \in Naming /\ sup = "watch"
      BY <1>1, <3>1 DEF OpenOutput, Opens, Naming, DevicesInv, DevicesTyped, Shape
    <3> QED
      BY <1>1, <2>1, <2>2, <3>2 DEF DevicesInv, PlaybackDue
  <2>4. CASE worker = "play"
    <3>1. flowing = TRUE
      BY <1>1, <2>1, <2>4 DEF DevicesInv, PlaybackDue
    <3>2. quiet = 0 /\ ~Stalled
      BY <1>1, <2>1, <2>4, <3>1 DEF DevicesInv, PlaybackDue, Stalled
    <3>3. failed = FALSE
      BY <1>1, <2>1, <2>4 DEF DevicesInv, Shape
    <3>4. ~NameChanged
      BY <1>1, <2>1, <2>4 DEF DevicesInv, Shape
    <3>5. sup = "watch"
      BY <1>1, <2>4 DEF DevicesInv, Shape
    <3> QED
      BY <1>1, <2>2, <2>3, <2>4, <3>2, <3>3, <3>4, <3>5
      DEF PlaybackNext, Event, Rename, handle, OpenFails, PauseOver, OpenPlayback, DeviceChanged,
          Watchdog, Refuse, Refused, Retry, Leave, Look, LookedAtDefault, Callback, endVars,
          PlaybackSecond, SecondPasses
  <2>5. CASE worker # "play"
    <3>1. stream = None
      BY <1>1, <2>5 DEF DevicesInv, Shape
    <3> QED
      BY <1>1, <2>3, <2>5, <3>1
      DEF PlaybackNext, Event, Rename, handle, OpenFails, PauseOver, OpenPlayback, DeviceChanged,
          Close, Watchdog, Refuse, Refused, Retry, Leave, Look, LookedAtDefault, Callback, endVars,
          PlaybackSecond, SecondPasses
  <2> QED
    BY <2>4, <2>5
<1>2. ASSUME DevicesInv, kind # "playback", CaptureNext, steady > Recovery, steady' # 0
      PROVE  stream' = stream
  <2>1. /\ steady \in Nat /\ since \in 0 .. 2 /\ ~(steady <= 3) /\ ~(steady <= 2)
        /\ failed \in BOOLEAN /\ unseen \in BOOLEAN /\ seeking \in BOOLEAN
    BY <1>2 DEF DevicesInv, DevicesTyped, Recovery
  <2>2. ~CheckFails
    BY <1>2 DEF CheckFails
  <2>3. ~Opens
    <3>1. SUFFICES ASSUME Opens PROVE FALSE
      OBVIOUS
    <3>2. worker = "try" /\ chosen \in Naming
      BY <1>2, <3>1 DEF Opens, Naming, DevicesInv, DevicesTyped
    <3> QED
      BY <1>2, <2>1, <3>2 DEF DevicesInv, CaptureDue
  <2>4. ~CaptureChanged
    BY <1>2, <2>1 DEF CaptureChanged, DevicesInv, CaptureDue
  <2>5. ~LeaveCapture
    <3>1. SUFFICES ASSUME LeaveCapture PROVE FALSE
      OBVIOUS
    <3>2. worker = "play" /\ (failed = TRUE \/ EndpointLeft)
      BY <2>1, <3>1 DEF LeaveCapture
    <3>3. steady <= 2
      BY <1>2, <2>1, <3>2 DEF DevicesInv, Shape, EndpointLeft
    <3> QED
      BY <2>1, <3>3
  <2> QED
    BY <1>2, <2>2, <2>3, <2>4, <2>5
    DEF CaptureNext, DeviceStep, Event, handle, OpenFails, PauseOver, OpenMicrophone, OpenLoopback,
        OpenCapture, CaptureRefused, Refused, RetryCapture, LookCapture, LookedAtDefault,
        CaptureSecond, SecondPasses, FindPeer, LosePeer, endVars
<1>3. DevicesInv /\ [DevicesNext]_devicesVars
        => [AtRest /\ steady' # 0 => stream' = stream]_devicesVars
  BY <1>1, <1>2 DEF AtRest, DevicesNext
<1> QED
  BY <1>3, DevicesInvariance, PTL DEF DevicesSpec, StreamKept

=============================================================================
