----------------------------- MODULE SessionProofs -----------------------------
(***************************************************************************)
(* Theorems about Session.  The feedback direction is sound for any number *)
(* of receivers.  The audio direction is sound for one receiver; with two  *)
(* it is not, which the run of MCSessionTwo.cfg shows.                     *)
(***************************************************************************)
EXTENDS Session, TLAPS

-----------------------------------------------------------------------------
(* The parts of the invariant of the feedback direction: epochs are drawn  *)
(* in order and none is shared; a receiver's counter is not behind the     *)
(* feedback it sent; what the sender heard was sent under its key.         *)
EpochsOrdered == \A r \in Receivers : epoch[r] <= drawn
EpochsDistinct ==
  \A r, q \in Receivers : epoch[r] = epoch[q] /\ epoch[r] # 0 => r = q
ActiveRuns == \A r \in active : epoch[r] # 0
FeedbackCounted ==
  \A f \in fbNet :
    /\ f.epoch <= drawn
    /\ \A r \in Receivers : f.epoch = epoch[r] => f.counter <= fbCounter[r]
HeardWasSent == \A c \in heard : [epoch |-> key, counter |-> c] \in fbNet

FeedbackInv ==
  /\ TypeOK
  /\ EpochsOrdered
  /\ EpochsDistinct
  /\ ActiveRuns
  /\ FeedbackCounted
  /\ HeardWasSent

LEMMA InitFeedbackInv == Init => FeedbackInv
  BY SessionAssumption DEF Init, FeedbackInv, TypeOK, EpochsOrdered, EpochsDistinct,
     ActiveRuns, FeedbackCounted, HeardWasSent, Epochs, Counters, Datagrams, Feedbacks

(* What a seal does to the types.                                          *)
LEMMA SealTypes ==
  ASSUME NEW e \in Epochs, NEW c \in Nat \ {0}, NEW kind \in {"hello", "media"},
         TypeOK, SealAs(e, c, kind)
  PROVE  /\ counter' \in 0 .. MaxCounter
         /\ net' \subseteq Datagrams
         /\ sealed' \in [Epochs \X Counters -> Nat]
<1>1. c \in Counters
  BY SessionAssumption DEF SealAs, Counters
<1>2. <<e, c>> \in Epochs \X Counters
  BY <1>1
<1>3. [epoch |-> e, counter |-> c, kind |-> kind] \in Datagrams
  BY <1>1 DEF Datagrams
<1>4. sealed' \in [Epochs \X Counters -> Nat]
  BY <1>2 DEF SealAs, TypeOK
<1> QED
  BY <1>1, <1>3, <1>4, SessionAssumption DEF SealAs, TypeOK, Counters

LEMMA NextFeedbackInv == FeedbackInv /\ [Next]_vars => FeedbackInv'
<1> SUFFICES ASSUME FeedbackInv, [Next]_vars PROVE FeedbackInv'
  OBVIOUS
<1> USE SessionAssumption
<1>t. TypeOK
  BY DEF FeedbackInv
<1>1. ASSUME NEW r \in Receivers, NewEpoch(r) PROVE FeedbackInv'
  <2>1. TypeOK'
    BY <1>1, <1>t DEF NewEpoch, TypeOK, senderSide, Epochs
  <2>2. \A q \in Receivers : epoch'[q] = IF q = r THEN drawn + 1 ELSE epoch[q]
    BY <1>1, <1>t DEF NewEpoch, TypeOK
  <2>3. drawn' = drawn + 1 /\ drawn \in Nat
    BY <1>1, <1>t DEF NewEpoch, TypeOK
  <2>4. EpochsOrdered'
    BY <2>2, <2>3, <1>t DEF FeedbackInv, EpochsOrdered, TypeOK
  <2>5. EpochsDistinct'
    BY <2>2, <2>3, <1>t DEF FeedbackInv, EpochsOrdered, EpochsDistinct, TypeOK
  <2>6. ActiveRuns'
    BY <2>2, <1>1, <1>t DEF FeedbackInv, ActiveRuns, TypeOK, NewEpoch
  <2>7. FeedbackCounted'
    <3> SUFFICES ASSUME NEW f \in fbNet
                 PROVE  /\ f.epoch <= drawn'
                        /\ \A q \in Receivers : f.epoch = epoch'[q] => f.counter <= fbCounter'[q]
      BY <1>1 DEF FeedbackCounted, NewEpoch
    <3>1. f.epoch \in Nat /\ f.epoch <= drawn
      BY <1>t DEF FeedbackInv, FeedbackCounted, TypeOK, Feedbacks, Epochs
    <3>2. \A q \in Receivers : q # r => fbCounter'[q] = fbCounter[q]
      BY <1>1, <1>t DEF NewEpoch, TypeOK
    <3> QED
      BY <3>1, <3>2, <2>2, <2>3 DEF FeedbackInv, FeedbackCounted
  <2>8. HeardWasSent'
    BY <1>1 DEF FeedbackInv, HeardWasSent, NewEpoch, senderSide
  <2> QED
    BY <2>1, <2>4, <2>5, <2>6, <2>7, <2>8 DEF FeedbackInv
<1>2. ASSUME NEW r \in Receivers, Rekey(r) PROVE FeedbackInv'
  <2>1. epoch[r] \in Epochs
    BY <1>2, <1>t DEF Rekey, TypeOK, Epochs
  <2>2. TypeOK'
    BY <1>2, <1>t, <2>1, SealTypes DEF Rekey, TypeOK, receiverSide, Epochs
  <2> QED
    BY <1>2, <2>2 DEF FeedbackInv, EpochsOrdered, EpochsDistinct, ActiveRuns,
       FeedbackCounted, HeardWasSent, Rekey, receiverSide
<1>3. ASSUME NEW r \in Receivers, Rebind(r) PROVE FeedbackInv'
  <2>1. key \in Epochs /\ counter + 1 \in Nat \ {0}
    BY <1>3, <1>t DEF Rebind, TypeOK, Epochs
  <2>2. TypeOK'
    BY <1>3, <1>t, <2>1, SealTypes DEF Rebind, TypeOK, receiverSide
  <2> QED
    BY <1>3, <2>2 DEF FeedbackInv, EpochsOrdered, EpochsDistinct, ActiveRuns,
       FeedbackCounted, HeardWasSent, Rebind, receiverSide
<1>4. ASSUME NEW kind \in {"hello", "media"}, Send(kind) PROVE FeedbackInv'
  <2>1. key \in Epochs /\ counter + 1 \in Nat \ {0}
    BY <1>4, <1>t DEF Send, TypeOK, Epochs
  <2>2. TypeOK'
    BY <1>4, <1>t, <2>1, SealTypes DEF Send, TypeOK, receiverSide
  <2> QED
    BY <1>4, <2>2 DEF FeedbackInv, EpochsOrdered, EpochsDistinct, ActiveRuns,
       FeedbackCounted, HeardWasSent, Send, receiverSide
<1>5. ASSUME NEW r \in Receivers, NEW d \in net, Deliver(r, d) PROVE FeedbackInv'
  <2>1. d.epoch \in Epochs /\ d.counter \in Counters
    BY <1>t DEF TypeOK, Datagrams
  <2>2. TypeOK'
    BY <1>5, <1>t, <2>1 DEF Deliver, TypeOK, senderSide
  <2>3. ActiveRuns'
    BY <1>5, <2>1 DEF FeedbackInv, ActiveRuns, Deliver, Epochs
  <2> QED
    BY <1>5, <2>2, <2>3 DEF FeedbackInv, EpochsOrdered, EpochsDistinct,
       FeedbackCounted, HeardWasSent, Deliver, senderSide
<1>6. ASSUME NEW r \in Receivers, Expire(r) PROVE FeedbackInv'
  <2>1. TypeOK'
    BY <1>6, <1>t DEF Expire, TypeOK, senderSide
  <2> QED
    BY <1>6, <2>1 DEF FeedbackInv, EpochsOrdered, EpochsDistinct, ActiveRuns,
       FeedbackCounted, HeardWasSent, Expire, senderSide
<1>7. ASSUME NEW r \in Receivers, FeedbackDue(r) PROVE FeedbackInv'
  <2> DEFINE new == [epoch |-> epoch[r], counter |-> fbCounter[r] + 1]
  <2>1. epoch[r] \in Epochs /\ fbCounter[r] + 1 \in Counters
    BY <1>7, <1>t DEF FeedbackInv, ActiveRuns, FeedbackDue, TypeOK, Epochs, Counters
  <2>2. TypeOK'
    BY <1>7, <1>t, <2>1 DEF FeedbackDue, TypeOK, senderSide, Feedbacks, Counters
  <2>3. \A q \in Receivers : fbCounter'[q] = IF q = r THEN fbCounter[r] + 1 ELSE fbCounter[q]
    BY <1>7, <1>t DEF FeedbackDue, TypeOK
  <2>4. FeedbackCounted'
    <3> SUFFICES ASSUME NEW f \in fbNet'
                 PROVE  /\ f.epoch <= drawn
                        /\ \A q \in Receivers : f.epoch = epoch[q] => f.counter <= fbCounter'[q]
      BY <1>7 DEF FeedbackCounted, FeedbackDue
    <3>1. \A q \in Receivers : fbCounter[q] \in Nat
      BY <1>t DEF TypeOK
    <3>2. CASE f \in fbNet
      <4>1. f.counter \in Nat
        BY <3>2, <1>t DEF TypeOK, Feedbacks, Counters
      <4>2. \A q \in Receivers : f.epoch = epoch[q] => f.counter <= fbCounter[q]
        BY <3>2 DEF FeedbackInv, FeedbackCounted
      <4> QED
        BY <3>1, <3>2, <4>1, <4>2, <2>3 DEF FeedbackInv, FeedbackCounted
    <3>3. CASE f = new
      <4>1. f.epoch = epoch[r] /\ f.counter = fbCounter[r] + 1
        BY <3>3
      <4>2. \A q \in Receivers : f.epoch = epoch[q] => q = r
        <5>1. epoch[r] # 0
          BY <1>7 DEF FeedbackInv, ActiveRuns, FeedbackDue
        <5> QED
          BY <4>1, <5>1, Zenon DEF FeedbackInv, EpochsDistinct
      <4> QED
        BY <4>1, <4>2, <2>3, <3>1 DEF FeedbackInv, EpochsOrdered
    <3> QED
      BY <3>2, <3>3, <1>7 DEF FeedbackDue
  <2> QED
    BY <1>7, <2>2, <2>4 DEF FeedbackInv, EpochsOrdered, EpochsDistinct, ActiveRuns,
       HeardWasSent, FeedbackDue, senderSide
<1>8. ASSUME NEW f \in fbNet, HandleFeedback(f) PROVE FeedbackInv'
  <2>1. f = [epoch |-> f.epoch, counter |-> f.counter] /\ f.counter \in Counters
    BY <1>t DEF TypeOK, Feedbacks
  <2>2. TypeOK'
    BY <1>8, <1>t, <2>1 DEF HandleFeedback, TypeOK, receiverSide
  <2>3. HeardWasSent'
    BY <1>8, <2>1 DEF FeedbackInv, HeardWasSent, HandleFeedback
  <2> QED
    BY <1>8, <2>2, <2>3 DEF FeedbackInv, EpochsOrdered, EpochsDistinct, ActiveRuns,
       FeedbackCounted, HandleFeedback, receiverSide
<1>9. CASE UNCHANGED vars
  BY <1>9 DEF FeedbackInv, TypeOK, EpochsOrdered, EpochsDistinct, ActiveRuns,
     FeedbackCounted, HeardWasSent, vars, receiverSide, senderSide
<1> QED
  BY <1>1, <1>2, <1>3, <1>4, <1>5, <1>6, <1>7, <1>8, <1>9 DEF Next

(* Every reachable state has the types of TypeOK.                          *)
THEOREM TypeCorrect == Spec => []TypeOK
<1>1. FeedbackInv => TypeOK
  BY DEF FeedbackInv
<1> QED
  BY <1>1, InitFeedbackInv, NextFeedbackInv, PTL DEF Spec

(* However many receivers the sender moves between, and however the        *)
(* network treats feedback, what a receiver seals next is news to a sender *)
(* bound to its epoch (handle_feedback, feedback_due).                     *)
THEOREM FeedbackFresh == Spec => []NextFeedbackFresh
<1>1. FeedbackInv => NextFeedbackFresh
  <2> SUFFICES ASSUME FeedbackInv, key = epoch[peer], NEW c \in heard
               PROVE  c <= fbCounter[peer]
    BY DEF NextFeedbackFresh
  <2>1. peer \in Receivers
    BY DEF FeedbackInv, TypeOK
  <2>2. [epoch |-> key, counter |-> c] \in fbNet
    BY DEF FeedbackInv, HeardWasSent
  <2> QED
    BY <2>1, <2>2 DEF FeedbackInv, FeedbackCounted
<1> QED
  BY <1>1, InitFeedbackInv, NextFeedbackInv, PTL DEF Spec

-----------------------------------------------------------------------------
(* The invariant of the audio direction, for a single receiver r: its      *)
(* epoch is the last drawn; the sender's key never runs ahead of it; what  *)
(* was sealed, and is on its way, is not beyond the sender's counter; what *)
(* the window granted had been on its way.                                 *)
LatestEpoch(r) == epoch[r] = drawn /\ key <= drawn
SealedSoFar ==
  \A e \in Epochs, c \in Counters :
    /\ sealed[<<e, c>>] <= 1
    /\ e > key \/ (e = key /\ c > counter) => sealed[<<e, c>>] = 0
SentSoFar ==
  \A d \in net : d.epoch <= key /\ (d.epoch = key => d.counter <= counter)
SeenWasSent(r) ==
  \A c \in seen[r] : \E d \in net : d.epoch = epoch[r] /\ d.counter = c

AudioInv(r) ==
  /\ TypeOK
  /\ LatestEpoch(r)
  /\ SealedSoFar
  /\ SentSoFar
  /\ SeenWasSent(r)

LEMMA InitAudioInv ==
  ASSUME NEW r \in Receivers, Init PROVE AudioInv(r)
<1>1. TypeOK
  BY InitFeedbackInv DEF FeedbackInv
<1> QED
  BY <1>1 DEF Init, AudioInv, LatestEpoch, SealedSoFar, SentSoFar, SeenWasSent

(* A seal under the key e with the counter c, the next after all that was  *)
(* sealed before, keeps the sender's part of the invariant.                *)
LEMMA SealKeeps ==
  ASSUME NEW e \in Epochs, NEW c \in Nat \ {0}, NEW kind \in {"hello", "media"},
         TypeOK, SealedSoFar, SentSoFar, SealAs(e, c, kind),
         e > key \/ (e = key /\ c = counter + 1),
         key' = e
  PROVE  SealedSoFar' /\ SentSoFar'
<1> USE SessionAssumption
<1>1. c \in Counters /\ counter' = c
  BY DEF SealAs, Counters
<1>2. key \in Nat /\ counter \in Nat /\ e \in Nat /\ c \in Nat
  BY DEF TypeOK, Epochs
<1>3. SealedSoFar'
  <2> SUFFICES ASSUME NEW f \in Epochs, NEW d \in Counters
               PROVE  /\ sealed'[<<f, d>>] <= 1
                      /\ f > e \/ (f = e /\ d > c) => sealed'[<<f, d>>] = 0
    BY <1>1 DEF SealedSoFar
  <2>1. f \in Nat /\ d \in Nat /\ sealed[<<f, d>>] \in Nat
    BY DEF TypeOK, Epochs, Counters
  <2>2. CASE f = e /\ d = c
    <3>1. sealed[<<f, d>>] = 0
      BY <2>1, <2>2, <1>2 DEF SealedSoFar
    <3>2. sealed'[<<f, d>>] = sealed[<<f, d>>] + 1
      BY <2>2, <1>1 DEF SealAs, TypeOK
    <3> QED
      BY <2>1, <2>2, <3>1, <3>2, <1>2
  <2>3. CASE ~(f = e /\ d = c)
    <3>1. sealed'[<<f, d>>] = sealed[<<f, d>>]
      BY <2>3, <1>1 DEF SealAs, TypeOK
    <3>2. f > e \/ (f = e /\ d > c) => f > key \/ (f = key /\ d > counter)
      BY <2>1, <1>2
    <3> QED
      BY <3>1, <3>2 DEF SealedSoFar
  <2> QED
    BY <2>2, <2>3
<1>4. SentSoFar'
  <2> SUFFICES ASSUME NEW d \in net'
               PROVE  d.epoch <= e /\ (d.epoch = e => d.counter <= c)
    BY <1>1 DEF SentSoFar
  <2>1. CASE d \in net
    BY <2>1, <1>2 DEF SentSoFar, TypeOK, Datagrams, Epochs, Counters
  <2>2. CASE d = [epoch |-> e, counter |-> c, kind |-> kind]
    BY <2>2, <1>2
  <2> QED
    BY <2>1, <2>2 DEF SealAs
<1> QED
  BY <1>3, <1>4

LEMMA NextAudioInv ==
  ASSUME NEW r \in Receivers, Receivers = {r}, AudioInv(r), TypeOK', [Next]_vars
  PROVE  AudioInv(r)'
<1> USE SessionAssumption
<1>t. TypeOK
  BY DEF AudioInv
<1>s. SealedSoFar /\ SentSoFar
  BY DEF AudioInv
<1>k. key \in Nat /\ counter \in Nat /\ drawn \in Nat /\ peer = r
  BY <1>t DEF TypeOK
<1>1. ASSUME NewEpoch(r) PROVE AudioInv(r)'
  <2>1. epoch'[r] = drawn' /\ drawn' = drawn + 1 /\ seen'[r] = {}
    BY <1>1, <1>t DEF NewEpoch, TypeOK
  <2> QED
    BY <1>1, <2>1, <1>k DEF AudioInv, LatestEpoch, SealedSoFar, SentSoFar, SeenWasSent,
       NewEpoch, senderSide
<1>2. ASSUME Rekey(r) PROVE AudioInv(r)'
  <2>1. epoch[r] \in Epochs /\ epoch[r] > key /\ key' = epoch[r]
    BY <1>2, <1>t DEF AudioInv, LatestEpoch, Rekey, TypeOK, Epochs
  <2>2. SealAs(epoch[r], 1, "hello")
    BY <1>2 DEF Rekey
  <2>3. SealedSoFar' /\ SentSoFar'
    BY <2>1, <2>2, <1>t, <1>s, SealKeeps
  <2>4. SeenWasSent(r)'
    BY <1>2, <2>2 DEF AudioInv, SeenWasSent, Rekey, SealAs, receiverSide
  <2> QED
    BY <1>2, <2>1, <2>3, <2>4, <1>k DEF AudioInv, LatestEpoch, Rekey, receiverSide
<1>3. ASSUME Rebind(r) PROVE AudioInv(r)'
  <2>1. key \in Epochs /\ counter + 1 \in Nat \ {0} /\ key' = key
    BY <1>3, <1>t DEF Rebind, TypeOK, Epochs
  <2>2. SealAs(key, counter + 1, "hello")
    BY <1>3 DEF Rebind
  <2>3. SealedSoFar' /\ SentSoFar'
    BY <2>1, <2>2, <1>t, <1>s, SealKeeps
  <2>4. SeenWasSent(r)'
    BY <1>3, <2>2 DEF AudioInv, SeenWasSent, Rebind, SealAs, receiverSide
  <2> QED
    BY <1>3, <2>1, <2>3, <2>4 DEF AudioInv, LatestEpoch, Rebind, receiverSide
<1>4. ASSUME NEW kind \in {"hello", "media"}, Send(kind) PROVE AudioInv(r)'
  <2>1. key \in Epochs /\ counter + 1 \in Nat \ {0} /\ key' = key
    BY <1>4, <1>t DEF Send, TypeOK, Epochs
  <2>2. SealAs(key, counter + 1, kind)
    BY <1>4 DEF Send
  <2>3. SealedSoFar' /\ SentSoFar'
    BY <2>1, <2>2, <1>t, <1>s, SealKeeps
  <2>4. SeenWasSent(r)'
    BY <1>4, <2>2 DEF AudioInv, SeenWasSent, Send, SealAs, receiverSide
  <2> QED
    BY <1>4, <2>1, <2>3, <2>4 DEF AudioInv, LatestEpoch, Send, receiverSide
<1>5. ASSUME NEW d \in net, Deliver(r, d) PROVE AudioInv(r)'
  <2>1. seen'[r] = seen[r] \cup {d.counter}
    BY <1>5, <1>t DEF Deliver, TypeOK
  <2>2. SeenWasSent(r)'
    BY <1>5, <2>1 DEF AudioInv, SeenWasSent, Deliver
  <2> QED
    BY <1>5, <2>2 DEF AudioInv, LatestEpoch, SealedSoFar, SentSoFar, Deliver, senderSide
<1>6. ASSUME Expire(r) \/ FeedbackDue(r) \/ (\E f \in fbNet : HandleFeedback(f)) \/ UNCHANGED vars
      PROVE  AudioInv(r)'
  <2>1. UNCHANGED <<epoch, drawn, seen, key, counter, net, sealed>>
    BY <1>6 DEF Expire, FeedbackDue, HandleFeedback, vars, receiverSide, senderSide
  <2> QED
    BY <2>1 DEF AudioInv, LatestEpoch, SealedSoFar, SentSoFar, SeenWasSent
<1> QED
  BY <1>1, <1>2, <1>3, <1>4, <1>5, <1>6 DEF Next

(* With one receiver, seal never repeats a counter under one epoch.        *)
THEOREM SealsOnce ==
  ASSUME NEW r \in Receivers, Receivers = {r} PROVE Spec => []SealsUnique
<1>1. Init => AudioInv(r)
  BY InitAudioInv
<1>2. AudioInv(r) /\ TypeOK' /\ [Next]_vars => AudioInv(r)'
  BY NextAudioInv
<1>3. AudioInv(r) => SealsUnique
  BY DEF AudioInv, SealedSoFar, SealsUnique
<1> QED
  BY <1>1, <1>2, <1>3, TypeCorrect, PTL DEF Spec

(* With one receiver, the receiver's window is never beyond the counter of *)
(* a sender bound to its epoch: a reconnect after expiry, a rotation or a  *)
(* restart of the receiver is heard without restarting the sender.         *)
THEOREM ReconnectIsFresh ==
  ASSUME NEW r \in Receivers, Receivers = {r} PROVE Spec => []NextSealFresh
<1>1. Init => AudioInv(r)
  BY InitAudioInv
<1>2. AudioInv(r) /\ TypeOK' /\ [Next]_vars => AudioInv(r)'
  BY NextAudioInv
<1>3. AudioInv(r) => NextSealFresh
  BY DEF AudioInv, TypeOK, SentSoFar, SeenWasSent, NextSealFresh
<1> QED
  BY <1>1, <1>2, <1>3, TypeCorrect, PTL DEF Spec

=============================================================================
