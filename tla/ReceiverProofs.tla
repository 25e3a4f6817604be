---------------------------- MODULE ReceiverProofs ----------------------------
(***************************************************************************)
(* Theorems about Receiver, for any number of sessions, any limits and any *)
(* order of datagrams, feedback ticks and expiry ticks.                    *)
(***************************************************************************)
EXTENDS Receiver, FiniteSetTheorems, TLAPS

(* What the window of a session has not granted was not let past it, under *)
(* this epoch or a later one.                                              *)
AppliedExact ==
  \A e \in Epochs, s \in Sessions, c \in Counters :
    /\ applied[<<e, s, c>>] <= 1
    /\ e > epoch \/ (e = epoch /\ c \notin seen[s]) => applied[<<e, s, c>>] = 0

(* The same for the feedback counters a session has not come to.           *)
SealedExact ==
  \A e \in Epochs, s \in Sessions, k \in 1 .. MaxFeedback :
    /\ sealed[<<e, s, k>>] <= 1
    /\ e > epoch \/ (e = epoch /\ k > sendCounter[s]) => sealed[<<e, s, k>>] = 0

(* A session without an entry has a new window.                            *)
StrangersUnseen == \A s \in Sessions \ known : seen[s] = {}

IInv ==
  /\ TypeOK
  /\ StreamsBacked
  /\ StrangersUnseen
  /\ CapacityHeld
  /\ AppliedExact
  /\ SealedExact

-----------------------------------------------------------------------------
(* One more element in a finite set that had room keeps it within a bound. *)
LEMMA RoomForOne ==
  ASSUME NEW S, NEW x, NEW n \in Nat, IsFiniteSet(S),
         (x \in S /\ Cardinality(S) <= n) \/ Cardinality(S) < n
  PROVE  Cardinality(S \cup {x}) <= n
<1>1. Cardinality(S) \in Nat
  BY FS_CardinalityType
<1>2. CASE x \in S
  <2>1. S \cup {x} = S
    BY <1>2
  <2> QED
    BY <2>1, <1>1
<1>3. CASE x \notin S
  <2>1. Cardinality(S \cup {x}) = Cardinality(S) + 1
    BY <1>3, FS_AddElement
  <2> QED
    BY <2>1, <1>1, <1>3
<1> QED
  BY <1>2, <1>3

(* A step that commits the counter c of session s keeps AppliedExact.      *)
LEMMA CommitKeeps ==
  ASSUME NEW s \in Sessions, NEW c \in Counters,
         TypeOK, AppliedExact, Fresh(s, c), Commit(s, c), epoch' = epoch
  PROVE  /\ seen' \in [Sessions -> SUBSET Counters]
         /\ applied' \in [DatagramIds -> Nat]
         /\ AppliedExact'
<1>1. epoch \in Epochs /\ epoch \in Nat
  BY BoundsAssumption DEF TypeOK, Epochs
<1>2. <<epoch, s, c>> \in DatagramIds
  BY <1>1 DEF DatagramIds
<1>3. seen' \in [Sessions -> SUBSET Counters]
  BY DEF Commit, TypeOK
<1>4. applied' \in [DatagramIds -> Nat]
  BY <1>2 DEF Commit, TypeOK
<1>5. AppliedExact'
  <2> SUFFICES ASSUME NEW e \in Epochs, NEW t \in Sessions, NEW d \in Counters
               PROVE  /\ applied'[<<e, t, d>>] <= 1
                      /\ e > epoch \/ (e = epoch /\ d \notin seen'[t]) => applied'[<<e, t, d>>] = 0
    BY DEF AppliedExact
  <2>1. <<e, t, d>> \in DatagramIds /\ applied[<<e, t, d>>] \in Nat
    BY DEF DatagramIds, TypeOK
  <2>2. CASE e = epoch /\ t = s /\ d = c
    <3>1. applied'[<<e, t, d>>] = applied[<<e, t, d>>] + 1
      BY <2>1, <2>2 DEF Commit, TypeOK
    <3>2. applied[<<e, t, d>>] = 0
      BY <2>2 DEF Fresh, AppliedExact
    <3>3. d \in seen'[t]
      BY <2>2 DEF Commit, TypeOK
    <3> QED
      BY <3>1, <3>2, <3>3, <2>2, <1>1
  <2>3. CASE ~(e = epoch /\ t = s /\ d = c)
    <3>1. applied'[<<e, t, d>>] = applied[<<e, t, d>>]
      BY <2>1, <2>3 DEF Commit, TypeOK
    <3>2. seen[t] \subseteq seen'[t]
      BY DEF Commit, TypeOK
    <3> QED
      BY <3>1, <3>2 DEF AppliedExact
  <2> QED
    BY <2>2, <2>3
<1> QED
  BY <1>3, <1>4, <1>5

LEMMA InitInv == Init => IInv
<1> SUFFICES ASSUME Init PROVE IInv
  OBVIOUS
<1>1. TypeOK
  BY BoundsAssumption DEF Init, TypeOK, Epochs
<1>2. CapacityHeld
  BY FS_EmptySet, LimitsAssumption DEF Init, CapacityHeld
<1>3. AppliedExact
  BY DEF Init, AppliedExact, DatagramIds
<1>4. SealedExact
  BY DEF Init, SealedExact, FeedbackIds
<1> QED
  BY <1>1, <1>2, <1>3, <1>4 DEF IInv, Init, StreamsBacked, StrangersUnseen

LEMMA NextInv == IInv /\ [Next]_vars => IInv'
<1> SUFFICES ASSUME IInv, [Next]_vars PROVE IInv'
  OBVIOUS
<1> USE BoundsAssumption
<1>t. TypeOK /\ StreamsBacked /\ StrangersUnseen /\ CapacityHeld /\ AppliedExact
      /\ SealedExact
  BY DEF IInv
<1>e. epoch \in Nat /\ MaxStreams \in Nat /\ HistoryCap \in Nat
  BY <1>t, LimitsAssumption DEF TypeOK, Epochs
<1>f. IsFiniteSet(Sessions) /\ IsFiniteSet(streams) /\ IsFiniteSet(known)
  BY <1>t, SessionsAssumption, FS_Subset DEF TypeOK
<1>1. ASSUME UNCHANGED vars PROVE IInv'
  BY <1>1 DEF IInv, TypeOK, StreamsBacked, StrangersUnseen, CapacityHeld, AppliedExact, SealedExact,
     vars, table, registry
<1>2. ASSUME NEW e \in 1 .. epoch, NEW s \in Sessions, NEW c \in Counters,
             RotateEpoch(e, s, c)
      PROVE  IInv'
  <2>1. TypeOK'
    BY <1>2, <1>t DEF RotateEpoch, DrawEpoch, RemoveStreams, ClearPeers, TypeOK, Epochs
  <2>2. CapacityHeld'
    BY <1>2, <1>e, FS_EmptySet DEF RotateEpoch, DrawEpoch, RemoveStreams, ClearPeers, CapacityHeld
  <2>3. \A i \in Epochs : i >= epoch' => i > epoch
    BY <1>2, <1>e DEF RotateEpoch, DrawEpoch, RemoveStreams, ClearPeers, Epochs
  <2>4. AppliedExact' /\ SealedExact'
    BY <1>2, <1>t, <2>3, <1>e DEF RotateEpoch, DrawEpoch, RemoveStreams, ClearPeers, AppliedExact, SealedExact, Epochs
  <2> QED
    BY <1>2, <2>1, <2>2, <2>4 DEF IInv, StreamsBacked, StrangersUnseen, RotateEpoch, DrawEpoch, RemoveStreams,
       ClearPeers
<1>3. ASSUME NEW e \in 1 .. epoch, NEW s \in Sessions, NEW c \in Counters,
             Admit(e, s, c)
      PROVE  IInv'
  <2>1. Fresh(s, c)
    BY <1>3, <1>t DEF Admit, StrangerSaysHello, Fresh, StrangersUnseen
  <2>2. AppliedExact' /\ seen' \in [Sessions -> SUBSET Counters] /\ applied' \in [DatagramIds -> Nat]
    BY <1>3, <1>t, <2>1, CommitKeeps DEF Admit
  <2>3. streams' = streams \cup {s} /\ idle' = idle \ {s}
    BY <1>3 DEF Admit, EnsureStream
  <2>4. TypeOK' /\ StreamsBacked'
    BY <1>3, <1>t, <2>2, <2>3 DEF Admit, TypeOK, StreamsBacked
  <2>5. StrangersUnseen'
    BY <1>3, <1>t DEF Admit, StrangersUnseen, Commit, TypeOK
  <2>6. CapacityHeld'
    <3>1. Cardinality(streams') <= MaxStreams
      BY <1>3, <1>t, <1>e, <1>f, <2>3, RoomForOne DEF Admit, HasSlot, CapacityHeld
    <3>2. Cardinality(known') <= HistoryCap
      BY <1>3, <1>e, <1>f, RoomForOne DEF Admit
    <3> QED
      BY <3>1, <3>2 DEF CapacityHeld
  <2>7. SealedExact'
    BY <1>3, <1>t DEF Admit, SealedExact
  <2> QED
    BY <2>2, <2>4, <2>5, <2>6, <2>7 DEF IInv
<1>4. ASSUME NEW e \in 1 .. epoch, NEW s \in Sessions, NEW c \in Counters,
             HelloAgain(e, s, c)
      PROVE  IInv'
  <2>1. AppliedExact' /\ seen' \in [Sessions -> SUBSET Counters] /\ applied' \in [DatagramIds -> Nat]
    BY <1>4, <1>t, CommitKeeps DEF HelloAgain
  <2>2. streams' \subseteq Sessions /\ idle' \subseteq streams' /\ idle' \subseteq Sessions
        /\ streams' \subseteq streams \cup {s}
    BY <1>4, <1>t DEF HelloAgain, EnsureStream, registry, TypeOK, StreamsBacked
  <2>3. TypeOK'
    BY <1>4, <1>t, <2>1, <2>2 DEF HelloAgain, TypeOK
  <2>4. StreamsBacked'
    BY <1>4, <1>t, <2>2 DEF HelloAgain, StreamsBacked
  <2>5. Cardinality(streams') <= MaxStreams
    BY <1>4, <1>t, <1>e, <1>f, RoomForOne
       DEF HelloAgain, EnsureStream, HasSlot, registry, CapacityHeld
  <2>6. CapacityHeld'
    BY <1>4, <1>t, <2>5 DEF HelloAgain, CapacityHeld
  <2>7. SealedExact'
    BY <1>4, <1>t DEF HelloAgain, SealedExact
  <2>8. StrangersUnseen'
    BY <1>4, <1>t DEF HelloAgain, StrangersUnseen, Commit, TypeOK
  <2> QED
    BY <2>1, <2>3, <2>4, <2>6, <2>7, <2>8 DEF IInv
<1>5. ASSUME NEW e \in 1 .. epoch, NEW s \in Sessions, NEW c \in Counters,
             Media(e, s, c)
      PROVE  IInv'
  <2>1. AppliedExact' /\ seen' \in [Sessions -> SUBSET Counters] /\ applied' \in [DatagramIds -> Nat]
    BY <1>5, <1>t, CommitKeeps DEF Media
  <2>2. TypeOK'
    BY <1>5, <1>t, <2>1 DEF Media, TypeOK
  <2>3. StrangersUnseen'
    BY <1>5, <1>t DEF Media, StrangersUnseen, Commit, TypeOK
  <2> QED
    BY <1>5, <1>t, <2>1, <2>2, <2>3 DEF IInv, Media, StreamsBacked, CapacityHeld, SealedExact
<1>6. ASSUME NEW due \in SUBSET Sessions, FeedbackDue(due) PROVE IInv'
  <2>1. \A s \in Sessions : /\ sendCounter[s] \in Nat
                            /\ sendCounter'[s] = IF s \in due THEN sendCounter[s] + 1 ELSE sendCounter[s]
    BY <1>6, <1>t DEF FeedbackDue, TypeOK
  <2>2. sendCounter' \in [Sessions -> 0 .. MaxFeedback]
    BY <1>6, <1>t DEF FeedbackDue, TypeOK
  <2>3. sealed' \in [FeedbackIds -> Nat]
    BY <1>6, <1>t DEF FeedbackDue, TypeOK
  <2>4. TypeOK'
    BY <1>6, <1>t, <2>2, <2>3 DEF FeedbackDue, TypeOK, registry
  <2>5. SealedExact'
    <3>0. epoch' = epoch
      BY <1>6 DEF FeedbackDue
    <3> SUFFICES ASSUME NEW e \in Epochs, NEW s \in Sessions, NEW k \in 1 .. MaxFeedback
                 PROVE  /\ sealed'[<<e, s, k>>] <= 1
                        /\ e > epoch \/ (e = epoch /\ k > sendCounter'[s]) => sealed'[<<e, s, k>>] = 0
      BY <3>0 DEF SealedExact
    <3>1. <<e, s, k>> \in FeedbackIds /\ sealed[<<e, s, k>>] \in Nat /\ e \in Nat /\ k \in Nat
      BY <1>t DEF FeedbackIds, TypeOK, Epochs
    <3>2. /\ sealed[<<e, s, k>>] <= 1
          /\ e > epoch \/ (e = epoch /\ k > sendCounter[s]) => sealed[<<e, s, k>>] = 0
      BY <1>t DEF SealedExact
    <3>3. CASE e = epoch /\ s \in due /\ k = sendCounter[s] + 1
      <4>1. sealed'[<<e, s, k>>] = sealed[<<e, s, k>>] + 1
        BY <1>6, <3>1, <3>3 DEF FeedbackDue
      <4> QED
        BY <4>1, <3>1, <3>2, <3>3, <2>1, <1>e
    <3>4. CASE ~(e = epoch /\ s \in due /\ k = sendCounter[s] + 1)
      <4>1. sealed'[<<e, s, k>>] = sealed[<<e, s, k>>]
        BY <1>6, <3>1, <3>4 DEF FeedbackDue
      <4> QED
        BY <4>1, <3>1, <3>2, <2>1, <1>e
    <3> QED
      BY <3>3, <3>4
  <2> QED
    BY <1>6, <1>t, <2>4, <2>5 DEF IInv, FeedbackDue, StreamsBacked, StrangersUnseen, CapacityHeld,
       AppliedExact, registry
<1>7. ASSUME NEW s \in Sessions, GoIdle(s) PROVE IInv'
  BY <1>7, <1>t DEF IInv, GoIdle, TypeOK, StreamsBacked, StrangersUnseen, CapacityHeld, AppliedExact,
     SealedExact, table
<1>8. ASSUME Expire PROVE IInv'
  <2>1. TypeOK'
    BY <1>8, <1>t DEF Expire, TypeOK
  <2>2. StreamsBacked'
    BY <1>8, <1>t DEF Expire, StreamsBacked
  <2>3. Cardinality(streams') <= Cardinality(streams) /\ Cardinality(streams') \in Nat
    <3>1. streams' \subseteq streams
      BY <1>8 DEF Expire
    <3> QED
      BY <3>1, <1>f, FS_Subset, FS_CardinalityType
  <2>4. CapacityHeld'
    BY <1>8, <1>t, <1>e, <1>f, <2>3, FS_CardinalityType DEF Expire, CapacityHeld
  <2>5. AppliedExact' /\ SealedExact'
    BY <1>8, <1>t DEF Expire, AppliedExact, SealedExact
  <2> QED
    BY <1>8, <1>t, <2>1, <2>2, <2>4, <2>5 DEF IInv, Expire, StrangersUnseen
<1> QED
  BY <1>1, <1>2, <1>3, <1>4, <1>5, <1>6, <1>7, <1>8
     DEF Next, HandleDatagram, RejectDatagram

-----------------------------------------------------------------------------
LEMMA Invariance == Spec => []IInv
  BY InitInv, NextInv, PTL DEF Spec

(* Every reachable state has the types of TypeOK.                          *)
THEOREM TypeCorrect == Spec => []TypeOK
<1>1. IInv => TypeOK
  BY DEF IInv
<1> QED
  BY <1>1, Invariance, PTL

(* Every stream belongs to an active session with an entry.                *)
THEOREM StreamsCorrect == Spec => []StreamsBacked
<1>1. IInv => StreamsBacked
  BY DEF IInv
<1> QED
  BY <1>1, Invariance, PTL

(* The mixer and the session history keep their limits (README.md).        *)
THEOREM CapacityCorrect == Spec => []CapacityHeld
<1>1. IInv => CapacityHeld
  BY DEF IInv
<1> QED
  BY <1>1, Invariance, PTL

(* A sealed datagram takes effect at most once, through expiry, return and *)
(* rotation (handle_datagram, expire, rotate_epoch).                       *)
THEOREM NoReapplication == Spec => []AppliedOnce
<1>1. IInv => AppliedOnce
  BY DEF IInv, AppliedExact, AppliedOnce, DatagramIds
<1> QED
  BY <1>1, Invariance, PTL

(* A feedback counter is used once under an epoch and session.             *)
THEOREM FeedbackSealedOnce == Spec => []FeedbackOnce
<1>1. IInv => FeedbackOnce
  BY DEF IInv, SealedExact, FeedbackOnce, FeedbackIds
<1> QED
  BY <1>1, Invariance, PTL

(* Under one epoch a stream goes only when it was idle.                    *)
THEOREM StreamsNotEvicted == Spec => NoEviction
<1>1. IInv /\ [Next]_vars => [epoch' = epoch => streams \ streams' \subseteq idle]_vars
  <2> SUFFICES ASSUME IInv, Next, epoch' = epoch
               PROVE  streams \ streams' \subseteq idle
    BY DEF vars, table, registry
  <2>1. epoch \in Nat
    BY BoundsAssumption DEF IInv, TypeOK, Epochs
  <2>2. streams \subseteq streams' \/ Expire
    BY <2>1 DEF Next, HandleDatagram, RejectDatagram, RotateEpoch, DrawEpoch, Admit, HelloAgain, Media,
       EnsureStream, FeedbackDue, GoIdle, vars, registry
  <2> QED
    BY <2>2 DEF Expire
<1> QED
  BY <1>1, Invariance, PTL DEF Spec, NoEviction

=============================================================================
