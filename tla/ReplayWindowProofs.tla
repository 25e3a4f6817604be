-------------------------- MODULE ReplayWindowProofs --------------------------
(***************************************************************************)
(* Proofs about ReplayWindow for every window size and every set of        *)
(* sequence numbers.  The inductive invariant is BitmapExact together with *)
(* the type invariant and AtMostOnce; the refinement follows from it.      *)
(***************************************************************************)
EXTENDS ReplayWindow, TLAPS

IInv == TypeOK /\ AtMostOnce /\ BitmapExact

(* The initial state satisfies the inductive invariant. *)
LEMMA InitInv == Init => IInv
<1> SUFFICES ASSUME Init PROVE IInv
  OBVIOUS
<1>1. Granted = {}
  BY DEF Init, Granted
<1>2. TypeOK /\ AtMostOnce
  BY DEF Init, TypeOK, AtMostOnce
<1>3. BitmapExact
  BY <1>1 DEF Init, BitmapExact
<1> QED
  BY <1>2, <1>3 DEF IInv

(* Granting a number that was never granted: one more, granted once.       *)
LEMMA GrantingStep ==
  ASSUME TypeOK, AtMostOnce, NEW seq \in Seqs, Granting(seq), seq \notin Granted
  PROVE  /\ grants' \in [Seqs -> Nat]
         /\ last' \in [seq : Seqs \cup {0}, ok : BOOLEAN]
         /\ AtMostOnce'
         /\ Granted' = Granted \cup {seq}
<1>1. grants' = [grants EXCEPT ![seq] = @ + 1] /\ grants[seq] = 0
  BY DEF Granting, Granted, TypeOK
<1>2. \A s \in Seqs : grants'[s] = IF s = seq THEN 1 ELSE grants[s]
  BY <1>1 DEF TypeOK
<1> QED
  BY <1>1, <1>2 DEF Granting, TypeOK, AtMostOnce, Granted

(* Refusing a number leaves what was granted as it is.                     *)
LEMMA RefusingStep ==
  ASSUME TypeOK, AtMostOnce, NEW seq \in Seqs, Refusing(seq)
  PROVE  /\ grants' \in [Seqs -> Nat]
         /\ last' \in [seq : Seqs \cup {0}, ok : BOOLEAN]
         /\ AtMostOnce'
         /\ Granted' = Granted
  BY DEF Refusing, TypeOK, AtMostOnce, Granted

(* A number below the window changes nothing but the answer.               *)
LEMMA RejectedStep ==
  ASSUME IInv, NEW seq \in Seqs, CommitRejected(seq)
  PROVE  IInv'
<1>1. /\ grants' \in [Seqs -> Nat]
      /\ last' \in [seq : Seqs \cup {0}, ok : BOOLEAN]
      /\ AtMostOnce'
      /\ Granted' = Granted
  BY RefusingStep DEF IInv, CommitRejected
<1>2. TypeOK'
  BY <1>1 DEF IInv, TypeOK, CommitRejected
<1>3. BitmapExact'
  BY <1>1 DEF IInv, BitmapExact, IsHighest, CommitRejected
<1> QED
  BY <1>1, <1>2, <1>3 DEF IInv

(* The first number fixes the base so that it is the top of the window.    *)
LEMMA FirstStep ==
  ASSUME IInv, NEW seq \in Seqs, CommitFirst(seq)
  PROVE  IInv' /\ Granting(seq) /\ Granted = {}
<1> USE WindowAssumption, SeqsAssumption
<1>1. Granted = {} /\ seq \in Nat \ {0}
  BY DEF IInv, BitmapExact, CommitFirst
<1>2. FirstBase(seq) \in Nat \ {0} /\ seq - FirstBase(seq) \in 0 .. Window - 1
  BY <1>1 DEF FirstBase
<1>3. /\ base' = FirstBase(seq)
      /\ bits' = {seq - FirstBase(seq)}
      /\ Granting(seq)
  BY <1>2 DEF CommitFirst, Mark
<1>4. /\ grants' \in [Seqs -> Nat]
      /\ last' \in [seq : Seqs \cup {0}, ok : BOOLEAN]
      /\ AtMostOnce'
      /\ Granted' = {seq}
  BY <1>1, <1>3, GrantingStep DEF IInv
<1>5. TypeOK'
  BY <1>2, <1>3, <1>4 DEF TypeOK
<1>6. IsHighest(seq)'
  BY <1>1, <1>4 DEF IsHighest
<1>7. bits' = {i \in 0 .. Window - 1 : base' + i \in Granted'}
  BY <1>1, <1>2, <1>3, <1>4
<1>8. BitmapExact'
  BY <1>2, <1>3, <1>6, <1>7 DEF BitmapExact
<1> QED
  BY <1>1, <1>3, <1>4, <1>5, <1>8 DEF IInv

(* A later number: the window slides if it must, then the bit is tested.   *)
LEMMA LaterStep ==
  ASSUME IInv, NEW seq \in Seqs, CommitLater(seq)
  PROVE  /\ IInv'
         /\ IF seq \notin Granted THEN Granting(seq) ELSE Refusing(seq)
<1> USE WindowAssumption, SeqsAssumption
<1> DEFINE nb   == SlidBase(seq)
           kept == Slid(nb)
<1>1. PICK h \in Seqs : IsHighest(h) /\ base = FirstBase(h)
  BY DEF IInv, BitmapExact, CommitLater
<1>2. seq \in Nat /\ h \in Nat /\ base \in Nat \ {0} /\ seq >= base
  BY DEF IInv, TypeOK, CommitLater
<1>3. nb \in Nat \ {0} /\ nb >= base /\ seq - nb \in 0 .. Window - 1
  BY <1>2 DEF SlidBase
<1>4. kept = {i \in 0 .. Window - 1 : nb + i \in Granted}
  <2>1. bits = {i \in 0 .. Window - 1 : base + i \in Granted}
    BY DEF IInv, BitmapExact
  <2>2. \A s \in Granted : s \in Nat /\ s - base < Window
    BY <1>1, <1>2 DEF IsHighest, FirstBase, Granted
  <2>3. ASSUME NEW i \in 0 .. Window - 1
        PROVE  i + (nb - base) \in bits <=> nb + i \in Granted
    <3>1. i + (nb - base) \in bits =>
            i + (nb - base) \in 0 .. Window - 1 /\ base + (i + (nb - base)) \in Granted
      BY <2>1
    <3>2. base + (i + (nb - base)) = nb + i
      BY <1>2, <1>3
    <3>3. nb + i \in Granted => i + (nb - base) \in 0 .. Window - 1
      BY <1>2, <1>3, <2>2
    <3> HIDE DEF nb
    <3> QED
      BY <2>1, <3>1, <3>2, <3>3
  <2> QED
    BY <2>3 DEF Slid
<1>5. seq - nb < Window /\ (seq - nb \in kept <=> seq \in Granted)
  BY <1>2, <1>3, <1>4
<1>6. /\ base' = nb
      /\ bits' = IF seq \in Granted THEN kept ELSE kept \cup {seq - nb}
      /\ IF seq \in Granted THEN Refusing(seq) ELSE Granting(seq)
  BY <1>2, <1>3, <1>5 DEF CommitLater, Mark
<1> HIDE DEF nb, kept
<1>7. /\ grants' \in [Seqs -> Nat]
      /\ last' \in [seq : Seqs \cup {0}, ok : BOOLEAN]
      /\ AtMostOnce'
      /\ Granted' = Granted \cup {seq}
  BY <1>6, GrantingStep, RefusingStep DEF IInv
<1>8. TypeOK'
  BY <1>3, <1>4, <1>6, <1>7 DEF TypeOK
<1>9. bits' = {i \in 0 .. Window - 1 : nb + i \in Granted'}
  BY <1>2, <1>3, <1>4, <1>5, <1>6, <1>7
<1>10. \E g \in Seqs : IsHighest(g)' /\ nb = FirstBase(g)
  <2>1. CASE seq > h
    <3>1. IsHighest(seq)'
      BY <1>1, <1>2, <1>7, <2>1 DEF IsHighest, Granted
    <3>2. nb = FirstBase(seq)
      BY <1>1, <1>2, <2>1 DEF FirstBase, SlidBase, nb
    <3> QED
      BY <3>1, <3>2
  <2>2. CASE seq <= h
    <3>1. IsHighest(h)'
      BY <1>1, <1>7, <2>2 DEF IsHighest
    <3>2. nb = FirstBase(h)
      BY <1>1, <1>2, <2>2 DEF FirstBase, SlidBase, nb
    <3> QED
      BY <3>1, <3>2
  <2> QED
    BY <1>2, <2>1, <2>2
<1>11. BitmapExact'
  BY <1>3, <1>6, <1>9, <1>10 DEF BitmapExact
<1> QED
  BY <1>6, <1>7, <1>8, <1>11 DEF IInv

(* The three ways commit can go, and the steps that change nothing.        *)
LEMMA NextInv == IInv /\ [Next]_vars => IInv'
<1> SUFFICES ASSUME IInv, [Next]_vars PROVE IInv'
  OBVIOUS
<1>1. ASSUME NEW seq \in Seqs, CommitRejected(seq) PROVE IInv'
  BY <1>1, RejectedStep
<1>2. ASSUME NEW seq \in Seqs, CommitFirst(seq) PROVE IInv'
  BY <1>2, FirstStep
<1>3. ASSUME NEW seq \in Seqs, CommitLater(seq) PROVE IInv'
  BY <1>3, LaterStep
<1>4. CASE UNCHANGED vars
  BY <1>4 DEF vars, IInv, TypeOK, AtMostOnce, BitmapExact, IsHighest, Granted
<1> QED
  BY <1>1, <1>2, <1>3, <1>4 DEF Next, Commit

(* The type invariant: in particular no commit writes a bit outside the    *)
(* bitmap, whatever counter the peer presents.                             *)
THEOREM TypeCorrect == Spec => []TypeOK
<1>1. IInv => TypeOK
  BY DEF IInv
<1> QED
  BY <1>1, InitInv, NextInv, PTL DEF Spec

(* No sequence number is granted twice, for every window and every order   *)
(* in which the numbers arrive.                                            *)
THEOREM NoReplay == Spec => []AtMostOnce
<1>1. IInv => AtMostOnce
  BY DEF IInv
<1> QED
  BY <1>1, InitInv, NextInv, PTL DEF Spec

(* The sliding bitmap always is the granted numbers of the last Window.    *)
THEOREM BitmapCorrect == Spec => []BitmapExact
<1>1. IInv => BitmapExact
  BY DEF IInv
<1> QED
  BY <1>1, InitInv, NextInv, PTL DEF Spec

(* The answer of every commit is the one the reference gives.              *)
LEMMA AnswersMatch ==
  ASSUME IInv, NEW seq \in Seqs, Commit(seq)
  PROVE  Reference!Commit(seq)
<1> USE WindowAssumption, SeqsAssumption
<1>1. Reference!Granted = Granted
  BY DEF Reference!Granted, Granted
<1>2. CASE CommitRejected(seq)
  <2>1. ~Reference!Fresh(seq)
    <3>1. CASE seq = 0
      BY <3>1 DEF Reference!Fresh
    <3>2. CASE seq < base
      <4>1. base # 0
        BY <3>2 DEF IInv, TypeOK
      <4>2. PICK h \in Seqs : IsHighest(h) /\ base = FirstBase(h)
        BY <4>1 DEF IInv, BitmapExact
      <4>3. seq = 0 \/ h - seq >= Window
        BY <3>2, <4>2 DEF FirstBase
      <4> QED
        BY <1>1, <4>2, <4>3 DEF Reference!Fresh, IsHighest, Granted
    <3> QED
      BY <1>2, <3>1, <3>2 DEF CommitRejected
  <2> QED
    BY <1>2, <2>1 DEF CommitRejected, Refusing, Reference!Commit, Reference!Refuse
<1>3. CASE CommitFirst(seq)
  <2>1. Granted = {} /\ Granting(seq)
    BY <1>3, FirstStep
  <2>2. Reference!Fresh(seq)
    BY <1>1, <1>3, <2>1 DEF CommitFirst, Reference!Fresh
  <2> QED
    BY <2>1, <2>2 DEF Granting, Reference!Commit, Reference!Grant
<1>4. CASE CommitLater(seq)
  <2>1. PICK h \in Seqs : IsHighest(h) /\ base = FirstBase(h)
    BY <1>4 DEF IInv, BitmapExact, CommitLater
  <2>2. \A s \in Granted : s - seq < Window
    BY <1>4, <2>1 DEF CommitLater, IsHighest, FirstBase, Granted
  <2>3. Reference!Fresh(seq) <=> seq \notin Granted
    BY <1>1, <1>4, <2>2 DEF Reference!Fresh, CommitLater, IInv, TypeOK
  <2>4. IF seq \notin Granted THEN Granting(seq) ELSE Refusing(seq)
    BY <1>4, LaterStep
  <2> QED
    BY <2>3, <2>4
    DEF Granting, Refusing, Reference!Commit, Reference!Grant, Reference!Refuse
<1> QED
  BY <1>2, <1>3, <1>4 DEF Commit

(* The bitmap implements the reference: every commit answers as the set of *)
(* all granted numbers would.                                              *)
THEOREM Refinement == Spec => ImplementsReference
<1>1. Init => Reference!Init
  BY DEF Init, Reference!Init
<1>2. IInv /\ [Next]_vars => [Reference!Next]_(Reference!vars)
  <2> SUFFICES ASSUME IInv, [Next]_vars PROVE [Reference!Next]_(Reference!vars)
    OBVIOUS
  <2>1. CASE Next
    BY <2>1, AnswersMatch DEF Next, Reference!Next
  <2>2. CASE UNCHANGED vars
    BY <2>2 DEF vars, Reference!vars
  <2> QED
    BY <2>1, <2>2
<1> QED
  BY <1>1, <1>2, InitInv, NextInv, PTL DEF Spec, ImplementsReference, Reference!Spec

=============================================================================
