-------------------------- MODULE JitterBufferProofs --------------------------
(***************************************************************************)
(* Proofs about JitterBuffer; that the loop of JitterLoop implements the   *)
(* one step JitterBuffer makes of it; and about Playout, which puts the    *)
(* loop behind the replay window, for every window, buffer size, packet    *)
(* size, set of targets and sequence of deliveries, pulls and retargets.   *)
(***************************************************************************)
EXTENDS Playout, FiniteSetTheorems, NaturalsInduction, TLAPS

(* The sequence numbers held are bounded: what makes Newest a maximum.     *)
BoundedSet(S) == \E b \in Nat : \A s \in S : s <= b

IInv ==
  /\ TypeOK
  /\ BoundedSet(slots)
  /\ CursorConsistent
  /\ LatencyBounded
  /\ SlotsBounded

(* The order of the natural numbers, as a relation.                        *)
LessOnNat == {ss \in Nat \X Nat : ss[1] < ss[2]}

(* The oldest of a set of packets is its minimum.                          *)
LEMMA OldestIsMin ==
  ASSUME NEW S \in SUBSET Nat, S # {}
  PROVE  Oldest(S) \in S /\ \A t \in S : Oldest(S) <= t
<1>1. IsWellFoundedOn(LessOnNat, Nat)
  <2>1. OpToRel(<, Nat) = LessOnNat
    BY DEF OpToRel, LessOnNat
  <2> QED
    BY <2>1, NatLessThanWellFounded
<1>2. PICK s \in S : \A t \in S : ~(<<t, s>> \in LessOnNat)
  BY <1>1, WFMin
<1>3. ASSUME NEW t \in S, t < s PROVE <<t, s>> \in LessOnNat
  BY <1>3 DEF LessOnNat
<1>4. ASSUME NEW t \in S PROVE s <= t
  <2>1. ~(t < s)
    BY <1>2, <1>3, Zenon
  <2> QED
    BY <2>1
<1> QED
  BY <1>4 DEF Oldest

(* The newest of a bounded set of packets is its maximum: the smallest of  *)
(* the upper bounds, which is a member.                                    *)
LEMMA NewestIsMax ==
  ASSUME NEW S \in SUBSET Nat, S # {}, BoundedSet(S)
  PROVE  Newest(S) \in S /\ \A t \in S : t <= Newest(S)
<1> DEFINE B == {n \in Nat : \A s \in S : s <= n}
<1>1. PICK m \in B : \A n \in B : m <= n
  <2>1. B \in SUBSET Nat /\ B # {}
    BY DEF BoundedSet
  <2> HIDE DEF B
  <2>2. Oldest(B) \in B /\ \A n \in B : Oldest(B) <= n
    BY <2>1, OldestIsMin
  <2> QED
    BY <2>2
<1>2. m \in S
  <2> SUFFICES ASSUME m \notin S PROVE FALSE
    OBVIOUS
  <2>1. m \in Nat /\ \A s \in S : s \in Nat /\ s < m
    <3> SUFFICES ASSUME NEW s \in S PROVE m \in Nat /\ s \in Nat /\ s < m
      BY <1>1
    <3>1. s <= m /\ s # m
      BY <1>1
    <3> QED
      BY <3>1
  <2>2. m - 1 \in Nat /\ \A s \in S : s <= m - 1
    <3>1. PICK x \in S : TRUE
      OBVIOUS
    <3>2. m # 0
      BY <2>1, <3>1
    <3> QED
      BY <2>1, <3>2
  <2>3. m - 1 \in B
    BY <2>2
  <2> QED
    BY <1>1, <2>1, <2>3
<1>3. \E s \in S : \A t \in S : t <= s
  BY <1>1, <1>2
<1> QED
  BY <1>3 DEF Newest

(* Division by the packet size, as pull uses it.                           *)
LEMMA DivMod ==
  ASSUME NEW a \in Nat, NEW f \in Nat \ {0}
  PROVE  /\ a \div f \in Nat
         /\ a % f \in 0 .. f - 1
         /\ a = (f * (a \div f)) + (a % f)
  OBVIOUS

(* Part of a set of packets has no more of them, and stays bounded.        *)
LEMMA PartOf ==
  ASSUME NEW S \in SUBSET Nat, IsFiniteSet(S), BoundedSet(S), NEW T \in SUBSET S
  PROVE  /\ IsFiniteSet(T)
         /\ Cardinality(T) \in Nat
         /\ Cardinality(T) <= Cardinality(S)
         /\ BoundedSet(T)
<1>1. BoundedSet(T)
  BY DEF BoundedSet
<1> QED
  BY <1>1, FS_Subset, FS_CardinalityType

(* The initial state satisfies the inductive invariant.                    *)
LEMMA InitInv == Init => IInv
<1> SUFFICES ASSUME Init PROVE IInv
  OBVIOUS
<1> USE TargetsAssumption, PacketFramesAssumption, MaxSlotsAssumption
<1>1. IsFiniteSet({}) /\ Cardinality({}) = 0
  BY FS_EmptySet
<1>2. TypeOK
  <2>1. target \in 1 .. MaxSlots /\ 0 \in 0 .. PacketFrames - 1 /\ {} \subseteq Seqs
    BY DEF Init
  <2> QED
    BY <1>1, <2>1 DEF Init, TypeOK, NoSeq
<1>3. BoundedSet(slots)
  BY DEF Init, BoundedSet
<1>4. CursorConsistent /\ LatencyBounded
  BY DEF Init, CursorConsistent, LatencyBounded
<1>5. SlotsBounded
  BY <1>1 DEF Init, SlotsBounded
<1> QED
  BY <1>2, <1>3, <1>4, <1>5 DEF IInv

(* What trim_latency establishes from any packets at or after the position *)
(* playout stands at: the same, and the bound on the latency.              *)
LEMMA TrimEstablishes ==
  ASSUME NEW S \in SUBSET Seqs, IsFiniteSet(S), BoundedSet(S),
         Cardinality(S) <= MaxSlots,
         NEW p \in Nat, NEW o \in 0 .. PacketFrames - 1, NEW t \in 1 .. MaxSlots,
         \A s \in S : p # NoSeq /\ s >= p,
         TrimLatency(S, p, o, t)
  PROVE  /\ slots' \in SUBSET S /\ IsFiniteSet(slots') /\ BoundedSet(slots')
         /\ Cardinality(slots') <= MaxSlots
         /\ play' \in Nat /\ off' \in 0 .. PacketFrames - 1
         /\ play' >= p /\ (p # NoSeq <=> play' # NoSeq)
         /\ \A s \in slots' : play' # NoSeq /\ s >= play'
         /\ slots' # {} => Newest(slots') - play' <= t + 2
         /\ off' > 0 => off' = o /\ play' = p
         /\ play' = p => off' = o
<1> USE SeqsAssumption, MaxSlotsAssumption, PacketFramesAssumption DEF NoSeq
<1>0. S \in SUBSET Nat
  OBVIOUS
<1>1. CASE Overdue(S, p, t)
  <2>1. Newest(S) \in S /\ Newest(S) \in Nat /\ \A s \in S : s <= Newest(S)
    BY <1>0, <1>1, NewestIsMax DEF Overdue
  <2>2. /\ slots' = {s \in S : s >= TrimmedTo(S, t)}
        /\ play' = TrimmedTo(S, t)
        /\ off' = 0
    BY <1>1 DEF TrimLatency
  <2>3. TrimmedTo(S, t) \in Nat /\ TrimmedTo(S, t) > p
    BY <1>1, <2>1 DEF Overdue, TrimmedTo
  <2>4. slots' \in SUBSET S /\ slots' \in SUBSET Nat
    BY <2>2
  <2>5. IsFiniteSet(slots') /\ BoundedSet(slots') /\ Cardinality(slots') <= MaxSlots
    BY <1>0, <2>4, PartOf, FS_CardinalityType
  <2>6. slots' # {} => Newest(slots') \in Nat /\ Newest(slots') - play' <= t + 2
    <3> SUFFICES ASSUME slots' # {} PROVE Newest(slots') \in Nat /\ Newest(slots') - play' <= t + 2
      OBVIOUS
    <3>1. Newest(slots') \in S /\ Newest(slots') \in Nat
      BY <2>4, <2>5, NewestIsMax
    <3> QED
      BY <2>1, <2>2, <3>1 DEF TrimmedTo
  <2>7. play' \in Nat /\ play' > p /\ p # NoSeq /\ play' # NoSeq
    BY <1>1, <2>2, <2>3 DEF Overdue
  <2>8. \A s \in slots' : s >= play'
    BY <2>2
  <2>9. off' = 0 /\ off' \in 0 .. PacketFrames - 1
    BY <2>2
  <2> QED
    BY <2>4, <2>5, <2>6, <2>7, <2>8, <2>9
<1>2. CASE ~Overdue(S, p, t)
  <2>1. slots' = S /\ play' = p /\ off' = o
    BY <1>2 DEF TrimLatency
  <2>2. S # {} => Newest(S) \in Nat
    BY <1>0, NewestIsMax
  <2>3. S # {} => p # NoSeq /\ ~(Newest(S) - p > t + 2)
    BY <1>2 DEF Overdue
  <2>4. S # {} => Newest(S) - p <= t + 2
    BY <2>2, <2>3
  <2> QED
    BY <2>1, <2>4
<1> QED
  BY <1>1, <1>2

(* What an accepted packet hands to trim_latency, whatever the branch:     *)
(* packets that fit in the buffer and lie at or after the position, which  *)
(* is a later one than before or, while playing, the same.                 *)
Trimmed(S, p, o) ==
  /\ IsFiniteSet(S) /\ BoundedSet(S) /\ Cardinality(S) <= MaxSlots
  /\ p # NoSeq /\ \A s \in S : s >= p
  /\ o > 0 => started /\ ~starved
  /\ started /\ ~starved /\ play # NoSeq => p > play \/ (p = play /\ o = off)
  /\ TrimLatency(S, p, o, target)

LEMMA PushTrims ==
  ASSUME IInv, NEW seq \in Seqs, PushAccepted(seq)
  PROVE  \E S \in SUBSET Seqs, p \in Nat, o \in 0 .. PacketFrames - 1 :
           S \subseteq slots \cup {seq} /\ Trimmed(S, p, o)
<1> USE SeqsAssumption, MaxSlotsAssumption, PacketFramesAssumption DEF NoSeq
<1> DEFINE held     == (IF Keeps(seq) THEN slots ELSE {}) \cup {seq}
           at       == IF Keeps(seq) THEN play ELSE NoSeq
           overflow == Cardinality(held) > MaxSlots
           kept     == IF overflow THEN held \ {Oldest(held)} ELSE held
           moved    == overflow /\ at # NoSeq /\ at <= Oldest(held)
           o        == IF Keeps(seq) /\ ~moved THEN off ELSE 0
           p        == IF at = NoSeq \/ moved \/ starved \/ ~started
                       THEN Oldest(kept) ELSE at
<1>1. /\ slots \in SUBSET Seqs /\ slots \in SUBSET Nat /\ IsFiniteSet(slots)
      /\ BoundedSet(slots)
      /\ Cardinality(slots) \in Nat /\ Cardinality(slots) <= MaxSlots
      /\ play \in Nat /\ off \in 0 .. PacketFrames - 1 /\ target \in 1 .. MaxSlots
      /\ started \in BOOLEAN /\ primed \in BOOLEAN /\ starved \in BOOLEAN
  BY FS_CardinalityType DEF IInv, TypeOK, SlotsBounded
<1>2. /\ held \in SUBSET Seqs /\ held \in SUBSET Nat /\ IsFiniteSet(held)
      /\ held # {} /\ BoundedSet(held)
      /\ Cardinality(held) \in Nat /\ Cardinality(held) <= MaxSlots + 1
  <2>1. \A S : S = slots \/ S = {} =>
          IsFiniteSet(S) /\ Cardinality(S) \in Nat /\ Cardinality(S) <= MaxSlots
    BY <1>1, FS_EmptySet
  <2>2. IsFiniteSet(held) /\ Cardinality(held) \in Nat /\ Cardinality(held) <= MaxSlots + 1
    <3> DEFINE S == IF Keeps(seq) THEN slots ELSE {}
    <3>1. IsFiniteSet(S) /\ Cardinality(S) \in Nat /\ Cardinality(S) <= MaxSlots
      BY <2>1
    <3>2. held = S \cup {seq}
      OBVIOUS
    <3> HIDE DEF S, held
    <3>3. /\ IsFiniteSet(held)
          /\ Cardinality(held) = IF seq \in S THEN Cardinality(S) ELSE Cardinality(S) + 1
      BY <3>1, <3>2, FS_AddElement
    <3> QED
      BY <3>1, <3>3
  <2>3. BoundedSet(held)
    <3>1. PICK b \in Nat : \A s \in slots : s <= b
      BY <1>1 DEF BoundedSet
    <3>2. b + seq \in Nat /\ \A s \in held : s <= b + seq
      BY <1>1, <3>1
    <3> QED
      BY <3>2 DEF BoundedSet
  <2> QED
    BY <1>1, <2>2, <2>3
<1>3. Oldest(held) \in held /\ \A s \in held : Oldest(held) <= s
  BY <1>2, OldestIsMin
<1> HIDE DEF held
<1>4. /\ kept \in SUBSET Seqs /\ kept \in SUBSET Nat /\ IsFiniteSet(kept)
      /\ kept \in SUBSET held /\ kept # {} /\ BoundedSet(kept)
      /\ Cardinality(kept) <= MaxSlots
  <2>1. CASE overflow
    <3>1. Cardinality(held) = MaxSlots + 1
      BY <1>2, <2>1
    <3>2. IsFiniteSet(kept) /\ Cardinality(kept) = MaxSlots
      BY <1>2, <1>3, <2>1, <3>1, FS_RemoveElement
    <3>3. kept # {}
      BY <3>2, FS_EmptySet
    <3>4. kept \in SUBSET held
      BY <2>1
    <3>5. BoundedSet(kept)
      BY <1>2, <3>4, PartOf
    <3> HIDE DEF kept
    <3> QED
      BY <1>2, <3>2, <3>3, <3>4, <3>5
  <2>2. CASE ~overflow
    BY <1>2, <2>2
  <2> QED
    BY <2>1, <2>2
<1>5. Oldest(kept) \in kept /\ \A s \in kept : Oldest(kept) <= s
  BY <1>4, OldestIsMin
<1> HIDE DEF kept
<1>6. o \in 0 .. PacketFrames - 1 /\ (o > 0 => started /\ ~starved)
  BY <1>1 DEF IInv, CursorConsistent, Keeps
<1>7. p \in Nat /\ p # NoSeq /\ \A s \in kept : s >= p
  <2>1. CASE at = NoSeq \/ moved \/ starved \/ ~started
    BY <1>4, <1>5, <2>1
  <2>2. CASE ~(at = NoSeq \/ moved \/ starved \/ ~started)
    <3>1. Keeps(seq) /\ at = play /\ play # NoSeq /\ started /\ ~starved
      BY <2>2
    <3>2. seq >= play
      BY <1>1, <3>1 DEF PushAccepted, Late
    <3>3. \A s \in held : s >= play
      BY <1>1, <3>1, <3>2 DEF held, IInv, CursorConsistent
    <3> QED
      BY <1>1, <1>4, <2>2, <3>1, <3>3
  <2> QED
    BY <2>1, <2>2
<1>8. ASSUME started, ~starved, play # NoSeq
      PROVE  p > play \/ (p = play /\ o = off)
  <2>1. CASE ~Keeps(seq)
    <3>1. held = {seq} /\ seq > play
      BY <1>1, <1>8, <2>1 DEF held, Keeps, FarAhead
    <3>2. p = Oldest(kept)
      BY <2>1
    <3> QED
      BY <1>4, <1>5, <3>1, <3>2
  <2>2. CASE Keeps(seq) /\ moved
    <3>1. at = play /\ p = Oldest(kept) /\ overflow
      BY <2>2
    <3>2. Oldest(held) >= play /\ Oldest(held) \in Nat
      BY <1>2, <1>3, <2>2, <3>1
    <3>3. Oldest(held) \notin kept
      BY <3>1 DEF kept
    <3>4. Oldest(kept) \in Nat /\ Oldest(kept) >= Oldest(held) /\ Oldest(kept) # Oldest(held)
      BY <1>3, <1>4, <1>5, <3>3
    <3> HIDE DEF p
    <3> QED
      BY <1>1, <3>1, <3>2, <3>4
  <2>3. CASE Keeps(seq) /\ ~moved
    BY <1>8, <2>3
  <2> QED
    BY <2>1, <2>2, <2>3
<1>9. TrimLatency(kept, p, o, target)
  BY DEF PushAccepted, Enough, Overflows, held, kept
<1> HIDE DEF p, o, at, moved, overflow
<1>10. Trimmed(kept, p, o) /\ kept \subseteq slots \cup {seq}
  BY <1>4, <1>6, <1>7, <1>8, <1>9 DEF Trimmed, held
<1> QED
  BY <1>4, <1>6, <1>7, <1>10

(* A pushed packet: whatever the branch, what is held afterwards lies at   *)
(* or after the position, and fits in the buffer.                          *)
LEMMA PushAcceptedStep ==
  ASSUME IInv, NEW seq \in Seqs, PushAccepted(seq)
  PROVE  IInv'
<1> USE SeqsAssumption, MaxSlotsAssumption, PacketFramesAssumption DEF NoSeq
<1>1. target \in 1 .. MaxSlots /\ started \in BOOLEAN /\ primed \in BOOLEAN
  BY DEF IInv, TypeOK
<1>2. PICK S \in SUBSET Seqs, p \in Nat, o \in 0 .. PacketFrames - 1 : Trimmed(S, p, o)
  BY PushTrims
<1>3. /\ slots' \in SUBSET S /\ IsFiniteSet(slots') /\ BoundedSet(slots')
      /\ Cardinality(slots') <= MaxSlots
      /\ play' \in Nat /\ off' \in 0 .. PacketFrames - 1
      /\ play' # NoSeq
      /\ \A s \in slots' : s >= play'
      /\ slots' # {} => Newest(slots') - play' <= target + 2
      /\ off' > 0 => off' = o
  BY <1>1, <1>2, TrimEstablishes DEF Trimmed
<1>4. /\ started' = (started /\ ~starved)
      /\ starved' = FALSE
      /\ target' = target
      /\ primed' \in BOOLEAN
  BY DEF PushAccepted
<1>5. TypeOK'
  BY <1>1, <1>3, <1>4 DEF TypeOK
<1>6. CursorConsistent'
  BY <1>2, <1>3, <1>4 DEF Trimmed, CursorConsistent
<1>7. LatencyBounded' /\ SlotsBounded'
  BY <1>3, <1>4 DEF LatencyBounded, SlotsBounded
<1> QED
  BY <1>3, <1>5, <1>6, <1>7 DEF IInv

(* A new target: the latency is trimmed to it at once.                     *)
LEMMA SetTargetStep ==
  ASSUME IInv, NEW t \in Targets, SetTargetPackets(t)
  PROVE  IInv'
<1> USE SeqsAssumption, MaxSlotsAssumption, PacketFramesAssumption DEF NoSeq
<1>1. /\ slots \in SUBSET Seqs /\ IsFiniteSet(slots) /\ BoundedSet(slots)
      /\ Cardinality(slots) <= MaxSlots
      /\ play \in Nat /\ off \in 0 .. PacketFrames - 1 /\ t \in 1 .. MaxSlots
      /\ started \in BOOLEAN /\ primed \in BOOLEAN /\ starved \in BOOLEAN
      /\ \A s \in slots : play # NoSeq /\ s >= play
  BY TargetsAssumption DEF IInv, TypeOK, SlotsBounded, CursorConsistent
<1>2. /\ TrimLatency(slots, play, off, t)
      /\ primed' = (primed /\ (t > target => QueuedFrames(slots, play, off) >= t * PacketFrames))
      /\ target' = t /\ started' = started /\ starved' = starved
  BY DEF SetTargetPackets, Enough
<1>3. /\ slots' \in SUBSET slots /\ IsFiniteSet(slots') /\ BoundedSet(slots')
      /\ Cardinality(slots') <= MaxSlots
      /\ play' \in Nat /\ off' \in 0 .. PacketFrames - 1
      /\ play' >= play /\ (play # NoSeq <=> play' # NoSeq)
      /\ \A s \in slots' : play' # NoSeq /\ s >= play'
      /\ slots' # {} => Newest(slots') - play' <= t + 2
      /\ off' > 0 => off' = off /\ play' = play
  BY <1>1, <1>2, TrimEstablishes
<1>4. primed' \in BOOLEAN /\ (primed' => primed)
  BY <1>2
<1>5. TypeOK'
  BY <1>1, <1>2, <1>3, <1>4 DEF TypeOK
<1>6. CursorConsistent'
  <2>1. primed' => play' # NoSeq
    BY <1>3, <1>4 DEF IInv, CursorConsistent
  <2>2. off' > 0 => started' /\ play' # NoSeq
    BY <1>2, <1>3 DEF IInv, CursorConsistent
  <2>3. starved' => ~primed' /\ play' = NoSeq /\ started'
    BY <1>2, <1>3, <1>4 DEF IInv, CursorConsistent
  <2> QED
    BY <1>3, <2>1, <2>2, <2>3 DEF CursorConsistent
<1>7. LatencyBounded' /\ SlotsBounded'
  BY <1>2, <1>3 DEF LatencyBounded, SlotsBounded
<1> QED
  BY <1>3, <1>5, <1>6, <1>7 DEF IInv

(* A pull that finds its frames moves the position forward; what is left   *)
(* is what lies at or after it.                                            *)
LEMMA PullPlaysStep ==
  ASSUME IInv, NEW n \in PullSizes, PullPlays(n)
  PROVE  IInv' /\ play' >= play
<1> USE SeqsAssumption, MaxSlotsAssumption, PacketFramesAssumption DEF NoSeq
<1> DEFINE p == play + (off + n) \div PacketFrames
<1>1. /\ slots \in SUBSET Seqs /\ slots \in SUBSET Nat /\ IsFiniteSet(slots)
      /\ BoundedSet(slots) /\ Cardinality(slots) \in Nat /\ Cardinality(slots) <= MaxSlots
      /\ play \in Nat /\ play # NoSeq /\ off \in Nat /\ target \in 1 .. MaxSlots
      /\ starved \in BOOLEAN /\ primed /\ ~starved
  BY FS_CardinalityType
  DEF IInv, TypeOK, SlotsBounded, CursorConsistent, PullPlays
<1>2. off + n \in Nat
  BY <1>1, PullSizesAssumption
<1>3. (off + n) \div PacketFrames \in Nat /\ (off + n) % PacketFrames \in 0 .. PacketFrames - 1
  BY <1>2, DivMod
<1>4. p \in Nat /\ p >= play /\ p # NoSeq
  BY <1>1, <1>3
<1>5. /\ play' = p /\ off' = (off + n) % PacketFrames
      /\ slots' = {s \in slots : s >= p}
      /\ started' = TRUE /\ target' = target /\ primed' = primed /\ starved' = starved
  BY DEF PullPlays
<1> HIDE DEF p
<1>6. slots' \in SUBSET slots /\ slots' \in SUBSET Nat
  BY <1>1, <1>5
<1>7. /\ IsFiniteSet(slots') /\ BoundedSet(slots')
      /\ Cardinality(slots') \in Nat /\ Cardinality(slots') <= MaxSlots
  BY <1>1, <1>6, PartOf
<1>8. TypeOK'
  BY <1>1, <1>3, <1>4, <1>5, <1>6, <1>7 DEF TypeOK
<1>9. CursorConsistent'
  BY <1>1, <1>4, <1>5 DEF CursorConsistent
<1>10. LatencyBounded'
  <2> SUFFICES ASSUME slots' # {} PROVE Newest(slots') - play' <= target + 2
    BY <1>5 DEF LatencyBounded
  <2>1. Newest(slots') \in slots /\ Newest(slots') \in Nat
    BY <1>6, <1>7, NewestIsMax
  <2>2. Newest(slots') <= Newest(slots) /\ Newest(slots) \in Nat
    BY <1>1, <2>1, NewestIsMax
  <2>3. Newest(slots) - play <= target + 2
    BY <2>1 DEF IInv, LatencyBounded
  <2> QED
    BY <1>1, <1>4, <1>5, <2>1, <2>2, <2>3
<1>11. SlotsBounded'
  BY <1>7 DEF SlotsBounded
<1> QED
  BY <1>4, <1>5, <1>7, <1>8, <1>9, <1>10, <1>11 DEF IInv

(* A pull that runs out empties the buffer for good.                       *)
LEMMA PullStarvesStep ==
  ASSUME IInv, NEW n \in PullSizes, PullStarves(n)
  PROVE  IInv'
<1> USE MaxSlotsAssumption, PacketFramesAssumption DEF NoSeq
<1>1. IsFiniteSet({}) /\ Cardinality({}) = 0
  BY FS_EmptySet
<1>2. 0 \in 0 .. PacketFrames - 1
  OBVIOUS
<1>3. TypeOK'
  BY <1>1, <1>2 DEF IInv, TypeOK, PullStarves
<1>4. CursorConsistent' /\ LatencyBounded' /\ BoundedSet(slots')
  BY DEF CursorConsistent, LatencyBounded, BoundedSet, PullStarves
<1>5. SlotsBounded'
  BY <1>1 DEF SlotsBounded, PullStarves
<1> QED
  BY <1>3, <1>4, <1>5 DEF IInv

(* A step that leaves the buffer alone.                                    *)
LEMMA UnchangedStep ==
  ASSUME IInv, UNCHANGED vars
  PROVE  IInv'
BY DEF vars, IInv, TypeOK, CursorConsistent, LatencyBounded, SlotsBounded

(* A new buffer is as consistent as the first.                             *)
LEMMA RecreateInv ==
  ASSUME Recreate
  PROVE  IInv'
<1> USE TargetsAssumption, PacketFramesAssumption, MaxSlotsAssumption DEF NoSeq
<1>1. IsFiniteSet({}) /\ Cardinality({}) = 0
  BY FS_EmptySet
<1>2. TypeOK'
  <2>1. target' \in 1 .. MaxSlots /\ 0 \in 0 .. PacketFrames - 1
    BY DEF Recreate
  <2> QED
    BY <1>1, <2>1 DEF Recreate, TypeOK
<1>3. BoundedSet(slots') /\ CursorConsistent' /\ LatencyBounded'
  BY DEF Recreate, BoundedSet, CursorConsistent, LatencyBounded
<1>4. SlotsBounded'
  BY <1>1 DEF Recreate, SlotsBounded
<1> QED
  BY <1>2, <1>3, <1>4 DEF IInv

(* Every operation preserves the invariant.                                *)
LEMMA NextInv == IInv /\ [Next]_vars => IInv'
<1> SUFFICES ASSUME IInv, [Next]_vars PROVE IInv'
  OBVIOUS
<1>1. ASSUME NEW seq \in Seqs, Push(seq) PROVE IInv'
  BY <1>1, PushAcceptedStep, UnchangedStep DEF Push, PushDropped
<1>2. ASSUME NEW t \in Targets, SetTargetPackets(t) PROVE IInv'
  BY <1>2, SetTargetStep
<1>3. ASSUME NEW n \in PullSizes, Pull(n) PROVE IInv'
  BY <1>3, PullPlaysStep, PullStarvesStep, UnchangedStep DEF Pull, PullSilent
<1> QED
  BY <1>1, <1>2, <1>3, RecreateInv, UnchangedStep DEF Next

(* The invariant of every execution.                                       *)
LEMMA Invariance == Spec => []IInv
BY InitInv, NextInv, PTL DEF Spec

(* The type invariant.                                                     *)
THEOREM TypeCorrect == Spec => []TypeOK
<1>1. IInv => TypeOK
  BY DEF IInv
<1> QED
  BY <1>1, Invariance, PTL

(* The play position, the slots and the three flags stay consistent.       *)
THEOREM CursorCorrect == Spec => []CursorConsistent
<1>1. IInv => CursorConsistent
  BY DEF IInv
<1> QED
  BY <1>1, Invariance, PTL

(* The buffer adds at most two packets of latency over its target.         *)
THEOREM LatencyCorrect == Spec => []LatencyBounded
<1>1. IInv => LatencyBounded
  BY DEF IInv
<1> QED
  BY <1>1, Invariance, PTL

(* The buffer never holds more than MAX_SLOTS packets.                     *)
THEOREM SlotsCorrect == Spec => []SlotsBounded
<1>1. IInv => SlotsBounded
  BY DEF IInv
<1> QED
  BY <1>1, Invariance, PTL

-----------------------------------------------------------------------------
(* A position in a later packet is a later position.                       *)
LEMMA LaterPacket ==
  ASSUME NEW p \in Nat, NEW q \in Nat, p < q,
         NEW o \in 0 .. PacketFrames - 1, NEW r \in 0 .. PacketFrames - 1
  PROVE  q * PacketFrames + r > p * PacketFrames + o
<1> USE PacketFramesAssumption
<1>1. PICK d \in Nat : q = p + 1 + d
  <2>1. q - p - 1 \in Nat /\ q = p + 1 + (q - p - 1)
    OBVIOUS
  <2> QED BY <2>1
<1>2. q * PacketFrames = p * PacketFrames + PacketFrames + d * PacketFrames
  BY <1>1
<1>3. d * PacketFrames >= 0 /\ p * PacketFrames \in Nat /\ d * PacketFrames \in Nat
  OBVIOUS
<1> QED BY <1>2, <1>3

(* Trimming from the present position, or from a later one, never goes     *)
(* back.                                                                   *)
LEMMA TrimForward ==
  ASSUME IInv, NEW S \in SUBSET Seqs, IsFiniteSet(S), BoundedSet(S),
         Cardinality(S) <= MaxSlots,
         NEW p \in Nat, NEW o \in 0 .. PacketFrames - 1, NEW t \in 1 .. MaxSlots,
         \A s \in S : p # NoSeq /\ s >= p,
         p > play \/ (p = play /\ o = off),
         TrimLatency(S, p, o, t)
  PROVE  Position' >= Position
<1>1. /\ play' \in Nat /\ off' \in 0 .. PacketFrames - 1
      /\ play' >= p /\ (play' = p => off' = o)
  BY TrimEstablishes
<1>2. play \in Nat /\ off \in 0 .. PacketFrames - 1
  BY DEF IInv, TypeOK
<1>3. CASE play' > play
  <2>1. play' * PacketFrames + off' > play * PacketFrames + off
    BY <1>1, <1>2, <1>3, LaterPacket
  <2>2. play' * PacketFrames + off' \in Int /\ play * PacketFrames + off \in Int
    BY <1>1, <1>2, PacketFramesAssumption
  <2>3. Position' > Position /\ Position' \in Int /\ Position \in Int
    BY <2>1, <2>2 DEF Position
  <2> HIDE DEF Position
  <2> QED
    BY <2>3
<1>4. CASE ~(play' > play)
  <2>1. play' = play /\ off' = off
    BY <1>1, <1>2, <1>4
  <2>2. play * PacketFrames + off \in Int
    BY <1>2, PacketFramesAssumption
  <2> QED BY <2>1, <2>2 DEF Position
<1> QED BY <1>3, <1>4

(* While playing, push moves to a later packet (a far jump, an overflow)   *)
(* or not at all.                                                          *)
LEMMA PushForward ==
  ASSUME IInv, NEW seq \in Seqs, PushAccepted(seq), started', play # NoSeq
  PROVE  Position' >= Position
<1>1. target \in 1 .. MaxSlots /\ started /\ ~starved
  BY DEF IInv, TypeOK, PushAccepted
<1>2. PICK S \in SUBSET Seqs, p \in Nat, o \in 0 .. PacketFrames - 1 : Trimmed(S, p, o)
  BY PushTrims
<1>3. /\ IsFiniteSet(S) /\ BoundedSet(S) /\ Cardinality(S) <= MaxSlots
      /\ \A s \in S : p # NoSeq /\ s >= p
      /\ p > play \/ (p = play /\ o = off)
      /\ TrimLatency(S, p, o, target)
  BY <1>1, <1>2 DEF Trimmed
<1> QED
  BY <1>1, <1>3, TrimForward

(* A new target skips to a later packet or does not move.                  *)
LEMMA SetTargetForward ==
  ASSUME IInv, NEW t \in Targets, SetTargetPackets(t)
  PROVE  Position' >= Position
<1>1. /\ slots \in SUBSET Seqs /\ IsFiniteSet(slots) /\ BoundedSet(slots)
      /\ Cardinality(slots) <= MaxSlots
      /\ play \in Nat /\ off \in 0 .. PacketFrames - 1 /\ t \in 1 .. MaxSlots
      /\ \A s \in slots : play # NoSeq /\ s >= play
  BY TargetsAssumption DEF IInv, TypeOK, SlotsBounded, CursorConsistent
<1>2. TrimLatency(slots, play, off, t)
  BY DEF SetTargetPackets
<1> QED
  BY <1>1, <1>2, TrimForward

(* A pull moves on by the frames it plays.                                 *)
LEMMA PullForward ==
  ASSUME IInv, NEW n \in PullSizes, PullPlays(n)
  PROVE  Position' = Position + n /\ Position' >= Position
<1> DEFINE d == (off + n) \div PacketFrames
           r == (off + n) % PacketFrames
<1>1. play \in Nat /\ off \in Nat /\ n \in Nat /\ off + n \in Nat
  BY PullSizesAssumption, PacketFramesAssumption DEF IInv, TypeOK
<1>2. d \in Nat /\ r \in Nat /\ off + n = (PacketFrames * d) + r
  <2> DEFINE a == off + n
  <2>1. a \in Nat
    BY <1>1
  <2>2. d = a \div PacketFrames /\ r = a % PacketFrames
    OBVIOUS
  <2> HIDE DEF a
  <2>3. /\ a \div PacketFrames \in Nat
        /\ a % PacketFrames \in 0 .. PacketFrames - 1
        /\ a = (PacketFrames * (a \div PacketFrames)) + (a % PacketFrames)
    BY <2>1, PacketFramesAssumption, DivMod, Zenon
  <2> HIDE DEF d, r
  <2>4. d \in Nat /\ r \in Nat /\ a = (PacketFrames * d) + r
    BY <2>2, <2>3, PacketFramesAssumption
  <2> QED
    BY <2>4 DEF a
<1>3. play' = play + d /\ off' = r
  BY DEF PullPlays
<1> HIDE DEF d, r
<1>4. (play + d) * PacketFrames = play * PacketFrames + PacketFrames * d
  BY <1>1, <1>2, PacketFramesAssumption
<1>5. play * PacketFrames \in Nat /\ PacketFrames * d \in Nat
  BY <1>1, <1>2, PacketFramesAssumption
<1>6. Position' = (play + d) * PacketFrames + r
  BY <1>3 DEF Position
<1> QED
  BY <1>1, <1>2, <1>4, <1>5, <1>6 DEF Position

(* Neither side of a step has the buffer stopped or new.                   *)
Running == started /\ started' /\ play # NoSeq /\ play' # NoSeq

(* No operation takes the position of a buffer that runs back.             *)
LEMMA NextForward ==
  ASSUME IInv, [Next]_vars, Running
  PROVE  Position' >= Position
<1>1. CASE UNCHANGED vars
  <2>1. play * PacketFrames + off \in Int
    BY PacketFramesAssumption DEF IInv, TypeOK
  <2>2. Position' = Position
    BY <1>1 DEF Position, vars
  <2> QED
    BY <2>1, <2>2 DEF Position
<1>2. ASSUME NEW seq \in Seqs, Push(seq) PROVE UNCHANGED vars \/ Position' >= Position
  BY <1>2, PushForward DEF Push, PushDropped, Running
<1>3. ASSUME NEW t \in Targets, SetTargetPackets(t) PROVE Position' >= Position
  BY <1>3, SetTargetForward DEF Running
<1>4. ASSUME NEW n \in PullSizes, Pull(n) PROVE UNCHANGED vars \/ Position' >= Position
  BY <1>4, PullForward DEF Pull, PullSilent, PullStarves, Running
<1>5. ~Recreate
  BY DEF Recreate, Running
<1> QED
  BY <1>1, <1>2, <1>3, <1>4, <1>5, Zenon DEF Next

(* Within a run audio only moves forward, whatever is pushed, pulled or    *)
(* retargeted between two pulls.                                           *)
THEOREM ForwardOnlyPlayout == Spec => PlayoutNeverRewinds
<1>1. IInv /\ [Next]_vars =>
        [started /\ started' /\ play # NoSeq /\ play' # NoSeq => Position' >= Position]_vars
  BY NextForward DEF Running
<1> QED
  BY <1>1, Invariance, PTL DEF Spec, PlayoutNeverRewinds

-----------------------------------------------------------------------------
(* JitterLoop.  What holds between two iterations: the position is as far  *)
(* past the one the pull began at as frames are done, the packets left are *)
(* those of the beginning that lie at or after it, and the buffer is as    *)
(* consistent as between two operations.                                   *)
Began == seen.play * PacketFrames + seen.off

InPull ==
  /\ done < frames /\ primed = TRUE /\ started = TRUE
  /\ seen.primed = TRUE /\ seen.starved = starved
  /\ seen.slots \in SUBSET Nat /\ BoundedSet(seen.slots)
  /\ seen.play \in Nat /\ seen.off \in Nat
  /\ slots = {s \in seen.slots : s >= play}
  /\ play >= seen.play
  /\ Position = Began + done

LoopInv ==
  /\ IInv
  /\ frames \in PullSizes \cup {0} /\ done \in Nat
  /\ ~Pulling => done = 0 /\ seen = Now
  /\ Pulling => InPull

(* A quotient is known by its remainder.                                   *)
LEMMA Quotient ==
  ASSUME NEW f \in Nat \ {0}, NEW d \in Nat, NEW r \in 0 .. f - 1, NEW a \in Nat, a = (f * d) + r
  PROVE  a \div f = d /\ a % f = r
<1> DEFINE q == a \div f
           m == a % f
<1>1. q \in Nat /\ m \in 0 .. f - 1 /\ a = (f * q) + m
  BY DivMod
<1> HIDE DEF q, m
<1>2. ASSUME NEW x \in Nat, NEW y \in Nat, x < y,
             NEW k \in 0 .. f - 1, NEW l \in 0 .. f - 1
      PROVE  (f * x) + k < (f * y) + l
  <2>1. y - x - 1 \in Nat /\ f * (y - x - 1) \in Nat
    BY <1>2
  <2>2. f * y = f * x + f + f * (y - x - 1)
    BY <1>2
  <2>3. f * x \in Nat /\ f * y \in Nat
    BY <1>2
  <2> QED
    BY <1>2, <2>1, <2>2, <2>3
<1>3. f * q \in Nat /\ f * d \in Nat
  BY <1>1
<1>4. ~(q < d) /\ ~(d < q)
  BY <1>1, <1>2, <1>3
<1>5. q = d
  BY <1>1, <1>4
<1> QED
  BY <1>1, <1>3, <1>5 DEF q, m

(* Later packets begin later.                                              *)
LEMMA LaterBegins ==
  ASSUME NEW a \in Int, NEW b \in Int, a <= b
  PROVE  /\ a * PacketFrames \in Int /\ b * PacketFrames \in Int
         /\ a * PacketFrames <= b * PacketFrames
<1>1. (b - a) * PacketFrames \in Nat
  BY PacketFramesAssumption
<1>2. b * PacketFrames = a * PacketFrames + (b - a) * PacketFrames
  BY PacketFramesAssumption
<1>3. a * PacketFrames \in Int /\ b * PacketFrames \in Int
  BY PacketFramesAssumption
<1> QED
  BY <1>1, <1>2, <1>3

(* Playing n frames of a packet moves the position by n, drops what is     *)
(* behind it and leaves the buffer consistent.                             *)
LEMMA AdvanceStep ==
  ASSUME IInv, primed = TRUE, started = TRUE, NEW n \in Nat, n >= 1, n <= PacketFrames - off,
         Advance(n), UNCHANGED <<target, primed, started, starved>>
  PROVE  /\ IInv' /\ Position' = Position + n
         /\ slots' = {s \in slots : s >= play'} /\ play' >= play
<1> USE SeqsAssumption, MaxSlotsAssumption, PacketFramesAssumption DEF NoSeq
<1>1. /\ slots \in SUBSET Seqs /\ slots \in SUBSET Nat /\ IsFiniteSet(slots)
      /\ BoundedSet(slots) /\ Cardinality(slots) \in Nat /\ Cardinality(slots) <= MaxSlots
      /\ play \in Nat /\ play # NoSeq /\ off \in Nat /\ off < PacketFrames
      /\ target \in 1 .. MaxSlots /\ starved \in BOOLEAN /\ ~starved
      /\ \A s \in slots : s >= play
  BY FS_CardinalityType DEF IInv, TypeOK, SlotsBounded, CursorConsistent
<1> DEFINE Moved ==
      slots' = {s \in slots : s >= play'} /\ play' >= play /\ Position' = Position + n
<1>2. ASSUME off + n >= PacketFrames PROVE Moved
  <2>1. slots' = slots \ {play} /\ play' = play + 1 /\ off' = 0 /\ off + n = PacketFrames
    BY <1>1, <1>2 DEF Advance
  <2>2. slots' = {s \in slots : s >= play'}
    <3>1. ASSUME NEW s \in slots PROVE s # play <=> s >= play + 1
      <4>1. s \in Nat /\ s >= play
        BY <1>1
      <4> QED
        BY <1>1, <4>1
    <3>2. slots \ {play} = {s \in slots : s # play}
      OBVIOUS
    <3> QED
      BY <2>1, <3>1, <3>2
  <2>3. Position' = Position + n
    <3>1. (play + 1) * PacketFrames = play * PacketFrames + PacketFrames
      BY <1>1
    <3>2. play * PacketFrames \in Int
      BY <1>1
    <3> QED
      BY <1>1, <2>1, <3>1, <3>2 DEF Position
  <2>4. play' >= play
    BY <1>1, <2>1
  <2> QED
    BY <2>2, <2>3, <2>4
<1>3. ASSUME off + n < PacketFrames PROVE Moved
  <2>1. slots' = slots /\ play' = play /\ off' = off + n
    BY <1>1, <1>3 DEF Advance
  <2>2. play * PacketFrames \in Int
    BY <1>1
  <2>3. Position' = Position + n
    BY <1>1, <2>1, <2>2 DEF Position
  <2>4. slots' = {s \in slots : s >= play'}
    <3>1. slots = {s \in slots : s >= play}
      BY <1>1
    <3> QED
      BY <2>1, <3>1
  <2>5. play' >= play
    BY <1>1, <2>1
  <2> QED
    BY <2>3, <2>4, <2>5
<1>4. /\ slots' = {s \in slots : s >= play'} /\ play' >= play /\ play' \in Nat
      /\ off' \in 0 .. PacketFrames - 1 /\ Position' = Position + n
  <2>1. off' \in 0 .. PacketFrames - 1 /\ play' \in Nat
    BY <1>1, 0 \in 0 .. PacketFrames - 1 DEF Advance
  <2>2. off + n >= PacketFrames \/ off + n < PacketFrames
    BY <1>1
  <2> QED
    BY <1>2, <1>3, <2>1, <2>2
<1>5. slots' \in SUBSET slots /\ slots' \in SUBSET Nat
  BY <1>1, <1>4
<1>6. /\ IsFiniteSet(slots') /\ BoundedSet(slots')
      /\ Cardinality(slots') \in Nat /\ Cardinality(slots') <= MaxSlots
  BY <1>1, <1>5, PartOf
<1>7. TypeOK'
  BY <1>1, <1>4, <1>5, <1>6 DEF IInv, TypeOK
<1>8. CursorConsistent'
  BY <1>1, <1>4 DEF CursorConsistent
<1>9. LatencyBounded'
  <2> SUFFICES ASSUME slots' # {} PROVE Newest(slots') - play' <= target + 2
    BY DEF LatencyBounded
  <2>1. Newest(slots') \in slots /\ Newest(slots') \in Nat
    BY <1>5, <1>6, NewestIsMax
  <2>2. Newest(slots') <= Newest(slots) /\ Newest(slots) \in Nat
    BY <1>1, <2>1, NewestIsMax
  <2>3. Newest(slots) - play <= target + 2
    BY <2>1 DEF IInv, LatencyBounded
  <2> QED
    BY <1>1, <1>4, <2>1, <2>2, <2>3
<1>10. SlotsBounded'
  BY <1>6 DEF SlotsBounded
<1> QED
  BY <1>4, <1>6, <1>7, <1>8, <1>9, <1>10 DEF IInv

(* The iteration that plays the last frame asked for is where the closed   *)
(* form has the pull end.                                                  *)
LEMMA LastIteration ==
  ASSUME LoopInv, Iterate, done + Portion = frames
  PROVE  LoopInv' /\ Buffer!PullPlays(frames)
<1> USE SeqsAssumption, MaxSlotsAssumption, PacketFramesAssumption DEF NoSeq
<1>1. /\ InPull /\ IInv /\ ~NoneLeft /\ frames \in PullSizes /\ frames \in Nat /\ done \in Nat
      /\ done < frames /\ play \in Nat /\ off \in 0 .. PacketFrames - 1
      /\ seen.play \in Nat /\ seen.off \in Nat /\ seen.play <= play
      /\ primed = TRUE /\ started = TRUE /\ seen.primed = TRUE /\ seen.starved = starved
      /\ seen.slots \in SUBSET Nat /\ BoundedSet(seen.slots)
      /\ slots = {s \in seen.slots : s >= play}
  <2>1. Pulling
    BY DEF Iterate
  <2>2. IInv /\ InPull /\ frames \in PullSizes /\ done \in Nat
    BY <2>1 DEF LoopInv, Pulling
  <2> QED
    BY <2>2, PullSizesAssumption DEF Iterate, InPull, IInv, TypeOK
<1>2. /\ Portion \in Nat /\ Portion >= 1 /\ Portion <= PacketFrames - off
      /\ Portion <= frames - done
  BY <1>1 DEF Portion
<1>3. /\ Advance(Portion) /\ UNCHANGED <<target, primed, started, starved>> /\ Return
  BY DEF Iterate
<1>4. /\ IInv' /\ Position' = Position + Portion
      /\ slots' = {s \in slots : s >= play'} /\ play' >= play
  BY <1>1, <1>2, <1>3, AdvanceStep
<1>5. LoopInv'
  BY <1>3, <1>4 DEF LoopInv, Return, Pulling
<1>6. play' \in Nat /\ off' \in 0 .. PacketFrames - 1 /\ play' >= seen.play
  <2>1. play' \in Nat /\ off' \in 0 .. PacketFrames - 1
    BY <1>4 DEF IInv, TypeOK
  <2> QED
    BY <1>1, <1>4, <2>1
<1>7. Position = Began + done /\ Position' = Began + frames
  <2>1. Position \in Int
    BY <1>1 DEF Position
  <2>2. Began \in Int
    BY <1>1 DEF Began
  <2>3. Position = Began + done
    BY <1>1 DEF InPull
  <2> QED
    BY <1>1, <1>2, <1>4, <2>1, <2>2, <2>3
<1>8. /\ (seen.off + frames) \div PacketFrames = play' - seen.play
      /\ (seen.off + frames) % PacketFrames = off'
  <2> DEFINE d == play' - seen.play
  <2>1. d \in Nat /\ play' = seen.play + d
    BY <1>1, <1>6
  <2> HIDE DEF d
  <2>2. (seen.play + d) * PacketFrames = seen.play * PacketFrames + PacketFrames * d
    BY <1>1, <2>1
  <2>3. /\ seen.play * PacketFrames \in Int /\ PacketFrames * d \in Int
    BY <1>1, <2>1
  <2>4. (seen.play + d) * PacketFrames + off' = seen.play * PacketFrames + seen.off + frames
    BY <1>7, <2>1 DEF Position, Began
  <2>5. seen.off + frames = (PacketFrames * d) + off'
    BY <1>1, <1>6, <2>2, <2>3, <2>4
  <2> DEFINE a == seen.off + frames
             r == off'
  <2>6. a \in Nat /\ d \in Nat /\ r \in 0 .. PacketFrames - 1 /\ a = (PacketFrames * d) + r
    BY <1>1, <1>6, <2>1, <2>5
  <2> HIDE DEF a, r
  <2>7. a \div PacketFrames = d /\ a % PacketFrames = r
    BY <2>6, Quotient, PacketFrames \in Nat \ {0}, Z3
  <2> QED
    BY <2>7 DEF a, d, r
<1>9. frames <= Buffer!Available
  <2>1. PICK s \in slots : s >= play
    BY <1>1 DEF NoneLeft, IInv, TypeOK
  <2>2. Newest(seen.slots) \in Nat /\ play <= Newest(seen.slots) /\ seen.slots # {}
    BY <1>1, <2>1, NewestIsMax
  <2> DEFINE N == Newest(seen.slots)
  <2>3. N \in Nat /\ play + 1 <= N + 1
    BY <1>1, <2>2
  <2> HIDE DEF N
  <2>4. (play + 1) * PacketFrames <= (N + 1) * PacketFrames
    BY <1>1, <2>3, LaterBegins
  <2>5. /\ (play + 1) * PacketFrames = play * PacketFrames + PacketFrames
        /\ (N - seen.play + 1) * PacketFrames = (N + 1) * PacketFrames - seen.play * PacketFrames
    BY <1>1, <2>3
  <2>6. /\ play * PacketFrames \in Int /\ (N + 1) * PacketFrames \in Int
        /\ seen.play * PacketFrames \in Int
    BY <1>1, <2>3
  <2>7. play * PacketFrames + off = seen.play * PacketFrames + seen.off + done
    BY <1>7 DEF Position, Began
  <2>8. frames <= (N - seen.play + 1) * PacketFrames - seen.off
    BY <1>1, <1>2, <2>4, <2>5, <2>6, <2>7
  <2>9. Buffer!Available = (N - seen.play + 1) * PacketFrames - seen.off
    <3>1. Buffer!Newest(seen.slots) = N
      BY DEF Buffer!Newest, Newest, N
    <3> QED
      BY <2>2, <3>1 DEF Buffer!Available
  <2> QED
    BY <2>8, <2>9
<1>10. /\ seen'.slots = slots' /\ seen'.play = play' /\ seen'.off = off'
       /\ seen'.primed = primed' /\ seen'.started = started' /\ seen'.starved = starved'
  BY <1>3 DEF Return, Now
<1>11. slots' = {s \in seen.slots : s >= play'}
  <2>1. ASSUME NEW s \in seen.slots PROVE s >= play' => s >= play
    BY <1>1, <1>4, <1>6
  <2> QED
    BY <1>1, <1>4, <2>1
<1>12. seen.play + (seen.off + frames) \div PacketFrames = play'
  BY <1>1, <1>6, <1>8
<1> QED
  BY <1>1, <1>3, <1>5, <1>8, <1>9, <1>10, <1>11, <1>12 DEF Buffer!PullPlays

(* An iteration before that one is nothing to see from outside.            *)
LEMMA EarlierIteration ==
  ASSUME LoopInv, Iterate, done + Portion # frames
  PROVE  LoopInv' /\ seen' = seen /\ target' = target
<1> USE SeqsAssumption, MaxSlotsAssumption, PacketFramesAssumption DEF NoSeq
<1>1. /\ InPull /\ IInv /\ frames \in PullSizes /\ frames \in Nat /\ done \in Nat
      /\ done < frames /\ play \in Nat /\ off \in 0 .. PacketFrames - 1
      /\ seen.play \in Nat /\ seen.off \in Nat /\ seen.play <= play
      /\ primed = TRUE /\ started = TRUE /\ seen.slots \in SUBSET Nat
      /\ slots = {s \in seen.slots : s >= play}
  <2>1. Pulling
    BY DEF Iterate
  <2>2. IInv /\ InPull /\ frames \in PullSizes /\ done \in Nat
    BY <2>1 DEF LoopInv, Pulling
  <2> QED
    BY <2>2, PullSizesAssumption DEF Iterate, InPull, IInv, TypeOK
<1>2. /\ Portion \in Nat /\ Portion >= 1 /\ Portion <= PacketFrames - off
      /\ Portion <= frames - done
  BY <1>1 DEF Portion
<1>3. /\ Advance(Portion) /\ UNCHANGED <<target, primed, started, starved, frames, seen>>
      /\ done' = done + Portion
  BY DEF Iterate
<1>4. /\ IInv' /\ Position' = Position + Portion
      /\ slots' = {s \in slots : s >= play'} /\ play' >= play
  BY <1>1, <1>2, <1>3, AdvanceStep
<1>5. done' < frames' /\ done' \in Nat
  BY <1>1, <1>2, <1>3
<1>6. play' >= seen.play /\ play' \in Nat
  BY <1>1, <1>4 DEF IInv, TypeOK
<1>7. Position' = Began' + done'
  <2>1. Position \in Int /\ Began \in Int
    BY <1>1 DEF Position, Began
  <2>2. Began' = Began
    BY <1>3 DEF Began
  <2> QED
    BY <1>1, <1>2, <1>3, <1>4, <2>1, <2>2 DEF InPull
<1>8. slots' = {s \in seen.slots : s >= play'}
  <2>1. ASSUME NEW s \in seen.slots PROVE s >= play' => s >= play
    BY <1>1, <1>4, <1>6
  <2> QED
    BY <1>1, <1>4, <2>1
<1>9. InPull'
  BY <1>1, <1>3, <1>5, <1>6, <1>7, <1>8 DEF InPull
<1> QED
  BY <1>1, <1>3, <1>4, <1>5, <1>9 DEF LoopInv, Pulling

(* A pull starves where the closed form has it starve.                     *)
LEMMA StarveStep ==
  ASSUME LoopInv, Starve
  PROVE  LoopInv' /\ Buffer!PullStarves(frames)
<1> USE SeqsAssumption, MaxSlotsAssumption, PacketFramesAssumption DEF NoSeq
<1>1. /\ InPull /\ IInv /\ frames \in PullSizes /\ frames \in Nat /\ done \in Nat
      /\ done < frames /\ play \in Nat /\ off \in 0 .. PacketFrames - 1
      /\ seen.play \in Nat /\ seen.off \in Nat
      /\ primed = TRUE /\ started = TRUE /\ seen.primed = TRUE
      /\ seen.slots \in SUBSET Nat /\ BoundedSet(seen.slots) /\ slots \in SUBSET Nat
      /\ slots = {s \in seen.slots : s >= play}
  <2>1. Pulling
    BY DEF Starve
  <2>2. IInv /\ InPull /\ frames \in PullSizes /\ done \in Nat
    BY <2>1 DEF LoopInv, Pulling
  <2> QED
    BY <2>2, PullSizesAssumption DEF Starve, InPull, IInv, TypeOK
<1>2. /\ NoneLeft /\ primed' = FALSE /\ starved' = TRUE /\ play' = 0 /\ off' = 0
      /\ UNCHANGED <<slots, target, started>> /\ Return
  BY DEF Starve
<1>3. \A s \in seen.slots : s < play
  BY <1>1, <1>2 DEF NoneLeft
<1>4. slots = {}
  BY <1>1, <1>3
<1>5. IInv'
  <2>1. IsFiniteSet({}) /\ Cardinality({}) = 0
    BY FS_EmptySet
  <2>2. TypeOK'
    <3>1. 0 \in 0 .. PacketFrames - 1
      OBVIOUS
    <3> QED
      BY <1>1, <1>2, <1>4, <2>1, <3>1 DEF IInv, TypeOK
  <2>3. CursorConsistent' /\ LatencyBounded' /\ BoundedSet(slots')
    BY <1>1, <1>2, <1>4 DEF CursorConsistent, LatencyBounded, BoundedSet
  <2>4. SlotsBounded'
    BY <1>2, <1>4, <2>1 DEF SlotsBounded
  <2> QED
    BY <2>2, <2>3, <2>4 DEF IInv
<1>6. LoopInv'
  BY <1>2, <1>5 DEF LoopInv, Return, Pulling
<1>7. frames > Buffer!Available
  <2>1. CASE seen.slots = {}
    BY <1>1, <2>1 DEF Buffer!Available
  <2>2. CASE seen.slots # {}
    <3> DEFINE N == Newest(seen.slots)
    <3>1. N \in Nat /\ N + 1 <= play
      <4>1. Newest(seen.slots) \in seen.slots
        BY <1>1, <2>2, NewestIsMax
      <4> QED
        BY <1>1, <1>3, <4>1
    <3>2. Buffer!Available = (N - seen.play + 1) * PacketFrames - seen.off
      <4>1. Buffer!Newest(seen.slots) = N
        BY DEF Buffer!Newest, Newest
      <4> QED
        BY <2>2, <4>1 DEF Buffer!Available
    <3> HIDE DEF N
    <3>3. (N + 1) * PacketFrames <= play * PacketFrames
      BY <1>1, <3>1, LaterBegins
    <3>4. (N - seen.play + 1) * PacketFrames = (N + 1) * PacketFrames - seen.play * PacketFrames
      BY <1>1, <3>1
    <3>5. /\ play * PacketFrames \in Int /\ (N + 1) * PacketFrames \in Int
          /\ seen.play * PacketFrames \in Int
      BY <1>1, <3>1
    <3>6. play * PacketFrames + off = seen.play * PacketFrames + seen.off + done
      BY <1>1 DEF InPull, Position, Began
    <3> QED
      BY <1>1, <3>2, <3>3, <3>4, <3>5, <3>6
  <2> QED
    BY <2>1, <2>2
<1>8. /\ seen'.slots = {} /\ seen'.play = 0 /\ seen'.off = 0
      /\ seen'.primed = FALSE /\ seen'.started = TRUE /\ seen'.starved = TRUE /\ target' = target
  BY <1>1, <1>2, <1>4 DEF Return, Now
<1> QED
  BY <1>1, <1>6, <1>7, <1>8 DEF Buffer!PullStarves, Buffer!NoSeq

(* Before its first iteration a pull has only taken the mutex.             *)
LEMMA BeginStep ==
  ASSUME LoopInv, NEW n \in PullSizes, BeginPull(n)
  PROVE  LoopInv' /\ seen' = seen /\ target' = target
<1> USE SeqsAssumption, PacketFramesAssumption, PullSizesAssumption DEF NoSeq
<1>1. /\ IInv /\ ~Pulling /\ done = 0 /\ seen = Now /\ primed = TRUE /\ n \in Nat /\ n > 0
      /\ frames' = n /\ started' = TRUE
      /\ UNCHANGED <<slots, play, off, target, primed, starved, done, seen>>
  BY DEF LoopInv, BeginPull, IInv, TypeOK
<1>2. IInv'
  <2>1. TypeOK' /\ CursorConsistent'
    BY <1>1 DEF IInv, TypeOK, CursorConsistent
  <2> QED
    BY <1>1, <2>1 DEF IInv, LatencyBounded, SlotsBounded
<1>3. /\ seen.slots = slots /\ seen.play = play /\ seen.off = off
      /\ seen.primed = primed /\ seen.starved = starved
  BY <1>1 DEF Now
<1>4. slots \in SUBSET Nat /\ play \in Nat /\ off \in Nat /\ \A s \in slots : s >= play
  BY <1>1 DEF IInv, TypeOK, CursorConsistent
<1>5. Position' = Began' + done'
  <2>1. play * PacketFrames \in Int
    BY <1>4
  <2> QED
    BY <1>1, <1>3, <1>4, <2>1 DEF Position, Began
<1>6. slots = {s \in slots : s >= play}
  BY <1>4
<1>7. InPull'
  BY <1>1, <1>3, <1>4, <1>5, <1>6 DEF InPull, IInv
<1> QED
  BY <1>1, <1>2, <1>7 DEF LoopInv, Pulling

(* The operators that read no variable mean the same on both sides.        *)
LEMMA SameOperators ==
  /\ \A S : Buffer!Oldest(S) = Oldest(S) /\ Buffer!Newest(S) = Newest(S)
  /\ \A S : Buffer!Overflows(S) = Overflows(S)
  /\ \A S, p, o, t : Buffer!Enough(S, p, o, t) = Enough(S, p, o, t)
  /\ \A S, p, t : Buffer!Overdue(S, p, t) = Overdue(S, p, t)
  /\ \A S, t : Buffer!TrimmedTo(S, t) = TrimmedTo(S, t)
<1>1. \A S : Buffer!Oldest(S) = Oldest(S) /\ Buffer!Newest(S) = Newest(S)
  <2>1. ASSUME NEW S PROVE Buffer!Oldest(S) = Oldest(S)
    BY DEF Buffer!Oldest, Oldest
  <2>2. ASSUME NEW S PROVE Buffer!Newest(S) = Newest(S)
    BY DEF Buffer!Newest, Newest
  <2> QED
    BY <2>1, <2>2
<1>2. \A S : Buffer!Overflows(S) = Overflows(S)
  BY DEF Buffer!Overflows, Overflows, Buffer!Cardinality, Cardinality
<1>3. \A S, p, o, t : Buffer!Enough(S, p, o, t) = Enough(S, p, o, t)
  <2>1. \A S, p, o : Buffer!QueuedFrames(S, p, o) = QueuedFrames(S, p, o)
    BY <1>1 DEF Buffer!QueuedFrames, QueuedFrames, Buffer!NoSeq, NoSeq
  <2> QED
    BY <2>1 DEF Buffer!Enough, Enough
<1>4. \A S, p, t : Buffer!Overdue(S, p, t) = Overdue(S, p, t)
  BY <1>1 DEF Buffer!Overdue, Overdue, Buffer!NoSeq, NoSeq
<1>5. \A S, t : Buffer!TrimmedTo(S, t) = TrimmedTo(S, t)
  BY <1>1 DEF Buffer!TrimmedTo, TrimmedTo
<1> QED
  BY <1>1, <1>2, <1>3, <1>4, <1>5

(* Outside a pull the buffer is seen as it is.                             *)
LEMMA ElsewhereStep ==
  ASSUME LoopInv, Elsewhere
  PROVE  LoopInv' /\ [Buffer!Next]_(Buffer!vars)
<1>1. /\ IInv /\ ~Pulling /\ seen = Now /\ frames' = 0 /\ done' = 0 /\ seen' = Now'
  BY DEF LoopInv, Elsewhere, Locked, Return
<1>2. /\ seen.slots = slots /\ seen.play = play /\ seen.off = off
      /\ seen.primed = primed /\ seen.started = started /\ seen.starved = starved
      /\ seen'.slots = slots' /\ seen'.play = play' /\ seen'.off = off'
      /\ seen'.primed = primed' /\ seen'.started = started' /\ seen'.starved = starved'
  BY <1>1 DEF Now
<1>3. [Next]_vars
  BY DEF Elsewhere, Locked, Next, Pull, PullSilent
<1>4. IInv'
  BY <1>1, <1>3, NextInv
<1>5. LoopInv'
  BY <1>1, <1>4 DEF LoopInv, Pulling
<1>6. \A S, p, o, t : TrimLatency(S, p, o, t) => Buffer!TrimLatency(S, p, o, t)
  BY <1>2, SameOperators DEF TrimLatency, Buffer!TrimLatency
<1>7. CASE \E seq \in Seqs : Push(seq)
  <2>1. PICK seq \in Seqs : Push(seq)
    BY <1>7
  <2>2. CASE PushDropped(seq)
    <3>1. seen' = seen /\ target' = target
      BY <1>1, <2>2 DEF PushDropped, vars, Now
    <3> QED
      BY <1>5, <3>1 DEF Buffer!vars
  <2>3. CASE PushAccepted(seq)
    <3>1. Buffer!PushAccepted(seq)
      BY <1>2, <1>6, <2>3, SameOperators
      DEF PushAccepted, Late, FarAhead, Keeps, Duplicate, NoSeq,
          Buffer!PushAccepted, Buffer!Late, Buffer!FarAhead, Buffer!Keeps, Buffer!Duplicate,
          Buffer!NoSeq
    <3> QED
      BY <1>5, <3>1 DEF Buffer!Next, Buffer!Push
  <2> QED
    BY <2>1, <2>2, <2>3 DEF Push
<1>8. CASE \E t \in Targets : SetTargetPackets(t)
  <2>1. PICK t \in Targets : SetTargetPackets(t)
    BY <1>8
  <2>2. Buffer!SetTargetPackets(t)
    BY <1>2, <1>6, <2>1, SameOperators DEF SetTargetPackets, Buffer!SetTargetPackets
  <2> QED
    BY <1>5, <2>2 DEF Buffer!Next
<1>9. CASE PullSilent
  <2>1. seen' = seen /\ target' = target
    BY <1>1, <1>9 DEF PullSilent, vars, Now
  <2> QED
    BY <1>5, <2>1 DEF Buffer!vars
<1>10. CASE Recreate
  <2>1. Buffer!Recreate
    BY <1>2, <1>10 DEF Recreate, NoSeq, Buffer!Recreate, Buffer!NoSeq
  <2> QED
    BY <1>5, <2>1 DEF Buffer!Next
<1> QED
  BY <1>7, <1>8, <1>9, <1>10 DEF Elsewhere, Locked

(* The loop begins with no pull.                                           *)
LEMMA LoopInitInv == LoopInit => LoopInv /\ Buffer!Init
<1> SUFFICES ASSUME LoopInit PROVE LoopInv /\ Buffer!Init
  OBVIOUS
<1>1. Init /\ frames = 0 /\ done = 0 /\ seen = Now
  BY DEF LoopInit
<1>2. LoopInv
  BY <1>1, InitInv DEF LoopInv, Pulling
<1> QED
  BY <1>1, <1>2 DEF Init, Now, NoSeq, Buffer!Init, Buffer!NoSeq

(* Every step of the loop is a step of the buffer, or nothing to it.       *)
LEMMA LoopNextStep ==
  LoopInv /\ [LoopNext]_loopVars => LoopInv' /\ [Buffer!Next]_(Buffer!vars)
<1> SUFFICES ASSUME LoopInv, [LoopNext]_loopVars PROVE LoopInv' /\ [Buffer!Next]_(Buffer!vars)
  OBVIOUS
<1>1. seen' = seen /\ target' = target => UNCHANGED (Buffer!vars)
  BY DEF Buffer!vars
<1>2. CASE UNCHANGED loopVars
  <2>1. UNCHANGED <<vars, frames, done, seen>> /\ target' = target
    BY <1>2 DEF loopVars, vars
  <2>2. IInv'
    BY <2>1, UnchangedStep DEF LoopInv
  <2>3. LoopInv'
    BY <2>1, <2>2 DEF LoopInv, Pulling, InPull, Now, Began, Position, vars
  <2> QED
    BY <1>1, <2>1, <2>3
<1>3. CASE Elsewhere
  BY <1>3, ElsewhereStep
<1>4. ASSUME NEW n \in PullSizes, BeginPull(n) PROVE LoopInv' /\ [Buffer!Next]_(Buffer!vars)
  BY <1>1, <1>4, BeginStep
<1>5. CASE Iterate
  <2>1. CASE done + Portion # frames
    BY <1>1, <1>5, <2>1, EarlierIteration
  <2>2. CASE done + Portion = frames
    <3>1. frames \in PullSizes
      BY <1>5 DEF LoopInv, Iterate, Pulling
    <3>2. LoopInv' /\ Buffer!PullPlays(frames)
      BY <1>5, <2>2, LastIteration
    <3> QED
      BY <3>1, <3>2 DEF Buffer!Next, Buffer!Pull
  <2> QED
    BY <2>1, <2>2
<1>6. CASE Starve
  <2>1. frames \in PullSizes
    BY <1>6 DEF LoopInv, Starve, Pulling
  <2>2. LoopInv' /\ Buffer!PullStarves(frames)
    BY <1>6, StarveStep
  <2> QED
    BY <2>1, <2>2 DEF Buffer!Next, Buffer!Pull
<1> QED
  BY <1>2, <1>3, <1>4, <1>5, <1>6 DEF LoopNext

(* pull, iteration by iteration under the mutex, is the one step the       *)
(* closed form makes of it, for every packet size, number of frames and    *)
(* set of gaps: what is proved of JitterBuffer holds of the loop.          *)
THEOREM LoopImplementsBuffer == LoopSpec => ImplementsBuffer
<1>1. LoopInit => LoopInv /\ Buffer!Init
  BY LoopInitInv
<1>2. LoopInv /\ [LoopNext]_loopVars => LoopInv' /\ [Buffer!Next]_(Buffer!vars)
  BY LoopNextStep
<1> QED
  BY <1>1, <1>2, PTL DEF LoopSpec, ImplementsBuffer, Buffer!Spec

(* A pull that runs has a position, and an offset within its packet.       *)
LoopHasPacket == Pulling => play # NoSeq /\ off < PacketFrames

(* The two exits of the loop of pull that the model leaves out, for a      *)
(* position of None and for an offset past its packet, are never taken.    *)
THEOREM OtherExitsDead == LoopSpec => []LoopHasPacket
<1>1. LoopInv => LoopHasPacket
  BY PacketFramesAssumption DEF LoopInv, InPull, IInv, TypeOK, CursorConsistent, LoopHasPacket
<1> QED
  BY <1>1, LoopInitInv, LoopNextStep, PTL DEF LoopSpec


-----------------------------------------------------------------------------
(* Playout: what the replay window grants is pushed, and heard once.       *)
RW == INSTANCE ReplayWindowProofs

(* The window grants a number it never granted, or leaves its grants.      *)
LEMMA CommitVerdict ==
  ASSUME RW!IInv, NEW seq \in Seqs, Replay!Commit(seq)
  PROVE  /\ RW!IInv'
         /\ last'.ok => grants[seq] = 0 /\ grants' = [grants EXCEPT ![seq] = 1]
         /\ ~last'.ok => grants' = grants
<1>1. RW!Commit(seq)
  BY DEF RW!Commit, Replay!Commit, RW!CommitRejected, Replay!CommitRejected,
     RW!CommitFirst, Replay!CommitFirst, RW!CommitLater, Replay!CommitLater,
     RW!Mark, Replay!Mark, RW!Granting, Replay!Granting, RW!Refusing, Replay!Refusing,
     RW!SlidBase, Replay!SlidBase, RW!Slid, Replay!Slid, RW!FirstBase, Replay!FirstBase
<1>2. Seqs \subseteq Nat
  BY SeqsAssumption
<1>3. RW!IInv'
  BY <1>1, <1>2, WindowAssumption, RW!NextInv DEF RW!Next
<1>4. RW!Granting(seq) \/ RW!Refusing(seq)
  BY <1>1 DEF RW!Commit, RW!CommitRejected, RW!CommitFirst, RW!CommitLater, RW!Mark
<1>5. grants \in [Seqs -> Nat] /\ \A s \in Seqs : grants'[s] <= 1
  BY <1>3 DEF RW!IInv, RW!TypeOK, RW!AtMostOnce
<1>6. CASE RW!Granting(seq)
  <2>1. last'.ok /\ grants' = [grants EXCEPT ![seq] = grants[seq] + 1]
    BY <1>6 DEF RW!Granting
  <2>2. grants[seq] = 0
    BY <1>5, <2>1
  <2> QED
    BY <1>3, <2>1, <2>2
<1>7. CASE RW!Refusing(seq)
  BY <1>3, <1>7 DEF RW!Refusing
<1> QED
  BY <1>4, <1>6, <1>7

(* What was heard was granted: a packet that is granted now was not heard. *)
HeardGranted == \A f \in Frames : heard[f] > 0 => grants[f[1]] > 0

PlayoutInv ==
  /\ RW!IInv
  /\ LoopInv
  /\ heard \in [Frames -> Nat]
  /\ HeardGranted
  /\ HeardOnce
  /\ HeldIsUnheard

(* A common summand, here the start of the packet, cancels.                *)
LEMMA SameSummand ==
  ASSUME NEW q \in Int, NEW a \in Int, NEW b \in Int, q + a >= q + b
  PROVE  a >= b
OBVIOUS

(* The part of a packet that was heard stays behind the position.          *)
LEMMA StaysBehind ==
  ASSUME IInv, IInv', off > 0 => Position' >= Position,
         play \in slots', NEW o \in 0 .. PacketFrames - 1, o < off
  PROVE  play = play' /\ o < off'
<1> USE PacketFramesAssumption
<1>1. /\ play \in Nat /\ off \in 0 .. PacketFrames - 1
      /\ play' \in Nat /\ off' \in 0 .. PacketFrames - 1
      /\ play' <= play
  BY DEF IInv, TypeOK, CursorConsistent
<1>2. play' * PacketFrames + off' >= play * PacketFrames + off
  <2>1. off > 0
    BY <1>1
  <2> QED
    BY <2>1 DEF Position
<1>3. ~(play' < play)
  <2> SUFFICES ASSUME play' < play PROVE FALSE
    OBVIOUS
  <2>1. play * PacketFrames + off > play' * PacketFrames + off'
    BY <1>1, LaterPacket
  <2>2. play * PacketFrames + off \in Int /\ play' * PacketFrames + off' \in Int
    BY <1>1
  <2> QED
    BY <1>2, <2>1, <2>2
<1>4. play' = play
  BY <1>1, <1>3
<1>5. off' >= off
  <2> DEFINE q == play * PacketFrames
  <2>1. q \in Int
    BY <1>1
  <2>2. q + off' >= q + off
    BY <1>2, <1>4, Zenon
  <2>3. off \in Int /\ off' \in Int
    BY <1>1
  <2> HIDE DEF q
  <2> QED
    BY <2>1, <2>2, <2>3, SameSummand
<1> QED
  BY <1>1, <1>4, <1>5

(* A step that hears nothing, keeps what is held and does not go back.     *)
LEMMA SilentStep ==
  ASSUME PlayoutInv, LoopInv', slots' \subseteq slots, UNCHANGED <<replayVars, heard>>,
         slots' # {} /\ off > 0 => Position' >= Position
  PROVE  PlayoutInv'
<1> USE DEF PlayoutInv, LoopInv, replayVars
<1>1. HeardOnce' /\ HeardGranted' /\ RW!IInv'
  BY DEF HeardOnce, HeardGranted, RW!IInv, RW!TypeOK, RW!AtMostOnce, RW!BitmapExact,
     RW!Granted, RW!IsHighest, RW!FirstBase
<1>2. HeldIsUnheard'
  <2> SUFFICES ASSUME NEW s \in slots', NEW o \in 0 .. PacketFrames - 1, heard[<<s, o>>] > 0
               PROVE  s = play' /\ o < off'
    BY DEF HeldIsUnheard
  <2>1. s = play /\ o < off /\ s \in slots
    BY DEF HeldIsUnheard
  <2>2. off > 0
    BY <2>1 DEF IInv, TypeOK
  <2> QED
    BY <2>1, <2>2, StaysBehind
<1> QED
  BY <1>1, <1>2

(* A delivery: the packet pushed was not heard, those held stay behind.    *)
LEMMA DeliverStep ==
  ASSUME PlayoutInv, LoopInv', NEW seq \in Seqs, Deliver(seq)
  PROVE  PlayoutInv'
<1> USE DEF PlayoutInv
<1>0. IInv
  BY DEF LoopInv
<1>1. /\ RW!IInv'
      /\ last'.ok => grants[seq] = 0 /\ grants' = [grants EXCEPT ![seq] = 1]
      /\ ~last'.ok => grants' = grants
  BY CommitVerdict DEF Deliver
<1>2. grants \in [Seqs -> Nat] /\ heard' = heard
  BY DEF Deliver, RW!IInv, RW!TypeOK
<1>3. IInv'
  BY DEF LoopInv
<1>4. HeardGranted' /\ HeardOnce'
  <2>1. \A s \in Seqs : grants[s] > 0 => grants'[s] > 0
    BY <1>1, <1>2
  <2>2. \A f \in Frames : f[1] \in Seqs
    BY DEF Frames
  <2>3. HeardOnce'
    BY <1>2 DEF HeardOnce
  <2> QED
    BY <1>2, <2>1, <2>2, <2>3 DEF HeardGranted
<1>5. HeldIsUnheard'
  <2>t. slots \subseteq Seqs
    BY <1>0 DEF IInv, TypeOK
  <2>1. CASE UNCHANGED vars /\ ~last'.ok
    BY <1>1, <1>2, <2>1 DEF HeldIsUnheard, vars
  <2>2. CASE last'.ok /\ Push(seq)
    <3>1. slots' \subseteq slots \cup {seq}
      <4>1. CASE PushAccepted(seq)
        <5>1. PICK S \in SUBSET Seqs, p \in Nat, o \in 0 .. PacketFrames - 1 :
                S \subseteq slots \cup {seq} /\ Trimmed(S, p, o)
          BY <1>0, <4>1, PushTrims
        <5>2. slots' \subseteq S
          BY <5>1 DEF Trimmed, TrimLatency
        <5> QED
          BY <5>1, <5>2
      <4>2. CASE PushDropped(seq)
        BY <4>2 DEF PushDropped, vars
      <4> QED
        BY <2>2, <4>1, <4>2 DEF Push
    <3>2. seq \notin slots
      BY <1>1, <2>2 DEF HeldIsUnheard
    <3>3. \A s \in slots : grants'[s] = 1
      BY <1>1, <1>2, <2>t, <2>2, <3>2 DEF HeldIsUnheard
    <3>4. grants'[seq] = 1
      BY <1>1, <1>2, <2>2
    <3>5. \A o \in 0 .. PacketFrames - 1 : ~(heard[<<seq, o>>] > 0)
      BY <1>1, <2>2 DEF HeardGranted, Frames
    <3>6. ASSUME NEW s \in slots, s \in slots', NEW o \in 0 .. PacketFrames - 1, heard[<<s, o>>] > 0
          PROVE  s = play' /\ o < off'
      <4>1. s = play /\ o < off /\ play # NoSeq /\ off > 0 /\ started /\ ~starved
        BY <1>0, <3>6 DEF HeldIsUnheard, IInv, TypeOK, CursorConsistent
      <4>2. Position' >= Position
        <5>1. CASE PushAccepted(seq)
          BY <1>0, <4>1, <5>1, PushForward DEF PushAccepted
        <5>2. CASE PushDropped(seq)
          <6>1. Position' = Position
            BY <5>2 DEF PushDropped, vars, Position
          <6>2. Position \in Int
            BY <1>0, PacketFramesAssumption DEF Position, IInv, TypeOK
          <6> QED
            BY <6>1, <6>2
        <5> QED
          BY <2>2, <5>1, <5>2 DEF Push
      <4> QED
        BY <1>0, <1>3, <3>6, <4>1, <4>2, StaysBehind
    <3> QED
      BY <1>2, <3>1, <3>3, <3>4, <3>5, <3>6 DEF HeldIsUnheard
  <2> QED
    BY <2>1, <2>2 DEF Deliver, Locked
<1> QED
  BY <1>1, <1>2, <1>4, <1>5

(* An iteration: what it plays is of the packet at the position and not    *)
(* before it, where nothing was heard, and the position moves past it.     *)
LEMMA PlayOnStep ==
  ASSUME PlayoutInv, LoopInv', PlayOn
  PROVE  PlayoutInv'
<1> USE DEF PlayoutInv
<1>1. /\ heard' = [f \in Frames |-> IF f \in Playing THEN heard[f] + 1 ELSE heard[f]]
      /\ UNCHANGED replayVars /\ Advance(Portion)
  BY DEF PlayOn, Iterate
<1>2. RW!IInv'
  BY <1>1 DEF replayVars, RW!IInv, RW!TypeOK, RW!AtMostOnce, RW!BitmapExact,
     RW!Granted, RW!IsHighest, RW!FirstBase
<1>3. /\ Playing \subseteq Frames
      /\ \A f \in Playing : /\ f[1] = play /\ play \in slots
                          /\ off <= f[2] /\ f[2] < off + Portion
  BY DEF Playing
<1>4. /\ IInv /\ slots \subseteq Seqs /\ off \in 0 .. PacketFrames - 1 /\ play \in Nat
      /\ IInv' /\ off' \in 0 .. PacketFrames - 1
      /\ Portion \in Nat /\ off + Portion <= PacketFrames
  <2>1. IInv /\ slots \subseteq Seqs /\ off \in 0 .. PacketFrames - 1 /\ play \in Nat
    BY DEF LoopInv, IInv, TypeOK
  <2>2. IInv' /\ off' \in 0 .. PacketFrames - 1
    BY DEF LoopInv, IInv, TypeOK
  <2>3. done \in Nat /\ frames \in Nat /\ done < frames
    BY PullSizesAssumption DEF LoopInv, InPull, PlayOn, Iterate, Pulling
  <2> QED
    BY <2>1, <2>2, <2>3, PacketFramesAssumption DEF Portion
<1>5. ASSUME NEW f \in Playing PROVE heard[f] = 0
  <2> SUFFICES ASSUME heard[f] > 0 PROVE FALSE
    BY <1>3
  <2>1. PICK s \in Seqs, o \in 0 .. PacketFrames - 1 : f = <<s, o>>
    BY <1>3 DEF Frames
  <2>2. s = play /\ s \in slots /\ off <= o
    BY <1>3, <2>1
  <2>3. o < off
    BY <2>1, <2>2 DEF HeldIsUnheard
  <2> QED
    BY <1>4, <2>2, <2>3
<1>6. heard' \in [Frames -> Nat] /\ HeardOnce'
  <2>1. heard' \in [Frames -> Nat]
    BY <1>1
  <2>2. \A f \in Frames : heard'[f] <= 1
    BY <1>1, <1>5 DEF HeardOnce
  <2> QED
    BY <2>1, <2>2 DEF HeardOnce
<1>7. HeardGranted'
  <2> SUFFICES ASSUME NEW f \in Frames, heard'[f] > 0 PROVE grants[f[1]] > 0
    BY <1>1 DEF HeardGranted, replayVars
  <2>1. CASE f \in Playing
    BY <1>3, <2>1 DEF HeldIsUnheard
  <2>2. CASE f \notin Playing
    BY <1>1, <2>2 DEF HeardGranted
  <2> QED
    BY <2>1, <2>2
<1>8. HeldIsUnheard'
  <2>1. slots' \subseteq slots
    BY <1>1 DEF Advance
  <2> SUFFICES ASSUME NEW s \in slots', NEW o \in 0 .. PacketFrames - 1, heard'[<<s, o>>] > 0
               PROVE  s = play' /\ o < off'
    BY <1>1, <2>1 DEF HeldIsUnheard, replayVars
  <2>2. s = play /\ o < off + Portion
    <3>1. CASE <<s, o>> \in Playing
      BY <1>3, <3>1
    <3>2. CASE <<s, o>> \notin Playing
      <4>1. heard[<<s, o>>] > 0
        BY <1>1, <1>4, <2>1, <3>2 DEF Frames
      <4>2. s = play /\ o < off
        BY <2>1, <4>1 DEF HeldIsUnheard
      <4> QED
        BY <1>4, <4>2
    <3> QED
      BY <3>1, <3>2
  <2>3. ~(off + Portion >= PacketFrames)
    <3> SUFFICES ASSUME off + Portion >= PacketFrames PROVE FALSE
      OBVIOUS
    <3>1. s \in slots \ {play}
      BY <1>1 DEF Advance
    <3> QED
      BY <2>2, <3>1
  <2>4. play' = play /\ off' = off + Portion
    BY <1>1, <2>3 DEF Advance
  <2> QED
    BY <2>2, <2>4
<1> QED
  BY <1>2, <1>6, <1>7, <1>8

(* Around its iterations the callback plays nothing.                       *)
LEMMA CallbackStep ==
  ASSUME PlayoutInv, LoopInv', Callback
  PROVE  PlayoutInv'
<1>1. IInv /\ Position \in Int
  BY PacketFramesAssumption DEF PlayoutInv, LoopInv, IInv, TypeOK, Position
<1>2. slots' = slots /\ UNCHANGED <<replayVars, heard>>
  BY DEF Callback, BeginPull, Starve, Locked, PullSilent, vars
<1>3. slots # {} => Position' = Position
  <2>1. CASE Starve
    <3>1. slots = {}
      <4>1. \A s \in slots : s \in Nat /\ s >= play /\ s < play
        BY <1>1, <2>1, SeqsAssumption DEF IInv, TypeOK, CursorConsistent, Starve, NoneLeft
      <4>2. play \in Nat
        BY <1>1 DEF IInv, TypeOK
      <4> QED
        BY <4>1, <4>2
    <3> QED
      BY <3>1
  <2>2. CASE \E n \in PullSizes : BeginPull(n)
    BY <2>2 DEF BeginPull, Position
  <2>3. CASE Locked(PullSilent)
    BY <2>3 DEF Locked, PullSilent, vars, Position
  <2> QED
    BY <2>1, <2>2, <2>3 DEF Callback
<1>4. slots' # {} => Position' >= Position
  BY <1>1, <1>2, <1>3
<1> QED
  BY <1>2, <1>4, SilentStep

(* Nothing held, nothing heard.                                            *)
LEMMA PlayoutInitInv == PlayoutInit => PlayoutInv
<1> SUFFICES ASSUME PlayoutInit PROVE PlayoutInv
  OBVIOUS
<1>1. LoopInv
  BY LoopInitInv DEF PlayoutInit
<1>2. RW!Init
  BY DEF PlayoutInit, RW!Init, Replay!Init
<1>3. RW!IInv
  BY <1>2, WindowAssumption, SeqsAssumption, RW!InitInv
<1>4. heard = [f \in Frames |-> 0] /\ slots = {}
  BY DEF PlayoutInit, LoopInit, Init
<1>5. heard \in [Frames -> Nat] /\ HeardGranted /\ HeardOnce /\ HeldIsUnheard
  BY <1>4 DEF HeardGranted, HeardOnce, HeldIsUnheard
<1> QED
  BY <1>1, <1>3, <1>5 DEF PlayoutInv

(* To the buffer a step of the composition is one of the loop, or none.    *)
LEMMA PlayoutIsLoop == LoopInv /\ [PlayoutNext]_playoutVars => [LoopNext]_loopVars
<1> SUFFICES ASSUME LoopInv, [PlayoutNext]_playoutVars PROVE [LoopNext]_loopVars
  OBVIOUS
<1>1. ASSUME NEW seq \in Seqs, Deliver(seq) PROVE [LoopNext]_loopVars
  <2>1. CASE Locked(Push(seq))
    BY <2>1 DEF LoopNext, Elsewhere
  <2>2. CASE Locked(UNCHANGED vars)
    <3>1. frames = 0 /\ done = 0 /\ seen = Now
      BY <2>2, PullSizesAssumption DEF LoopInv, Locked, Pulling
    <3>2. UNCHANGED vars /\ frames' = 0 /\ done' = 0 /\ seen' = Now'
      BY <2>2 DEF Locked, Return
    <3>3. Now' = Now
      BY <3>2 DEF Now, vars
    <3> QED
      BY <3>1, <3>2, <3>3 DEF loopVars
  <2> QED
    BY <1>1, <2>1, <2>2 DEF Deliver, Locked
<1>2. CASE PlayOn
  BY <1>2 DEF PlayOn, LoopNext
<1>3. CASE Callback
  BY <1>3 DEF Callback, LoopNext, Elsewhere
<1>4. ASSUME NEW t \in Targets, Retarget(t) PROVE [LoopNext]_loopVars
  BY <1>4 DEF Retarget, LoopNext, Elsewhere
<1>5. CASE RecreateStream
  BY <1>5 DEF RecreateStream, LoopNext, Elsewhere
<1>6. CASE UNCHANGED playoutVars
  BY <1>6 DEF playoutVars
<1> QED
  BY <1>1, <1>2, <1>3, <1>4, <1>5, <1>6 DEF PlayoutNext

(* Every delivery, iteration, retarget and recreation keeps the invariant. *)
LEMMA PlayoutNextInv == PlayoutInv /\ [PlayoutNext]_playoutVars => PlayoutInv'
<1> SUFFICES ASSUME PlayoutInv, [PlayoutNext]_playoutVars PROVE PlayoutInv'
  OBVIOUS
<1>0. IInv /\ LoopInv'
  BY PlayoutIsLoop, LoopNextStep DEF PlayoutInv, LoopInv
<1>1. ASSUME NEW seq \in Seqs, Deliver(seq) PROVE PlayoutInv'
  BY <1>0, <1>1, DeliverStep
<1>2. CASE PlayOn
  BY <1>0, <1>2, PlayOnStep
<1>3. CASE Callback
  BY <1>0, <1>3, CallbackStep
<1>4. ASSUME NEW t \in Targets, Retarget(t) PROVE PlayoutInv'
  <2>1. SetTargetPackets(t) /\ UNCHANGED <<replayVars, heard>>
    BY <1>4 DEF Retarget, Locked
  <2>2. Position' >= Position
    BY <1>0, <2>1, SetTargetForward
  <2>3. slots' \subseteq slots
    BY <2>1 DEF SetTargetPackets, TrimLatency
  <2> QED
    BY <1>0, <2>1, <2>2, <2>3, SilentStep
<1>5. CASE RecreateStream
  BY <1>0, <1>5, SilentStep DEF RecreateStream, Locked, Recreate
<1>6. CASE UNCHANGED playoutVars
  <2>1. UNCHANGED <<replayVars, vars, heard>>
    BY <1>6 DEF playoutVars, loopVars
  <2>2. Position' = Position /\ Position \in Int
    BY <1>0, <2>1, PacketFramesAssumption DEF vars, Position, IInv, TypeOK
  <2>3. Position' >= Position /\ slots' \subseteq slots
    BY <2>1, <2>2 DEF vars
  <2> QED
    BY <1>0, <2>1, <2>3, SilentStep
<1> QED
  BY <1>1, <1>2, <1>3, <1>4, <1>5, <1>6 DEF PlayoutNext

(* The invariant of every execution of the three together.                 *)
LEMMA PlayoutInvariance == PlayoutSpec => []PlayoutInv
BY PlayoutInitInv, PlayoutNextInv, PTL DEF PlayoutSpec

(* No frame is played twice, whatever the network repeats and however      *)
(* often the buffer starves or the stream is made anew.                    *)
THEOREM NothingHeardTwice == PlayoutSpec => []HeardOnce
<1>1. PlayoutInv => HeardOnce
  BY DEF PlayoutInv
<1> QED
  BY <1>1, PlayoutInvariance, PTL

(* What waits in the buffer was not heard.                                 *)
THEOREM WaitingIsUnheard == PlayoutSpec => []HeldIsUnheard
<1>1. PlayoutInv => HeldIsUnheard
  BY DEF PlayoutInv
<1> QED
  BY <1>1, PlayoutInvariance, PTL

(* Between any two iterations, too, position, slots and flags agree, and   *)
(* the latency and the number of packets are bounded.                      *)
THEOREM PlayoutConsistent ==
  PlayoutSpec => [](CursorConsistent /\ LatencyBounded /\ SlotsBounded)
<1>1. PlayoutInv => CursorConsistent /\ LatencyBounded /\ SlotsBounded
  BY DEF PlayoutInv, LoopInv, IInv
<1> QED
  BY <1>1, PlayoutInvariance, PTL

(* What the listener hears between two starvations never goes back.        *)
THEOREM PlayoutForward == PlayoutSpec => PlayoutNeverRewinds
<1>1. ASSUME PlayoutInv, [PlayoutNext]_playoutVars, Running PROVE Position' >= Position
  <2>1. IInv /\ LoopInv /\ [LoopNext]_loopVars
    BY <1>1, PlayoutIsLoop DEF PlayoutInv, LoopInv
  <2>2. Position \in Int
    BY <2>1, PacketFramesAssumption DEF IInv, TypeOK, Position
  <2>3. CASE Elsewhere
    <3>1. [Next]_vars
      BY <2>3 DEF Elsewhere, Locked, Next, PullSilent
    <3> QED
      BY <1>1, <2>1, <3>1, NextForward
  <2>4. CASE \E n \in PullSizes : BeginPull(n)
    <3>1. Position' = Position
      BY <2>4 DEF BeginPull, Position
    <3> QED
      BY <2>2, <3>1
  <2>5. CASE Iterate
    <3>1. /\ Pulling /\ Advance(Portion) /\ UNCHANGED <<target, primed, started, starved>>
      BY <2>5 DEF Iterate
    <3>2. /\ primed = TRUE /\ started = TRUE /\ done \in Nat /\ frames \in Nat /\ done < frames
      BY <2>1, <3>1, PullSizesAssumption DEF LoopInv, InPull, Pulling
    <3>3. off \in 0 .. PacketFrames - 1
      BY <2>1 DEF IInv, TypeOK
    <3>4. Portion \in Nat /\ Portion >= 1 /\ Portion <= PacketFrames - off
      BY <3>2, <3>3, PacketFramesAssumption DEF Portion
    <3>5. Position' = Position + Portion
      BY <2>1, <3>1, <3>2, <3>4, AdvanceStep
    <3> QED
      BY <2>2, <3>4, <3>5
  <2>6. CASE Starve
    BY <1>1, <2>6 DEF Starve, Running
  <2>7. CASE UNCHANGED loopVars
    <3>1. Position' = Position
      BY <2>7 DEF loopVars, vars, Position
    <3> QED
      BY <2>2, <3>1
  <2> QED
    BY <2>1, <2>3, <2>4, <2>5, <2>6, <2>7 DEF LoopNext
<1>2. PlayoutInv /\ [PlayoutNext]_playoutVars =>
        [started /\ started' /\ play # NoSeq /\ play' # NoSeq => Position' >= Position]_vars
  BY <1>1 DEF Running
<1> QED
  BY <1>2, PlayoutInvariance, PTL DEF PlayoutSpec, PlayoutNeverRewinds

(* Behind the window, too, a callback's loop is one step of the buffer.    *)
THEOREM PlayoutImplementsBuffer == PlayoutSpec => ImplementsBuffer
<1>1. PlayoutInit => LoopInit
  BY DEF PlayoutInit
<1>2. LoopInv /\ [PlayoutNext]_playoutVars => [LoopNext]_loopVars
  BY PlayoutIsLoop
<1>3. PlayoutInv => LoopInv
  BY DEF PlayoutInv
<1>4. PlayoutSpec => LoopSpec
  BY <1>1, <1>2, <1>3, PlayoutInvariance, PTL DEF PlayoutSpec, LoopSpec
<1> QED
  BY <1>4, LoopImplementsBuffer

=============================================================================
