----------------------------- MODULE JitterBuffer -----------------------------
(***************************************************************************)
(* The jitter buffer of one stream, src/src/mixer/jitter.rs.  The receive  *)
(* task pushes decoded packets and changes the target; the audio callback  *)
(* pulls frames.  All three run under the mixer's mutex, so each is one    *)
(* step; their order is arbitrary.                                         *)
(*                                                                         *)
(* A packet is its sequence number: the BTreeMap of slots is the set of    *)
(* its keys.  The PCM, the clock and the statistics counters are left out. *)
(***************************************************************************)
EXTENDS Integers, FiniteSets

CONSTANTS
  MaxSlots,      \* MAX_SLOTS (32)
  PacketFrames,  \* frames of audio in a packet
  Seqs,          \* the sequence numbers the sender gives its packets
  Targets,       \* the targets, in packets, the buffer is given
  PullSizes      \* the frame counts the audio callback asks for

ASSUME MaxSlotsAssumption == MaxSlots \in Nat \ {0}
ASSUME PacketFramesAssumption == PacketFrames \in Nat \ {0}
ASSUME SeqsAssumption == Seqs \subseteq Nat \ {0}
ASSUME TargetsAssumption == Targets \subseteq 1 .. MaxSlots
ASSUME PullSizesAssumption == PullSizes \subseteq Nat \ {0}

VARIABLES
  slots,    \* the packets held
  play,     \* play_seq: the packet being played, NoSeq for None
  off,      \* play_off: frames of it already played
  target,   \* target_packets
  primed,   \* enough was queued: pull plays instead of filling silence
  started,  \* pull has played since the buffer was last restarted
  starved   \* pull ran out of packets: the next push restarts the buffer

vars == <<slots, play, off, target, primed, started, starved>>

NoSeq == 0

Newest(S) == CHOOSE s \in S : \A t \in S : t <= s
Oldest(S) == CHOOSE s \in S : \A t \in S : s <= t

TypeOK ==
  /\ slots \subseteq Seqs /\ IsFiniteSet(slots)
  /\ play \in Nat
  /\ off \in 0 .. PacketFrames - 1
  /\ target \in 1 .. MaxSlots
  /\ primed \in BOOLEAN
  /\ started \in BOOLEAN
  /\ starved \in BOOLEAN

Init ==
  /\ slots = {}
  /\ play = NoSeq
  /\ off = 0
  /\ target \in Targets
  /\ primed = FALSE
  /\ started = FALSE
  /\ starved = FALSE

(* expire removes the stream of a silent sender; its next HELLO makes a    *)
(* new one, with a new buffer.                                             *)
Recreate ==
  /\ slots' = {}
  /\ play' = NoSeq
  /\ off' = 0
  /\ target' \in Targets
  /\ primed' = FALSE
  /\ started' = FALSE
  /\ starved' = FALSE

(* queued_frames: the span from the play position to the newest packet,    *)
(* holes included.                                                         *)
QueuedFrames(S, p, o) ==
  IF S = {} THEN 0
  ELSE LET first == IF p = NoSeq THEN Oldest(S) ELSE p
       IN  (Newest(S) - first + 1) * PacketFrames - o

(* Enough to play: a full target's worth.                                   *)
Enough(S, p, o, t) == QueuedFrames(S, p, o) >= t * PacketFrames

(* trim_latency: playout that is more than two packets later than the      *)
(* target skips to the target, dropping what it skips.                     *)
MutOverdueAlways(S, p, t) == S # {} /\ p # NoSeq
Overdue(S, p, t) == S # {} /\ p # NoSeq /\ Newest(S) - p > t + 2

TrimmedTo(S, t) == Newest(S) - (t - 1)

(* Mutant: the packets skipped stay in the slots.                          *)
MutTrimKeeps(S, p, o, t) ==
  /\ slots' = S
  /\ play' = IF Overdue(S, p, t) THEN TrimmedTo(S, t) ELSE p
  /\ off' = IF Overdue(S, p, t) THEN 0 ELSE o

TrimLatency(S, p, o, t) ==
  IF Overdue(S, p, t)
  THEN /\ slots' = {s \in S : s >= TrimmedTo(S, t)}
       /\ play' = TrimmedTo(S, t)
       /\ off' = 0
  ELSE /\ slots' = S
       /\ play' = p
       /\ off' = o

(* Mutant: a lower target trims nothing.                                   *)
MutSetTargetUntrimmed(t) ==
  /\ t # target
  /\ target' = t
  /\ primed' = (primed /\ (t > target => Enough(slots, play, off, t)))
  /\ UNCHANGED <<slots, play, off, started, starved>>

SetTargetPackets(t) ==
  /\ t # target
  /\ target' = t
  /\ primed' = (primed /\ (t > target => Enough(slots, play, off, t)))
  /\ TrimLatency(slots, play, off, t)
  /\ UNCHANGED <<started, starved>>

-----------------------------------------------------------------------------
(* push.  A starved buffer restarts; a packet more than two buffers ahead  *)
(* of the play position empties the buffer and moves playout to it.        *)
Late(seq) == ~starved /\ play # NoSeq /\ started /\ seq < play
FarAhead(seq) == ~starved /\ play # NoSeq /\ seq > play + 2 * MaxSlots
Keeps(seq) == ~starved /\ ~FarAhead(seq)
Duplicate(seq) == Keeps(seq) /\ ~Late(seq) /\ seq \in slots

PushDropped(seq) ==
  /\ Late(seq) \/ Duplicate(seq)
  /\ UNCHANGED vars

Overflows(S) == Cardinality(S) > MaxSlots

(* The packet goes in; a full buffer loses its oldest packet, and playout  *)
(* moves off a packet that is lost so.  Until the first pull, playout      *)
(* begins at the oldest packet, however late that one arrives.             *)
PushAccepted(seq) ==
  /\ ~Late(seq) /\ ~Duplicate(seq)
  /\ LET held     == (IF Keeps(seq) THEN slots ELSE {}) \cup {seq}
         at       == IF Keeps(seq) THEN play ELSE NoSeq
         overflow == Overflows(held)
         kept     == IF overflow THEN held \ {Oldest(held)} ELSE held
         moved    == overflow /\ at # NoSeq /\ at <= Oldest(held)
         o        == IF Keeps(seq) /\ ~moved THEN off ELSE 0
         p        == IF at = NoSeq \/ moved \/ starved \/ ~started
                     THEN Oldest(kept) ELSE at
     IN  /\ primed' = (\/ Keeps(seq) /\ primed
                       \/ Enough(kept, p, o, target))
         /\ TrimLatency(kept, p, o, target)
  /\ started' = (started /\ ~starved)
  /\ starved' = FALSE
  /\ UNCHANGED target

Push(seq) == PushDropped(seq) \/ PushAccepted(seq)

-----------------------------------------------------------------------------
(* pull, for n frames.  What the loop over the packets does is given by    *)
(* where it stops: it plays or conceals packet after packet, and starves   *)
(* when frames are still wanted and no packet is left.  JitterLoop has the *)
(* loop itself, and implements this module.                                *)
Available == IF slots = {} THEN 0 ELSE (Newest(slots) - play + 1) * PacketFrames - off

PullSilent ==
  /\ ~primed
  /\ UNCHANGED vars

PullPlays(n) ==
  /\ primed
  /\ n <= Available
  /\ LET p == play + (off + n) \div PacketFrames
     IN  /\ play' = p
         /\ off' = (off + n) % PacketFrames
         /\ slots' = {s \in slots : s >= p}
  /\ started' = TRUE
  /\ UNCHANGED <<target, primed, starved>>

PullStarves(n) ==
  /\ primed
  /\ n > Available
  /\ slots' = {}
  /\ play' = NoSeq
  /\ off' = 0
  /\ primed' = FALSE
  /\ started' = TRUE
  /\ starved' = TRUE
  /\ UNCHANGED target

Pull(n) == PullSilent \/ PullPlays(n) \/ PullStarves(n)

Next ==
  \/ \E seq \in Seqs : Push(seq)
  \/ \E t \in Targets : SetTargetPackets(t)
  \/ \E n \in PullSizes : Pull(n)
  \/ Recreate

Spec == Init /\ [][Next]_vars

-----------------------------------------------------------------------------
(* The play position and the slots agree after every interleaving of       *)
(* pushes, pulls and retargets: no packet behind the position is held (it  *)
(* would never be played nor dropped), a primed buffer has a position (or  *)
(* pull would be silent for ever), a packet is half played only in a       *)
(* started buffer (push moves the position of any other), and a starved    *)
(* buffer holds nothing.                                                   *)
CursorConsistent ==
  /\ \A s \in slots : play # NoSeq /\ s >= play
  /\ primed => play # NoSeq
  /\ off > 0 => started /\ play # NoSeq
  /\ starved => ~primed /\ play = NoSeq /\ started

(* Playout never trails the newest packet by more than two packets over    *)
(* the target, whatever jumps in sequence numbers or target changes there  *)
(* were: the latency the buffer adds is bounded.                           *)
LatencyBounded == slots # {} => Newest(slots) - play <= target + 2

(* The buffer never holds more than MAX_SLOTS packets after a push.        *)
SlotsBounded == Cardinality(slots) <= MaxSlots

(* Within a run, from the first pull to the next starvation, audio only    *)
(* moves forward: no step takes the play position back, not even a far     *)
(* jump, an overflow or a trim between two pulls of the same packet.       *)
Position == play * PacketFrames + off
PlayoutNeverRewinds ==
  [][started /\ started' /\ play # NoSeq /\ play' # NoSeq => Position' >= Position]_vars

=============================================================================
