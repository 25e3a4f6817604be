----------------------------- MODULE ReplayWindow -----------------------------
(***************************************************************************)
(* The anti-replay bitmap of src/src/crypto/replay.rs.  Every datagram     *)
(* that authenticates is presented to `commit' with its packet counter;    *)
(* the receiver keeps one window per session and the sender one per bound  *)
(* receiver.  The vector of 64-bit words is the set of the indices whose   *)
(* bit is on: index i stands for the sequence number base + i.             *)
(***************************************************************************)
EXTENDS Integers

CONSTANTS
  Window,  \* the clamped window size (2048 in both engines)
  Seqs     \* the sequence numbers a peer may present

ASSUME WindowAssumption == Window \in Nat \ {0}
ASSUME SeqsAssumption == Seqs \subseteq Nat

VARIABLES
  base,    \* lowest number the bitmap can still tell; 0 until the first commit
  bits,    \* indices whose bit is on
  grants,  \* history: how many times commit answered true for each number
  last     \* history: the number presented last and the answer

vars == <<base, bits, grants, last>>

Granted == {s \in Seqs : grants[s] > 0}

TypeOK ==
  /\ base \in Nat
  /\ bits \subseteq 0 .. Window - 1
  /\ grants \in [Seqs -> Nat]
  /\ last \in [seq : Seqs \cup {0}, ok : BOOLEAN]

Init ==
  /\ base = 0
  /\ bits = {}
  /\ grants = [s \in Seqs |-> 0]
  /\ last = [seq |-> 0, ok |-> FALSE]

(* The two answers of commit, recorded in the history variables. *)
Granting(seq) ==
  /\ grants' = [grants EXCEPT ![seq] = @ + 1]
  /\ last' = [seq |-> seq, ok |-> TRUE]

Refusing(seq) ==
  /\ last' = [seq |-> seq, ok |-> FALSE]
  /\ UNCHANGED grants

(* The base the first committed number gives an empty window. *)
FirstBase(seq) == IF seq >= Window THEN seq - (Window - 1) ELSE 1

(* The base after making room for seq. *)
MutSlidBaseLate(seq) == IF seq - base > Window THEN seq - Window + 1 ELSE base
SlidBase(seq) == IF seq - base >= Window THEN seq - Window + 1 ELSE base

(* Mutants of slide: it copies from bit 0, forgets the bits, or is one off. *)
MutSlidFromZero(newBase) == {i - (newBase - base) : i \in bits}
MutSlidForgets(newBase) == IF newBase = base THEN bits ELSE {}
MutSlidOneOff(newBase) ==
  {i \in 0 .. Window - 1 : newBase > base /\ i + 1 + (newBase - base) \in bits}

(* slide: the bits still covered move down, the others fall off.  A slide  *)
(* of a whole window or more clears the bitmap.                            *)
Slid(newBase) ==
  {i \in 0 .. Window - 1 : i + (newBase - base) \in bits}

(* mark: the bit of seq is turned on, unless it already is. *)
Mark(seq, newBase, kept) ==
  LET idx == seq - newBase
  IN  /\ base' = newBase
      /\ \/ /\ idx < Window /\ idx \notin kept
            /\ bits' = kept \cup {idx}
            /\ Granting(seq)
         \/ /\ idx >= Window \/ idx \in kept
            /\ bits' = kept
            /\ Refusing(seq)

CommitRejected(seq) ==
  /\ seq = 0 \/ seq < base
  /\ Refusing(seq)
  /\ UNCHANGED <<base, bits>>

CommitFirst(seq) ==
  /\ seq # 0
  /\ base = 0
  /\ Mark(seq, FirstBase(seq), {})

CommitLater(seq) ==
  /\ base # 0
  /\ seq >= base
  /\ Mark(seq, SlidBase(seq), Slid(SlidBase(seq)))

Commit(seq) ==
  \/ CommitRejected(seq)
  \/ CommitFirst(seq)
  \/ CommitLater(seq)

Next == \E seq \in Seqs : Commit(seq)

Spec == Init /\ [][Next]_vars

-----------------------------------------------------------------------------
(* No number is ever granted twice: what the callers rely on when they     *)
(* drop an authenticated datagram because commit answered false.           *)
AtMostOnce == \A s \in Seqs : grants[s] <= 1

IsHighest(h) == h \in Granted /\ \A s \in Granted : s <= h

(* The bitmap, slid any number of times, is exactly what it stands for:    *)
(* the base trails the highest granted number by Window - 1 (but never     *)
(* drops below 1), and the bits are the granted numbers from base on.      *)
BitmapExact ==
  /\ base = 0 => Granted = {} /\ bits = {}
  /\ base # 0 => \E h \in Seqs : IsHighest(h) /\ base = FirstBase(h)
  /\ bits = {i \in 0 .. Window - 1 : base + i \in Granted}

Reference == INSTANCE ReplayReference

(* The sliding bitmap gives, in every order of arrival, the answers of the *)
(* set of all granted numbers: no replay accepted, no fresh number inside  *)
(* the window turned away.                                                 *)
ImplementsReference == Reference!Spec

=============================================================================
