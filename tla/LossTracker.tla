------------------------------ MODULE LossTracker ------------------------------
(***************************************************************************)
(* The loss count of one peer, observe_audio_seq of                        *)
(* src/src/transport/receiver.rs.  Each audio packet comes once, in any    *)
(* order: Arrivals has the replay window that sees to it.  A number is     *)
(* given up, and counted lost, once a packet more than Reorder ahead has   *)
(* come; a jump of more than Slack beyond that is settled in one go        *)
(* instead of number by number.                                            *)
(***************************************************************************)
EXTENDS Integers, FiniteSets

CONSTANTS
  Reorder,   \* how far behind the newest a packet may come (32)
  Slack,     \* a longer jump of the horizon takes the short way (48)
  AudioSeqs  \* the numbers the sender gives its audio packets

ASSUME ReorderAssumption == Reorder \in Nat /\ Slack \in Nat
ASSUME AudioSeqsAssumption == AudioSeqs \subseteq Nat \ {0}

VARIABLES
  seen,      \* seen_audio
  cursor,    \* loss_cursor: every number below it is settled; 0 before the first packet
  newest,    \* max_audio_seq
  received,  \* reported in feedback
  lost,      \* reported in feedback
  arrived,   \* history: all numbers that came
  givenUp    \* history: the numbers settled without having come

trackerVars == <<seen, cursor, newest, received, lost, arrived, givenUp>>

TrackerTypeOK ==
  /\ seen \subseteq AudioSeqs /\ IsFiniteSet(seen)
  /\ cursor \in Nat
  /\ newest \in Nat
  /\ received \in Nat
  /\ lost \in Nat
  /\ arrived \subseteq AudioSeqs
  /\ givenUp \subseteq Nat

TrackerInit ==
  /\ seen = {}
  /\ cursor = 0
  /\ newest = 0
  /\ received = 0
  /\ lost = 0
  /\ arrived = {}
  /\ givenUp = {}

Larger(a, b) == IF a < b THEN b ELSE a

(* Numbers below the horizon are given up; a mutant forgives one less.     *)
MutHorizon(n) == Larger(n - Reorder + 1, 0)
Horizon(n) == Larger(n - Reorder, 0)

(* The numbers from c up to the horizon h that are not in S.               *)
Missing(S, c, h) == {s \in c .. h - 1 : s \notin S}

(* Mutants: all of S is counted; the number at the horizon is lost         *)
(* already.                                                                *)
MutJumpCountsAll(S, c, h) ==
  /\ h > c + Slack
  /\ lost' = lost + (h - c) - Cardinality(S)
  /\ seen' = {s \in S : s >= h}
  /\ cursor' = h

MutWalkLate(S, c, h) ==
  /\ h <= c + Slack
  /\ lost' = lost + Cardinality({s \in c .. h : s \notin S})
  /\ seen' = S \ (c .. h - 1)
  /\ cursor' = Larger(c, h)

(* A long jump: what was seen is counted, the rest of the span is lost,    *)
(* and only numbers from the horizon on are kept.                          *)
Jump(S, c, h) ==
  /\ h > c + Slack
  /\ lost' = lost + (h - c) - Cardinality(S \cap (c .. h - 1))
  /\ seen' = {s \in S : s >= h}
  /\ cursor' = h

(* Otherwise number by number; each is lost or leaves the set.             *)
Walk(S, c, h) ==
  /\ h <= c + Slack
  /\ lost' = lost + Cardinality(Missing(S, c, h))
  /\ seen' = S \ (c .. h - 1)
  /\ cursor' = Larger(c, h)

Observe(seq) ==
  /\ arrived' = arrived \cup {seq}
  /\ IF seq \in seen
     THEN UNCHANGED <<seen, cursor, newest, received, lost, givenUp>>
     ELSE LET S == seen \cup {seq}
              c == Larger(cursor, 1)
              h == Horizon(newest')
          IN  /\ newest' = Larger(newest, seq)
              /\ received' = received + 1
              /\ Jump(S, c, h) \/ Walk(S, c, h)
              /\ givenUp' = givenUp \cup Missing(S, c, h)

TrackerNext == \E seq \in AudioSeqs \ arrived : Observe(seq)

TrackerSpec == TrackerInit /\ [][TrackerNext]_trackerVars

-----------------------------------------------------------------------------
(* Whatever the order of arrival, and however the jumps were settled, the  *)
(* report is exact: each number that came counts as received once, each    *)
(* number given up as lost once.                                           *)
ReportExact ==
  /\ received = Cardinality(arrived)
  /\ lost = Cardinality(givenUp)
  /\ \A s \in 1 .. cursor - 1 : s \in givenUp \/ s \in arrived

(* Every number from the cursor on that came is still in the set: none     *)
(* will be taken for lost when the cursor gets there.                      *)
WindowExact == \A s \in arrived : s >= cursor => s \in seen

(* security_idle_replay.rs, "reordered audio is not reported as packet     *)
(* loss": a packet that was given up and then came after all was more than *)
(* Reorder behind the newest.                                              *)
ReorderForgiven ==
  [][\A s \in arrived' \ arrived : s \in givenUp => newest - s > Reorder]_trackerVars

=============================================================================
