--------------------------- MODULE ReplayReference ---------------------------
(***************************************************************************)
(* What an anti-replay window promises its callers, without the bitmap: a  *)
(* sequence number is granted when it is not zero, was never granted       *)
(* before, and is less than Window behind the highest number granted so    *)
(* far.  ReplayWindow (the sliding bitmap of crypto/replay.rs) implements  *)
(* this specification.                                                     *)
(***************************************************************************)
EXTENDS Integers

CONSTANTS
  Window,  \* how far behind the highest granted number a late one may be
  Seqs     \* the sequence numbers a peer may present

VARIABLES
  grants,  \* how many times each number was granted
  last     \* the number presented last and the answer given to it

vars == <<grants, last>>

Granted == {s \in Seqs : grants[s] > 0}

Fresh(seq) ==
  /\ seq # 0
  /\ seq \notin Granted
  /\ \A s \in Granted : s - seq < Window

Init ==
  /\ grants = [s \in Seqs |-> 0]
  /\ last = [seq |-> 0, ok |-> FALSE]

Grant(seq) ==
  /\ Fresh(seq)
  /\ grants' = [grants EXCEPT ![seq] = @ + 1]
  /\ last' = [seq |-> seq, ok |-> TRUE]

Refuse(seq) ==
  /\ ~Fresh(seq)
  /\ last' = [seq |-> seq, ok |-> FALSE]
  /\ UNCHANGED grants

Commit(seq) == Grant(seq) \/ Refuse(seq)

Next == \E seq \in Seqs : Commit(seq)

Spec == Init /\ [][Next]_vars

=============================================================================
