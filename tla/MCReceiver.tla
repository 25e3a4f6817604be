------------------------------ MODULE MCReceiver ------------------------------
(* Four sessions compete for two slots (a full house) and a history of     *)
(* three, so that the epoch also rotates under live sessions; a counter    *)
(* can come late by more than the window.  Runs are followed until         *)
(* MaxApplied different datagrams have been let in: enough to fill the     *)
(* history, rotate it away and fill the slots again.                       *)
EXTENDS Receiver, TLC

Kinds == <<"hello", "media", "hello">>
CountersUsed == DOMAIN Kinds
SessionSymmetry == Permutations(Sessions)

MaxApplied == 6
FewApplied == Cardinality({d \in DatagramIds : applied[d] > 0}) <= MaxApplied

=============================================================================
