-------------------------------- MODULE MCAdapt --------------------------------
(* A clean path, a middling one, and a poor one on which the sender wants  *)
(* the largest buffer; the jitters are no multiples of the receiver's step *)
(* of 5 ms.                                                                *)
EXTENDS Adapt

ThreePaths ==
  {[rank |-> 0, jitter |-> 7, rtt |-> 0],
   [rank |-> 1, jitter |-> 13, rtt |-> 4],
   [rank |-> 2, jitter |-> 12, rtt |-> 60]}

=============================================================================
