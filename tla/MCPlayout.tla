------------------------------- MODULE MCPlayout -------------------------------
(* Six packets of two frames through a window of three and a buffer of     *)
(* two slots: overflow, starvation, restart, late arrival and, from number *)
(* 1 to 6, a jump of more than two buffers all happen.  A pull of 1 frame  *)
(* stops inside a packet, one of 5 runs over three.                        *)
EXTENDS Playout

MaxSeq == 6
SeqsUpToMax == 1 .. MaxSeq
AllTargets == 1 .. MaxSlots
SomePulls == {1, 5}

=============================================================================
