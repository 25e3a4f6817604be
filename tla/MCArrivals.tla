------------------------------ MODULE MCArrivals ------------------------------
(* Ten datagrams of which the first and the fifth say HELLO, through a     *)
(* window of five: numbers fall behind by up to a window, every slide from *)
(* 1 to more than Window happens, and a packet given up (Reorder is 2) can *)
(* still come.  With a slack of 2 there are walks of 1 to 3 numbers and    *)
(* jumps of up to 5.                                                       *)
EXTENDS Arrivals

MaxSeq == 10
SeqsUpToMax == 0 .. MaxSeq
Audio == 1 .. 8
Numbers == [c \in SeqsUpToMax |-> IF c \in {0, 1, 5} THEN 0 ELSE IF c < 5 THEN c - 1 ELSE c - 2]

=============================================================================
