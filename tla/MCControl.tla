------------------------------- MODULE MCControl -------------------------------
(* Two commands and two daemons over two ports.  Two gains besides the     *)
(* default 0, so that two volume commands differ from each other and from  *)
(* the start; one other setting, for the commands that leave the gain      *)
(* alone.  One permit, so that the second request is dropped.              *)
EXTENDS Control, TLC

AllGains == {1, 2}
AllSettings == [master : {0} \cup AllGains, device : {0, 1}]
NoSettings == [master |-> 0, device |-> 0]
SetDevice(n) == [s \in AllSettings |-> [s EXCEPT !.device = n]]
AllChanges == {SetMaster(g) : g \in AllGains} \cup {SetDevice(n) : n \in {0, 1}}
Symmetry == Permutations(Clients) \cup Permutations(Daemons) \cup Permutations(Ports)

=============================================================================
