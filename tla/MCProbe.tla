-------------------------------- MODULE MCProbe --------------------------------
(* Two steps of two probes, two trains, one restart of the receiver and two *)
(* reports on the way, which may overtake each other; all probes of both  *)
(* trains may be on the way at once.                                       *)
EXTENDS Probe

=============================================================================
