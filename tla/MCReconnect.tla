------------------------------ MODULE MCReconnect ------------------------------
(* Two receivers; the sender takes any, or the one of a name.              *)
EXTENDS Reconnect

CONSTANTS r1, r2
AnyOrOne == {{}, {r1}}

=============================================================================
