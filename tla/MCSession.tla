------------------------------- MODULE MCSession -------------------------------
(* The constants are given by the configurations.                          *)
EXTENDS Session

=============================================================================
