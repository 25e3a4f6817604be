------------------------------- MODULE MCDevices -------------------------------
(* Three devices and two indices: an index names another device when an    *)
(* earlier one is unplugged, and sometimes none.  The grace and the        *)
(* patience are those of the code; the horizon is one second beyond the    *)
(* longer of the two bounds.  Of names only equality matters: with two     *)
(* there are devices that share one, that differ, and that have none.      *)
EXTENDS Devices

Three == {1, 2, 3}
TwoNames == {Nameless, "speakers"}
DefaultOrIndex == {Default, 0, 1}

=============================================================================
