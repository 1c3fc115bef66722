---------------------------- MODULE MCScrubSysfs ----------------------------
(* An instance of ScrubSysfs for TLC: numbers around the capacities and     *)
(* around the limits of the int attributes.                                 *)
EXTENDS ScrubSysfs
Numbers == {-1, 0, 1, 4, 5, 7, 8, 9, 17, 32, 33, 64}
=============================================================================
