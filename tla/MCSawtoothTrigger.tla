------------------------- MODULE MCSawtoothTrigger -------------------------
(* Instances of SawtoothTrigger for TLC: two requests that overlap. *)
EXTENDS SawtoothTrigger

CONSTANTS q1, q2
=============================================================================
