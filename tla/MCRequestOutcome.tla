-------------------------- MODULE MCRequestOutcome --------------------------
(* Instances of RequestOutcome for TLC. *)
EXTENDS RequestOutcome

CONSTANTS o1, o2, a, b, r1

MCKeyOf == [op \in Ops |-> IF op = o2 THEN b ELSE a]
MCOwnerOne == [op \in Ops |-> r1]
=============================================================================
