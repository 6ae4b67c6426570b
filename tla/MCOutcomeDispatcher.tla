------------------------ MODULE MCOutcomeDispatcher ------------------------
(* An instance of OutcomeDispatcher for TLC. *)
EXTENDS OutcomeDispatcher

CONSTANTS r1, r2, r3
=============================================================================
