--------------------------- MODULE MCFrozenStubs ---------------------------
(* Instances of FrozenStubs for TLC. *)
EXTENDS FrozenStubs, TLC

CONSTANTS x, y, q1, q2

MCHistories == {<<x, y>>, <<y, y>>}
MCEarlier == {<<x, y>>}

SameHandlers == Permutations(Requests)
=============================================================================
