------------------------- MODULE MCRequestPipeline -------------------------
(* Instances of RequestPipeline for TLC. *)
EXTENDS RequestPipeline

MCTwoTools == {<<"tool", "tool">>}
MCBeginnings == {<<"plan">>}
=============================================================================
