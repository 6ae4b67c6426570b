-------------------------- MODULE MCResponseStream --------------------------
(* Instance of ResponseStream: a body of up to three events, both limits set. *)
EXTENDS ResponseStream
=============================================================================
