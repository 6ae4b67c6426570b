------------------------ MODULE MCPersistenceWriter ------------------------
(* An instance of PersistenceWriter for TLC. *)
EXTENDS PersistenceWriter

CONSTANTS a1, a2, a3, b1, a, b

MCKeyOf == [op \in Ops |-> IF op = b1 THEN b ELSE a]
=============================================================================
