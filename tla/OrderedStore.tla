---------------------------- MODULE OrderedStore ----------------------------
(***************************************************************************)
(* What the persistence writer promises for ordinary state: every accepted *)
(* write is tried exactly once, the writes of one key in the order of      *)
(* their acceptance, and every submission gets exactly one answer.         *)
(***************************************************************************)
EXTENDS Sequences

CONSTANTS Ops, Deletes, Keys, KeyOf, NoOp

VARIABLES
  queue,   \* [Keys -> the accepted writes not yet tried]
  disk,    \* [Keys -> the write whose value is stored, or NoOp]
  answer   \* [Ops -> "none", or what the submitter is told]

vars == <<queue, disk, answer>>

Init ==
  /\ queue = [k \in Keys |-> <<>>]
  /\ disk = [k \in Keys |-> NoOp]
  /\ answer = [op \in Ops |-> "none"]

Queued(op) == \E i \in DOMAIN queue[KeyOf[op]] : queue[KeyOf[op]][i] = op

Accept(op) ==
  /\ answer[op] = "none" /\ ~Queued(op)
  /\ queue' = [queue EXCEPT ![KeyOf[op]] = Append(@, op)]
  /\ UNCHANGED <<disk, answer>>

Refuse(op) ==
  /\ answer[op] = "none" /\ ~Queued(op)
  /\ answer' = [answer EXCEPT ![op] = "unavailable"]
  /\ UNCHANGED <<queue, disk>>

Try(key) ==
  /\ queue[key] # <<>>
  /\ queue' = [queue EXCEPT ![key] = Tail(@)]
  /\ LET op == Head(queue[key]) IN
     \/ /\ answer' = [answer EXCEPT ![op] = "saved"]
        /\ disk' = [disk EXCEPT ![key] = IF op \in Deletes THEN NoOp ELSE op]
     \/ /\ answer' = [answer EXCEPT ![op] = "failed"]
        /\ UNCHANGED disk

Next ==
  \/ \E op \in Ops : Accept(op) \/ Refuse(op)
  \/ \E key \in Keys : Try(key)

\* What may happen to a write, without the promise that it is tried.
SafeSpec == Init /\ [][Next]_vars

Spec == SafeSpec /\ \A key \in Keys : WF_vars(Try(key))
=============================================================================
