-------------------------- MODULE OutcomeDelivery --------------------------
(***************************************************************************)
(* What the session lane promises for the outcome of each request: an      *)
(* admitted record is delivered to its session file or it is lost, and a   *)
(* lost record may only go on to be recorded as a gap in the process log.  *)
(* Nothing admitted is forgotten, a delivered record is never taken back,  *)
(* and a record accepted by the lane does not stay undecided.              *)
(***************************************************************************)
CONSTANT Requests

VARIABLE fate

Fates == {"new", "refused", "accepted", "delivered", "lost", "recorded"}

Init == fate = [r \in Requests |-> "new"]

Move(r, from, to) ==
  /\ fate[r] \in from
  /\ fate' = [fate EXCEPT ![r] = to]

\* Admission decides on the spot: accepted, lost to a full lane, or refused
\* because the process is closing.
Admit(r) == \E to \in {"accepted", "lost", "refused"} : Move(r, {"new"}, to)

Settle(r) == \E to \in {"delivered", "lost"} : Move(r, {"accepted"}, to)

\* One gap record accounts for any number of lost records.
RecordGap ==
  \E S \in SUBSET {r \in Requests : fate[r] = "lost"} :
    fate' = [r \in Requests |-> IF r \in S THEN "recorded" ELSE fate[r]]

Next == (\E r \in Requests : Admit(r) \/ Settle(r)) \/ RecordGap

\* What may happen to a record, without the promise that it does.
SafeSpec == Init /\ [][Next]_fate

Spec == SafeSpec /\ \A r \in Requests : WF_fate(Settle(r))
=============================================================================
