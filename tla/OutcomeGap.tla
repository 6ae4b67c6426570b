----------------------------- MODULE OutcomeGap -----------------------------
(***************************************************************************)
(* The accumulator of lost outcome records (internal/proxy/outcome_gap.go) *)
(* with its fixed two slots, one per gap source, and its single in-flight  *)
(* claim.  Every operation is one critical section of its mutex.           *)
(*                                                                         *)
(* A gap summary keeps a count, the first and the last record and a time   *)
(* range of what it stands for; here it keeps the set of the requests it   *)
(* stands for, of which those are functions.  hasCurrent is current.lost   *)
(* # {}: the code sets the flag exactly when it adds a count of at least   *)
(* one.  Generations and claim identifiers are naturals: their saturation  *)
(* at 2^64 - 1 is out of reach of any run of the program.                  *)
(***************************************************************************)
EXTENDS Naturals

CONSTANT Requests  \* one per request, each of which dispatches one snapshot

VARIABLES
  slots,     \* [Sources -> [generation, current]]
  claimed,   \* the claim that waits for Commit or Merge
  inFlight,
  nextID

gapVars == <<slots, claimed, inFlight, nextID>>

Sources == {"session_queue_full", "session_log_sink"}

Summary   == [generation: Nat, lost: SUBSET Requests]
NoSummary == [generation |-> 0, lost |-> {}]
NoClaim   == [id |-> 0, slots |-> [s \in Sources |-> NoSummary]]

GapTypeOK ==
  /\ slots \in [Sources -> [generation: Nat, current: Summary]]
  /\ claimed \in [id: Nat, slots: [Sources -> Summary]]
  /\ inFlight \in BOOLEAN
  /\ nextID \in Nat

GapInit ==
  /\ slots = [s \in Sources |-> [generation |-> 0, current |-> NoSummary]]
  /\ claimed = NoClaim
  /\ inFlight = FALSE
  /\ nextID = 0

\* Generation is advanced by every loss and never by Claim, Commit or Merge.
Accumulated(slot, r) ==
  LET generation == slot.generation + 1
  IN  [generation |-> generation,
       current |-> [generation |-> generation, lost |-> slot.current.lost \cup {r}]]

Accumulate(source, r) ==
  /\ slots' = [slots EXCEPT ![source] = Accumulated(@, r)]
  /\ UNCHANGED <<claimed, inFlight, nextID>>

HasCurrent(source) == slots[source].current.lost # {}

ClaimOf(id) ==
  [id |-> id,
   slots |-> [s \in Sources |-> IF HasCurrent(s) THEN slots[s].current ELSE NoSummary]]

Emptied(slot) == [slot EXCEPT !.current = [generation |-> slot.generation, lost |-> {}]]

\* Claim with nothing to claim still uses up an identifier.
Claim ==
  IF inFlight THEN UNCHANGED gapVars
  ELSE /\ nextID' = nextID + 1
       /\ IF \E s \in Sources : HasCurrent(s)
          THEN /\ claimed' = ClaimOf(nextID + 1)
               /\ inFlight' = TRUE
               /\ slots' = [s \in Sources |->
                              IF HasCurrent(s) THEN Emptied(slots[s]) ELSE slots[s]]
          ELSE UNCHANGED <<slots, claimed, inFlight>>

\* The scopes a commit of the claim may recover: nothing was lost in them
\* since they were claimed.
Recoverable ==
  {s \in Sources :
     /\ claimed.slots[s].lost # {}
     /\ ~HasCurrent(s)
     /\ slots[s].generation = claimed.slots[s].generation}

Owns(id) == inFlight /\ id # 0 /\ id = claimed.id

Commit(id) ==
  IF Owns(id)
  THEN /\ claimed' = NoClaim
       /\ inFlight' = FALSE
       /\ UNCHANGED <<slots, nextID>>
  ELSE UNCHANGED gapVars

\* Mutated form: what was lost since the claim is overwritten by it.
MergedOverwriting(slot, summary) ==
  [generation |-> slot.generation,
   current |-> [generation |-> slot.generation, lost |-> summary.lost]]

\* A claim that could not be written goes back into the current summaries.
Merged(slot, summary) ==
  LET generation == IF slot.generation < summary.generation
                    THEN summary.generation ELSE slot.generation
  IN  [generation |-> generation,
       current |-> [generation |-> generation,
                    lost |-> slot.current.lost \cup summary.lost]]

\* Mutated form: the claim is dropped instead.
MergeDropping(id) == Commit(id)

Merge(id) ==
  IF Owns(id)
  THEN /\ slots' = [s \in Sources |->
                      IF claimed.slots[s].lost = {} THEN slots[s]
                      ELSE Merged(slots[s], claimed.slots[s])]
       /\ claimed' = NoClaim
       /\ inFlight' = FALSE
       /\ UNCHANGED nextID
  ELSE UNCHANGED gapVars
=============================================================================
