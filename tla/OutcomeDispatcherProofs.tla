----------------------- MODULE OutcomeDispatcherProofs -----------------------
(***************************************************************************)
(* Proofs about OutcomeDispatcher, for any set of requests and any lane    *)
(* capacities.                                                             *)
(***************************************************************************)
EXTENDS OutcomeDispatcher, TLAPS

(***************************************************************************)
(* Type correctness, component by component.                               *)
(***************************************************************************)

\* Every operation of the gap accumulator keeps its type.
LEMMA AccumulateType ==
  ASSUME GapTypeOK, NEW s \in Sources, NEW r \in Requests, Accumulate(s, r)
  PROVE  /\ GapTypeOK'
         /\ slots'[s].generation \in Nat
BY DEF GapTypeOK, Accumulate, Accumulated, Summary

\* A claim moves summaries and keeps the accumulator typed.
LEMMA ClaimType ==
  ASSUME GapTypeOK, Claim
  PROVE  GapTypeOK'
<1>1. CASE UNCHANGED gapVars
  BY <1>1 DEF GapTypeOK, gapVars
<1>2. CASE ~UNCHANGED gapVars
  <2>1. ~inFlight /\ nextID' = nextID + 1
    BY <1>2 DEF Claim
  <2>2. CASE UNCHANGED <<slots, claimed, inFlight>>
    BY <2>1, <2>2 DEF GapTypeOK
  <2>3. CASE ~UNCHANGED <<slots, claimed, inFlight>>
    <3>1. /\ claimed' = ClaimOf(nextID + 1)
          /\ inFlight' = TRUE
          /\ slots' = [s \in Sources |->
                         IF HasCurrent(s) THEN Emptied(slots[s]) ELSE slots[s]]
      BY <2>1, <2>3 DEF Claim
    <3>2. claimed' \in [id: Nat, slots: [Sources -> Summary]]
      BY <3>1 DEF GapTypeOK, ClaimOf, NoSummary, Summary
    <3>3. slots' \in [Sources -> [generation: Nat, current: Summary]]
      BY <3>1 DEF GapTypeOK, Emptied, Summary
    <3>4. QED
      BY <2>1, <3>1, <3>2, <3>3 DEF GapTypeOK
  <2>4. QED
    BY <2>2, <2>3
<1>3. QED
  BY <1>1, <1>2

\* The empty claim is a claim.
LEMMA NoClaimType == NoClaim \in [id: Nat, slots: [Sources -> Summary]]
BY DEF NoClaim, NoSummary, Summary

\* Committing a claim keeps the accumulator typed.
LEMMA CommitType ==
  ASSUME GapTypeOK, NEW id \in Nat, Commit(id)
  PROVE  GapTypeOK'
BY NoClaimType DEF GapTypeOK, Commit, gapVars

\* Merging a claim back keeps the accumulator typed.
LEMMA MergeType ==
  ASSUME GapTypeOK, NEW id \in Nat, Merge(id)
  PROVE  GapTypeOK'
<1>1. CASE UNCHANGED gapVars
  BY <1>1 DEF GapTypeOK, gapVars
<1>2. CASE Owns(id)
  <2>1. slots' \in [Sources -> [generation: Nat, current: Summary]]
    BY <1>2 DEF GapTypeOK, Merge, Merged, Summary
  <2>2. QED
    BY <1>2, <2>1, NoClaimType DEF GapTypeOK, Merge
<1>3. QED
  BY <1>1, <1>2 DEF Merge

\* Every operation of the health tracker keeps its type.
LEMMA HealthType ==
  ASSUME HealthTypeOK, NEW s \in HealthScopes, NEW g \in Nat,
         ObserveFailure(s, g) \/ ObserveGapCommit(s, g)
  PROVE  HealthTypeOK'
<1>1. CASE ObserveFailure(s, g)
  <2>1. FailureGeneration(s, g) \in Nat
    BY DEF HealthTypeOK, HealthState, FailureGeneration
  <2>2. QED
    BY <1>1, <2>1 DEF HealthTypeOK, HealthState, ObserveFailure
<1>2. CASE ObserveGapCommit(s, g)
  BY <1>2 DEF HealthTypeOK, HealthState, ObserveGapCommit
<1>3. QED
  BY <1>1, <1>2

\* Every gap source is a health scope, and the two the code names are gap sources.
LEMMA Scopes == Sources \subseteq HealthScopes /\ QueueFull \in Sources /\ LogSink \in Sources
BY DEF Sources, HealthScopes, GapScopes, QueueFull, LogSink

\* The accumulator's type survives a step that leaves it alone.
LEMMA GapTypeUnchanged == GapTypeOK /\ UNCHANGED gapVars => GapTypeOK'
BY DEF GapTypeOK, gapVars

\* The tracker's type survives a step that leaves it alone.
LEMMA HealthTypeUnchanged == HealthTypeOK /\ UNCHANGED health => HealthTypeOK'
BY DEF HealthTypeOK

\* The lanes' and the requests' types survive a step that leaves them alone.
LEMMA DispatchTypeUnchanged ==
  LaneTypeOK /\ RequestTypeOK /\ UNCHANGED dispatchVars => LaneTypeOK' /\ RequestTypeOK'
BY DEF LaneTypeOK, RequestTypeOK, dispatchVars

\* The files' type survives a step that leaves them alone.
LEMMA FileTypeUnchanged == FileTypeOK /\ UNCHANGED fileVars => FileTypeOK'
BY DEF FileTypeOK, fileVars

\* The session worker's type survives a step that leaves it alone.
LEMMA WorkerTypeUnchanged == WorkerTypeOK /\ UNCHANGED worker => WorkerTypeOK'
BY DEF WorkerTypeOK

\* Every step keeps the state of the dispatcher, of the accumulator and of the
\* health tracker within its types, and both lanes within their capacities.
LEMMA TypeStep == TypeOK /\ [Next]_vars => TypeOK'
<1> SUFFICES ASSUME TypeOK, [Next]_vars PROVE TypeOK'
  OBVIOUS
<1> USE GapTypeUnchanged, HealthTypeUnchanged, DispatchTypeUnchanged,
        FileTypeUnchanged, WorkerTypeUnchanged DEF TypeOK
<1>1. ASSUME NEW r \in Requests, TryDispatch(r) PROVE TypeOK'
  <2>1. sessionQueue' \in Seq(Requests) /\ Len(sessionQueue') <= SessionCapacity
    BY <1>1, DispatcherAssumption DEF TryDispatch, SessionFits, LaneTypeOK
  <2>2. /\ terminalQueue' \in Seq(TerminalJob)
        /\ Len(terminalQueue') <= TerminalCapacity
    <3> DEFINE session == IF Len(sessionQueue) < SessionCapacity
                          THEN "accepted" ELSE "rejected"
               job     == [request |-> r, session |-> session]
    <3>1. job \in TerminalJob
      BY DEF TerminalJob
    <3> HIDE DEF job
    <3>2. \/ terminalQueue' = terminalQueue
          \/ terminalQueue' = Append(terminalQueue, job) /\ Len(terminalQueue) < TerminalCapacity
      BY <1>1 DEF TryDispatch, SessionFits, TerminalFits, SessionResult, TerminalJobOf, job
    <3>3. QED
      BY <3>1, <3>2, DispatcherAssumption DEF LaneTypeOK
  <2>3. LaneTypeOK'
    BY <1>1, <2>1, <2>2 DEF TryDispatch, LaneTypeOK
  <2>4. RequestTypeOK'
    BY <1>1 DEF TryDispatch, SessionFits, TerminalFits, SessionResult, TerminalJobOf, RequestTypeOK, Admission
  <2>5. QED
    BY <1>1, <2>3, <2>4 DEF TryDispatch, SessionFits, TerminalFits, SessionResult, TerminalJobOf
<1>2. ASSUME NEW r \in Requests, RefuseDispatch(r) PROVE TypeOK'
  <2>1. LaneTypeOK' /\ RequestTypeOK'
    BY <1>2 DEF RefuseDispatch, LaneTypeOK, RequestTypeOK, Admission
  <2>2. QED
    BY <1>2, <2>1 DEF RefuseDispatch
<1>3. ASSUME NEW r \in Requests, AccumulateQueueFull(r) PROVE TypeOK'
  <2>1. GapTypeOK' /\ slots'[QueueFull].generation \in Nat
    BY <1>3, AccumulateType, Scopes DEF AccumulateQueueFull
  <2>2. LaneTypeOK' /\ RequestTypeOK'
    BY <1>3, <2>1 DEF AccumulateQueueFull, LaneTypeOK, RequestTypeOK
  <2>3. QED
    BY <1>3, <2>1, <2>2 DEF AccumulateQueueFull
<1>4. ASSUME NEW r \in Requests, ObserveQueueFull(r) PROVE TypeOK'
  <2>1. HealthTypeOK'
    BY <1>4, HealthType, Scopes DEF ObserveQueueFull, RequestTypeOK
  <2>2. LaneTypeOK' /\ RequestTypeOK'
    BY <1>4 DEF ObserveQueueFull, LaneTypeOK, RequestTypeOK
  <2>3. QED
    BY <1>4, <2>1, <2>2 DEF ObserveQueueFull
<1>5. CASE TakeSession
  <2>1. LaneTypeOK' /\ RequestTypeOK'
    BY <1>5, DispatcherAssumption DEF TakeSession, LaneTypeOK, RequestTypeOK
  <2>2. Head(sessionQueue) \in Requests
    BY <1>5 DEF TakeSession, LaneTypeOK
  <2>3. WorkerTypeOK'
    BY <1>5, <2>2 DEF TakeSession, WorkerTypeOK, WorkerPC
  <2>4. QED
    BY <1>5, <2>1, <2>3 DEF TakeSession
<1>6. CASE WriteClosure
  <2>1. FileTypeOK' /\ WorkerTypeOK'
    BY <1>6 DEF WriteClosure, FileTypeOK, WorkerTypeOK, WorkerPC
  <2>2. QED
    BY <1>6, <2>1 DEF WriteClosure
<1>7. CASE AccumulateSink
  <2>1. PICK r \in worker.job : Accumulate(LogSink, r)
    BY <1>7 DEF AccumulateSink
  <2>2. GapTypeOK' /\ slots'[LogSink].generation \in Nat
    BY <2>1, AccumulateType, Scopes DEF WorkerTypeOK
  <2>3. WorkerTypeOK'
    BY <1>7, <2>2 DEF AccumulateSink, WorkerTypeOK, WorkerPC
  <2>4. QED
    BY <1>7, <2>2, <2>3 DEF AccumulateSink
<1>8. CASE ObserveSink
  <2>1. HealthTypeOK'
    BY <1>8, HealthType, Scopes DEF ObserveSink, WorkerTypeOK
  <2>2. WorkerTypeOK'
    BY <1>8 DEF ObserveSink, WorkerTypeOK, WorkerPC, Idle
  <2>3. QED
    BY <1>8, <2>1, <2>2 DEF ObserveSink
<1>9. CASE ClaimGaps
  <2>1. GapTypeOK'
    BY <1>9, ClaimType DEF ClaimGaps
  <2>2. WorkerTypeOK'
    BY <1>9, <2>1 DEF ClaimGaps, WorkerTypeOK, WorkerPC, Idle, GapTypeOK
  <2>3. QED
    BY <1>9, <2>1, <2>2 DEF ClaimGaps
<1>10. CASE WriteGapRecord
  <2>1. WithRecord \in [Sources -> SUBSET Requests]
    BY DEF WithRecord, FileTypeOK, GapTypeOK, Summary
  <2>2. FileTypeOK' /\ WorkerTypeOK'
    BY <1>10, <2>1 DEF WriteGapRecord, FileTypeOK, WorkerTypeOK, WorkerPC
  <2>3. QED
    BY <1>10, <2>2 DEF WriteGapRecord
<1>11. CASE MergeGaps
  <2>1. GapTypeOK'
    BY <1>11, MergeType DEF MergeGaps, WorkerTypeOK
  <2>2. WorkerTypeOK'
    BY <1>11 DEF MergeGaps, WorkerTypeOK, WorkerPC, Idle
  <2>3. QED
    BY <1>11, <2>1, <2>2 DEF MergeGaps
<1>12. CASE CommitGaps
  <2>1. GapTypeOK'
    BY <1>12, CommitType DEF CommitGaps, WorkerTypeOK
  <2>2. WorkerTypeOK'
    BY <1>12 DEF CommitGaps, WorkerTypeOK, WorkerPC, GapTypeOK, Summary
  <2>3. QED
    BY <1>12, <2>1, <2>2 DEF CommitGaps
<1>13. ASSUME NEW s \in Sources, ObserveCommit(s) PROVE TypeOK'
  <2>1. HealthTypeOK'
    BY <1>13, HealthType, Scopes DEF ObserveCommit, WorkerTypeOK
  <2>2. WorkerTypeOK'
    BY <1>13 DEF ObserveCommit, WorkerTypeOK
  <2>3. QED
    BY <1>13, <2>1, <2>2 DEF ObserveCommit
<1>14. CASE EndReplay
  <2>1. WorkerTypeOK'
    BY <1>14 DEF EndReplay, WorkerTypeOK, WorkerPC, Idle
  <2>2. QED
    BY <1>14, <2>1 DEF EndReplay
<1>15. CASE StopSession
  <2>1. WorkerTypeOK'
    BY <1>15 DEF StopSession, WorkerTypeOK, WorkerPC
  <2>2. QED
    BY <1>15, <2>1 DEF StopSession
<1>16. CASE EmitTerminal
  <2>1. LaneTypeOK'
    BY <1>16, DispatcherAssumption DEF EmitTerminal, LaneTypeOK
  <2>2. RequestTypeOK'
    BY <1>16 DEF EmitTerminal, LaneTypeOK, RequestTypeOK, TerminalJob
  <2>3. QED
    BY <1>16, <2>1, <2>2 DEF EmitTerminal
<1>17. CASE BeginClose
  <2>1. LaneTypeOK' /\ RequestTypeOK'
    BY <1>17 DEF BeginClose, LaneTypeOK, RequestTypeOK
  <2>2. QED
    BY <1>17, <2>1 DEF BeginClose
<1>18. CASE EndClose
  <2>1. LaneTypeOK' /\ RequestTypeOK'
    BY <1>18 DEF EndClose, LaneTypeOK, RequestTypeOK
  <2>2. QED
    BY <1>18, <2>1 DEF EndClose
<1>19. CASE UNCHANGED vars
  BY <1>19 DEF vars
<1> QED
  BY <1>1, <1>2, <1>3, <1>4, <1>5, <1>6, <1>7, <1>8, <1>9, <1>10, <1>11, <1>12, <1>13,
     <1>14, <1>15, <1>16, <1>17, <1>18, <1>19 DEF Next, Request, SessionWorker

\* The initial state is typed.
LEMMA InitType == Init => TypeOK
<1> SUFFICES ASSUME Init PROVE TypeOK
  OBVIOUS
<1>1. GapTypeOK
  BY NoClaimType DEF Init, GapInit, GapTypeOK, NoSummary, Summary
<1>2. HealthTypeOK
  BY DEF Init, HealthInit, HealthTypeOK, HealthState
<1>3. LaneTypeOK
  <2>1. closing \in BOOLEAN /\ drained \in BOOLEAN
    BY DEF Init
  <2>2. sessionQueue \in Seq(Requests) /\ Len(sessionQueue) <= SessionCapacity
    BY DispatcherAssumption DEF Init
  <2>3. terminalQueue \in Seq(TerminalJob) /\ Len(terminalQueue) <= TerminalCapacity
    BY DispatcherAssumption DEF Init
  <2>4. QED
    BY <2>1, <2>2, <2>3 DEF LaneTypeOK
<1>4. RequestTypeOK
  <2>1. NotDispatched \in Admission
    BY DEF NotDispatched, Admission
  <2>2. QED
    BY <2>1 DEF Init, RequestTypeOK
<1>5. WorkerTypeOK /\ FileTypeOK
  BY DEF Init, WorkerTypeOK, FileTypeOK, WorkerPC, NoCommit
<1>6. QED
  BY <1>1, <1>2, <1>3, <1>4, <1>5 DEF TypeOK

\* The dispatcher's state stays within its types: in particular neither lane ever
\* holds more than its fixed capacity.
THEOREM TypeCorrect == Spec => []TypeOK
BY InitType, TypeStep, PTL DEF Spec

(***************************************************************************)
(* A scope is never silently healthy.                                      *)
(***************************************************************************)
IInv == TypeOK /\ GenerationInv /\ AnnouncerInv

\* The bookkeeping of one scope carries over when its state does and nobody
\* stops announcing.
LEMMA ScopeUnchanged ==
  ASSUME NEW s \in Sources, ScopeInv(s),
         UNCHANGED <<slots[s], claimed, inFlight, health[s]>>,
         \A g \in Nat : Announcing(s, g) => Announcing(s, g)',
         slots[s].generation \in Nat
  PROVE  ScopeInv(s)'
BY DEF ScopeInv, HasCurrent, Pending

\* The two gap sources are distinct and there is no third.
LEMMA Disjoint == QueueFull # LogSink /\ Sources = {QueueFull, LogSink}
BY DEF QueueFull, LogSink, Sources

\* The generations that the accounting compares are naturals.
LEMMA GenerationTypes ==
  ASSUME TypeOK, NEW s \in Sources
  PROVE  /\ slots[s].generation \in Nat
         /\ claimed.slots[s].generation \in Nat
         /\ health[s].latestGeneration \in Nat
         /\ health[s].degraded \in BOOLEAN
         /\ slots[s].current.generation \in Nat
BY Scopes DEF TypeOK, GapTypeOK, HealthTypeOK, HealthState, Summary

\* Every step of the goroutines, the workers and the shutdown keeps the accounting of
\* both scopes coherent.
LEMMA InvStep == IInv /\ [Next]_vars => IInv'
<1> SUFFICES ASSUME IInv, [Next]_vars PROVE GenerationInv' /\ AnnouncerInv'
  BY TypeStep DEF IInv
<1> USE DEF IInv
<1>t. TypeOK'
  BY TypeStep
<1> DEFINE Calm == /\ UNCHANGED <<slots, claimed, inFlight, health>>
                   /\ \A s \in Sources, g \in Nat : Announcing(s, g) => Announcing(s, g)'
<1>a. ASSUME Calm PROVE GenerationInv'
  BY <1>a, ScopeUnchanged, GenerationTypes DEF GenerationInv
<1>1. ASSUME NEW r \in Requests, TryDispatch(r) PROVE GenerationInv' /\ AnnouncerInv'
  <2>1. Calm
    BY <1>1 DEF TryDispatch, Announcing, gapVars, TypeOK, RequestTypeOK
  <2>2. AnnouncerInv'
    BY <1>1 DEF TryDispatch, AnnouncerInv, HasCurrent, gapVars, TypeOK, RequestTypeOK
  <2>3. QED
    BY <1>a, <2>1, <2>2
<1>2. ASSUME NEW r \in Requests, RefuseDispatch(r) PROVE GenerationInv' /\ AnnouncerInv'
  <2>1. Calm
    BY <1>2 DEF RefuseDispatch, Announcing, gapVars, TypeOK, RequestTypeOK
  <2>2. AnnouncerInv'
    BY <1>2 DEF RefuseDispatch, AnnouncerInv, HasCurrent, gapVars, TypeOK, RequestTypeOK
  <2>3. QED
    BY <1>a, <2>1, <2>2
<1>3. ASSUME NEW r \in Requests, AccumulateQueueFull(r) PROVE GenerationInv' /\ AnnouncerInv'
  <2> DEFINE g == slots[QueueFull].generation + 1
  <2>1. /\ slots' = [slots EXCEPT ![QueueFull] = Accumulated(slots[QueueFull], r)]
        /\ slots'[QueueFull] = Accumulated(slots[QueueFull], r)
        /\ slots'[LogSink] = slots[LogSink]
        /\ UNCHANGED <<claimed, inFlight, health, worker>>
    BY <1>3, Disjoint DEF AccumulateQueueFull, Accumulate, TypeOK, GapTypeOK
  <2>2. /\ slots'[QueueFull].generation = g
        /\ slots'[QueueFull].current.generation = g
        /\ slots'[QueueFull].current.lost # {}
    BY <2>1 DEF Accumulated
  <2>3. pc'[r] = "observe" /\ generation'[r] = g
    BY <1>3, <2>2 DEF AccumulateQueueFull, TypeOK, RequestTypeOK
  <2>4. \A q \in Requests \ {r} : pc'[q] = pc[q] /\ generation'[q] = generation[q]
    BY <1>3 DEF AccumulateQueueFull, TypeOK, RequestTypeOK
  <2>5. ScopeInv(QueueFull)'
    <3>1. Announcing(QueueFull, slots[QueueFull].generation)'
      BY <2>2, <2>3 DEF Announcing
    <3>2. QED
      BY <2>1, <2>2, <3>1, GenerationTypes, Scopes
      DEF ScopeInv, GenerationInv, HasCurrent, Pending
  <2>6. ScopeInv(LogSink)'
    <3>1. \A n \in Nat : Announcing(LogSink, n) => Announcing(LogSink, n)'
      BY <2>1, Disjoint DEF Announcing
    <3>2. QED
      BY <2>1, <3>1, ScopeUnchanged, GenerationTypes, Scopes DEF GenerationInv
  <2>7. AnnouncerInv'
    <3>1. \A q \in Requests : pc'[q] = "observe" => generation'[q] \in 1..g
      BY <2>3, <2>4, GenerationTypes, Scopes DEF AnnouncerInv
    <3>2. worker.pc = "observe_commit" =>
            \A s \in Sources :
              /\ worker.committed[s] <= slots'[s].generation
              /\ worker.committed[s] # 0 /\ HasCurrent(s)' =>
                   worker.committed[s] < slots'[s].generation
      BY <2>1, <2>2, GenerationTypes, Disjoint, Scopes
      DEF AnnouncerInv, HasCurrent, TypeOK, WorkerTypeOK
    <3>3. QED
      BY <2>1, <2>2, <3>1, <3>2, Disjoint DEF AnnouncerInv
  <2>8. QED
    BY <2>5, <2>6, <2>7, Disjoint DEF GenerationInv
<1>4. ASSUME NEW r \in Requests, ObserveQueueFull(r) PROVE GenerationInv' /\ AnnouncerInv'
  <2> DEFINE g     == generation[r]
             heard == health[QueueFull].latestGeneration
  <2>1. /\ g \in 1..slots[QueueFull].generation
        /\ pc[r] = "observe" /\ pc'[r] = "done"
        /\ UNCHANGED <<slots, claimed, inFlight, worker, generation>>
        /\ \A q \in Requests \ {r} : pc'[q] = pc[q]
    BY <1>4 DEF ObserveQueueFull, AnnouncerInv, gapVars, TypeOK, RequestTypeOK
  <2>2. /\ health'[QueueFull].degraded = TRUE
        /\ health'[QueueFull].latestGeneration = IF g < heard THEN heard ELSE g
        /\ health'[LogSink] = health[LogSink]
    BY <1>4, <2>1, GenerationTypes, Scopes, Disjoint
    DEF ObserveQueueFull, ObserveFailure, FailureGeneration, TypeOK, HealthTypeOK
  <2>3. ScopeInv(QueueFull)'
    <3>1. ASSUME health'[QueueFull].latestGeneration < slots[QueueFull].generation
          PROVE  Announcing(QueueFull, slots[QueueFull].generation)'
      <4>1. Announcing(QueueFull, slots[QueueFull].generation)
        BY <2>1, <2>2, <3>1, GenerationTypes, Scopes DEF ScopeInv, GenerationInv
      <4>2. PICK q \in Requests : pc[q] = "observe" /\ generation[q] = slots[QueueFull].generation
        BY <4>1, Disjoint DEF Announcing
      <4>3. q # r
        BY <2>1, <2>2, <3>1, <4>2, GenerationTypes, Scopes
      <4>4. QED
        BY <2>1, <4>2, <4>3 DEF Announcing
    <3>2. QED
      BY <2>1, <2>2, <3>1, GenerationTypes, Scopes
      DEF ScopeInv, GenerationInv, HasCurrent, Pending
  <2>4. ScopeInv(LogSink)'
    <3>1. \A n \in Nat : Announcing(LogSink, n) => Announcing(LogSink, n)'
      BY <2>1, Disjoint DEF Announcing
    <3>2. QED
      BY <2>1, <2>2, <3>1, ScopeUnchanged, GenerationTypes, Scopes DEF GenerationInv
  <2>5. AnnouncerInv'
    BY <2>1 DEF AnnouncerInv, HasCurrent
  <2>6. QED
    BY <2>3, <2>4, <2>5, Disjoint DEF GenerationInv
<1>5. CASE TakeSession
  <2>1. Calm
    BY <1>5 DEF TakeSession, Announcing, gapVars, TypeOK, WorkerTypeOK
  <2>2. AnnouncerInv'
    BY <1>5 DEF TakeSession, AnnouncerInv, HasCurrent, gapVars, TypeOK, WorkerTypeOK
  <2>3. QED
    BY <1>a, <2>1, <2>2
<1>6. CASE WriteClosure
  <2>1. Calm
    BY <1>6 DEF WriteClosure, Announcing, gapVars, dispatchVars, TypeOK, WorkerTypeOK
  <2>2. AnnouncerInv'
    BY <1>6 DEF WriteClosure, AnnouncerInv, HasCurrent, gapVars, dispatchVars, TypeOK,
                WorkerTypeOK
  <2>3. QED
    BY <1>a, <2>1, <2>2
<1>7. CASE AccumulateSink
  <2> DEFINE g == slots[LogSink].generation + 1
  <2>1. PICK r \in worker.job : Accumulate(LogSink, r)
    BY <1>7 DEF AccumulateSink
  <2>2. /\ slots'[LogSink] = Accumulated(slots[LogSink], r)
        /\ slots'[QueueFull] = slots[QueueFull]
        /\ UNCHANGED <<claimed, inFlight, health, pc, generation>>
    BY <1>7, <2>1, Disjoint
    DEF AccumulateSink, Accumulate, TypeOK, GapTypeOK, dispatchVars
  <2>3. /\ slots'[LogSink].generation = g
        /\ slots'[LogSink].current.generation = g
        /\ slots'[LogSink].current.lost # {}
    BY <2>2 DEF Accumulated
  <2>4. /\ worker'.pc = (IF worker.pc = "accumulate" THEN "observe" ELSE "observe_gap")
        /\ worker.pc \in {"accumulate", "accumulate_gap"}
        /\ worker'.generation = g
        /\ worker'.claim = worker.claim
    BY <1>7, <2>3 DEF AccumulateSink, TypeOK, WorkerTypeOK
  <2>5. ScopeInv(LogSink)'
    <3>1. Announcing(LogSink, slots[LogSink].generation)'
      BY <2>3, <2>4 DEF Announcing
    <3>2. QED
      BY <2>2, <2>3, <3>1, GenerationTypes, Scopes
      DEF ScopeInv, GenerationInv, HasCurrent, Pending
  <2>6. ScopeInv(QueueFull)'
    <3>1. \A n \in Nat : Announcing(QueueFull, n) => Announcing(QueueFull, n)'
      BY <2>2, Disjoint DEF Announcing
    <3>2. QED
      BY <2>2, <3>1, ScopeUnchanged, GenerationTypes, Scopes DEF GenerationInv
  <2>7. AnnouncerInv'
    BY <2>2, <2>3, <2>4, GenerationTypes, Scopes, Disjoint DEF AnnouncerInv
  <2>8. QED
    BY <2>5, <2>6, <2>7, Disjoint DEF GenerationInv
<1>8. CASE ObserveSink
  <2> DEFINE g     == worker.generation
             heard == health[LogSink].latestGeneration
  <2>1. /\ g \in 1..slots[LogSink].generation
        /\ worker.pc \in {"observe", "observe_gap"}
        /\ UNCHANGED <<slots, claimed, inFlight, pc, generation>>
    BY <1>8 DEF ObserveSink, AnnouncerInv, gapVars, dispatchVars
  <2>2. /\ health'[LogSink].degraded = TRUE
        /\ health'[LogSink].latestGeneration = IF g < heard THEN heard ELSE g
        /\ health'[QueueFull] = health[QueueFull]
    BY <1>8, <2>1, GenerationTypes, Scopes, Disjoint
    DEF ObserveSink, ObserveFailure, FailureGeneration, TypeOK, HealthTypeOK
  <2>3. ScopeInv(LogSink)'
    <3>1. heard < slots[LogSink].generation => g = slots[LogSink].generation
      BY GenerationTypes, Scopes, Disjoint DEF ScopeInv, GenerationInv, Announcing
    <3>2. QED
      BY <2>1, <2>2, <3>1, GenerationTypes, Scopes
      DEF ScopeInv, GenerationInv, HasCurrent, Pending
  <2>4. ScopeInv(QueueFull)'
    <3>1. \A n \in Nat : Announcing(QueueFull, n) => Announcing(QueueFull, n)'
      BY <2>1, Disjoint DEF Announcing
    <3>2. QED
      BY <2>1, <2>2, <3>1, ScopeUnchanged, GenerationTypes, Scopes DEF GenerationInv
  <2>5. AnnouncerInv'
    BY <1>8, <2>1 DEF ObserveSink, Idle, AnnouncerInv, HasCurrent, TypeOK, WorkerTypeOK
  <2>6. QED
    BY <2>3, <2>4, <2>5, Disjoint DEF GenerationInv
<1>9. CASE ClaimGaps
  <2>1. ~inFlight
    BY <1>9 DEF ClaimGaps, AnnouncerInv
  <2>2. UNCHANGED <<health, pc, generation>> /\ worker.pc = "claim"
    BY <1>9 DEF ClaimGaps, dispatchVars
  <2>3. worker'.pc \in {"write_gap", "wait"}
    BY <1>9 DEF ClaimGaps, Idle, TypeOK, WorkerTypeOK
  <2>4. \A s \in Sources, n \in Nat : Announcing(s, n) => Announcing(s, n)'
    BY <2>2 DEF Announcing
  <2>5. CASE UNCHANGED <<slots, claimed, inFlight>>
    <3>1. GenerationInv'
      BY <2>2, <2>4, <2>5, <1>a
    <3>2. AnnouncerInv'
      BY <1>9, <2>1, <2>2, <2>5 DEF ClaimGaps, AnnouncerInv, Idle, TypeOK, WorkerTypeOK
    <3>3. QED
      BY <3>1, <3>2
  <2>6. CASE ~UNCHANGED <<slots, claimed, inFlight>>
    <3>1. /\ claimed' = ClaimOf(nextID + 1)
          /\ inFlight' = TRUE
          /\ slots' = [s \in Sources |->
                         IF HasCurrent(s) THEN Emptied(slots[s]) ELSE slots[s]]
      BY <1>9, <2>1, <2>6 DEF ClaimGaps, Claim
    <3>2. ASSUME NEW s \in Sources PROVE ScopeInv(s)'
      <4>1. /\ slots'[s].generation = slots[s].generation
            /\ slots'[s].current.lost = {}
        BY <3>1, GenerationTypes DEF Emptied, HasCurrent, TypeOK, GapTypeOK, Summary
      <4>2. claimed'.slots[s] = IF HasCurrent(s) THEN slots[s].current ELSE NoSummary
        BY <3>1 DEF ClaimOf
      <4>3. claimed'.slots[s].generation <= slots[s].generation
        BY <4>2, GenerationTypes DEF ScopeInv, GenerationInv, NoSummary
      <4>4. Pending(s)' = Pending(s)
        BY <2>1, <4>1, <4>2 DEF Pending, HasCurrent, NoSummary, ScopeInv, GenerationInv
      <4>5. QED
        BY <2>2, <2>4, <3>1, <4>1, <4>3, <4>4, GenerationTypes
        DEF ScopeInv, GenerationInv, HasCurrent
    <3>3. AnnouncerInv'
      <4>1. worker'.claim = claimed'.id /\ claimed'.id # 0 /\ worker'.pc = "write_gap"
        BY <1>9, <3>1 DEF ClaimGaps, ClaimOf, TypeOK, WorkerTypeOK, GapTypeOK
      <4>2. slots'[QueueFull].generation = slots[QueueFull].generation
        BY <3>1, Scopes, GenerationTypes DEF Emptied, TypeOK, GapTypeOK, Summary
      <4>3. QED
        BY <2>2, <3>1, <4>1, <4>2 DEF AnnouncerInv
    <3>4. QED
      BY <3>2, <3>3 DEF GenerationInv
  <2>7. QED
    BY <2>5, <2>6
<1>10. CASE WriteGapRecord
  <2>1. Calm
    BY <1>10 DEF WriteGapRecord, Announcing, gapVars, dispatchVars, TypeOK, WorkerTypeOK
  <2>2. AnnouncerInv'
    BY <1>10 DEF WriteGapRecord, AnnouncerInv, HasCurrent, gapVars, dispatchVars, TypeOK,
                 WorkerTypeOK
  <2>3. QED
    BY <1>a, <2>1, <2>2
<1>11. CASE MergeGaps
  <2>1. Owns(worker.claim) /\ inFlight
    BY <1>11 DEF MergeGaps, AnnouncerInv, Owns
  <2>2. /\ slots' = [s \in Sources |->
                       IF claimed.slots[s].lost = {} THEN slots[s]
                       ELSE Merged(slots[s], claimed.slots[s])]
        /\ claimed' = NoClaim
        /\ inFlight' = FALSE
        /\ UNCHANGED <<health, pc, generation>>
        /\ worker.pc = "merge" /\ worker'.pc = "wait"
    BY <1>11, <2>1 DEF MergeGaps, Merge, Idle, dispatchVars, TypeOK, WorkerTypeOK
  <2>3. ASSUME NEW s \in Sources PROVE ScopeInv(s)' /\ slots'[s].generation = slots[s].generation
    <3>1. /\ slots'[s].generation = slots[s].generation
          /\ HasCurrent(s)' => slots'[s].current.generation = slots[s].generation
          /\ slots'[s].current.lost = Pending(s)
      <4>1. claimed.slots[s].generation <= slots[s].generation
        BY DEF GenerationInv, ScopeInv
      <4>2. CASE claimed.slots[s].lost = {}
        BY <2>2, <4>2 DEF Pending, GenerationInv, ScopeInv, HasCurrent
      <4>3. CASE claimed.slots[s].lost # {}
        BY <2>2, <4>1, <4>3, GenerationTypes DEF Merged, Pending
      <4>4. QED
        BY <4>2, <4>3
    <3>2. claimed'.slots[s] = NoSummary
      BY <2>2 DEF NoClaim
    <3>3. Pending(s)' = Pending(s)
      BY <3>1, <3>2 DEF Pending, NoSummary
    <3>4. \A n \in Nat : Announcing(s, n) => Announcing(s, n)'
      BY <2>2 DEF Announcing
    <3>5. QED
      BY <2>2, <3>1, <3>2, <3>3, <3>4, GenerationTypes DEF ScopeInv, GenerationInv, NoSummary
  <2>4. AnnouncerInv'
    BY <2>2, <2>3, Scopes DEF AnnouncerInv
  <2>5. QED
    BY <2>3, <2>4 DEF GenerationInv
<1>12. CASE CommitGaps
  <2>1. Owns(worker.claim) /\ inFlight
    BY <1>12 DEF CommitGaps, AnnouncerInv, Owns
  <2>2. /\ claimed' = NoClaim
        /\ inFlight' = FALSE
        /\ UNCHANGED <<slots, health, pc, generation>>
        /\ worker.pc = "commit" /\ worker'.pc = "observe_commit"
        /\ worker'.committed = [s \in Sources |->
              IF s \in Recoverable THEN claimed.slots[s].generation ELSE 0]
    BY <1>12, <2>1 DEF CommitGaps, Commit, dispatchVars, TypeOK, WorkerTypeOK
  <2>3. ASSUME NEW s \in Sources PROVE ScopeInv(s)'
    <3>1. claimed'.slots[s] = NoSummary
      BY <2>2 DEF NoClaim
    <3>2. Pending(s)' \subseteq Pending(s)
      BY <2>2, <3>1 DEF Pending, NoSummary
    <3>3. \A n \in Nat : Announcing(s, n) => Announcing(s, n)'
      BY <2>2 DEF Announcing
    <3>4. QED
      BY <2>2, <3>1, <3>2, <3>3, GenerationTypes
      DEF ScopeInv, GenerationInv, NoSummary, HasCurrent
  <2>4. \A s \in Sources : /\ worker'.committed[s] <= slots[s].generation
                           /\ worker'.committed[s] # 0 => ~HasCurrent(s)
    BY <2>2, GenerationTypes DEF Recoverable, GenerationInv, ScopeInv
  <2>5. AnnouncerInv'
    BY <2>2, <2>4 DEF AnnouncerInv, HasCurrent
  <2>6. QED
    BY <2>3, <2>5 DEF GenerationInv
<1>13. ASSUME NEW s \in Sources, ObserveCommit(s) PROVE GenerationInv' /\ AnnouncerInv'
  <2> DEFINE c == worker.committed[s]
  <2>1. /\ UNCHANGED <<slots, claimed, inFlight, pc, generation>>
        /\ worker.pc = "observe_commit" /\ worker'.pc = "observe_commit"
        /\ c # 0 /\ c \in Nat
        /\ worker'.committed = [worker.committed EXCEPT ![s] = 0]
    BY <1>13 DEF ObserveCommit, gapVars, dispatchVars, TypeOK, WorkerTypeOK
  <2>2. ~inFlight
    BY <2>1 DEF AnnouncerInv
  <2>3. \A t \in Sources, n \in Nat : Announcing(t, n) => Announcing(t, n)'
    BY <2>1 DEF Announcing
  <2>4. AnnouncerInv'
    BY <2>1, GenerationTypes DEF AnnouncerInv, HasCurrent, TypeOK, WorkerTypeOK
  <2>5. CASE UNCHANGED health
    BY <2>1, <2>3, <2>4, <2>5, <1>a
  <2>6. CASE ~UNCHANGED health
    <3>1. /\ c = health[s].latestGeneration
          /\ health' = [health EXCEPT ![s].degraded = FALSE]
      BY <1>13, <2>6 DEF ObserveCommit, ObserveGapCommit
    <3>2. Pending(s) # {} => c < slots[s].generation
      BY <2>1, <2>2 DEF AnnouncerInv, GenerationInv, ScopeInv, Pending, HasCurrent
    <3>3. /\ health'[s].latestGeneration = health[s].latestGeneration
          /\ \A t \in Sources \ {s} : health'[t] = health[t]
      BY <3>1, Scopes DEF TypeOK, HealthTypeOK, HealthState
    <3>4. ScopeInv(s)'
      BY <2>1, <2>3, <3>1, <3>2, <3>3, GenerationTypes
      DEF ScopeInv, GenerationInv, HasCurrent, Pending
    <3>5. ASSUME NEW t \in Sources \ {s} PROVE ScopeInv(t)'
      BY <2>1, <2>3, <3>3, ScopeUnchanged, GenerationTypes DEF GenerationInv
    <3>6. QED
      BY <2>4, <3>4, <3>5 DEF GenerationInv
  <2>7. QED
    BY <2>5, <2>6
<1>14. CASE EndReplay
  <2>1. Calm
    BY <1>14 DEF EndReplay, Idle, Announcing, gapVars, dispatchVars, TypeOK, WorkerTypeOK
  <2>2. AnnouncerInv'
    BY <1>14 DEF EndReplay, Idle, AnnouncerInv, HasCurrent, gapVars, dispatchVars, TypeOK,
                 WorkerTypeOK
  <2>3. QED
    BY <1>a, <2>1, <2>2
<1>15. CASE StopSession
  <2>1. Calm
    BY <1>15 DEF StopSession, Announcing, gapVars, dispatchVars, TypeOK, WorkerTypeOK
  <2>2. AnnouncerInv'
    BY <1>15 DEF StopSession, AnnouncerInv, HasCurrent, gapVars, dispatchVars, TypeOK,
                 WorkerTypeOK
  <2>3. QED
    BY <1>a, <2>1, <2>2
<1>16. CASE EmitTerminal \/ BeginClose \/ EndClose \/ UNCHANGED vars
  <2>1. UNCHANGED <<slots, claimed, inFlight, health, pc, generation, worker>>
    BY <1>16 DEF EmitTerminal, BeginClose, EndClose, vars, dispatchVars, gapVars
  <2>2. Calm
    BY <2>1 DEF Announcing
  <2>3. AnnouncerInv'
    BY <2>1 DEF AnnouncerInv, HasCurrent
  <2>4. QED
    BY <1>a, <2>2, <2>3
<1> QED
  BY <1>1, <1>2, <1>3, <1>4, <1>5, <1>6, <1>7, <1>8, <1>9, <1>10, <1>11, <1>12, <1>13,
     <1>14, <1>15, <1>16 DEF Next, Request, SessionWorker

\* The accounting is coherent before anything is dispatched.
LEMMA InitInv == Init => IInv
<1> SUFFICES ASSUME Init PROVE GenerationInv /\ AnnouncerInv
  BY InitType DEF IInv
<1>1. ASSUME NEW s \in Sources PROVE ScopeInv(s)
  BY Scopes DEF Init, GapInit, HealthInit, NoClaim, NoSummary, ScopeInv, HasCurrent,
                Pending
<1>2. AnnouncerInv
  BY DEF Init, GapInit, AnnouncerInv
<1>3. QED
  BY <1>1, <1>2 DEF GenerationInv

\* The accounting of every scope stays coherent: whatever the generations drawn
\* and announced out of order, the newest one decides.
THEOREM InvCorrect == Spec => []IInv
BY InitInv, InvStep, PTL DEF Spec

\* A scope the tracker calls healthy while losses of it are in no file is about to
\* be announced: a stale claim, a late commit or an old announcement never leaves
\* the tracker silently healthy.
THEOREM NeverSilentlyHealthy == Spec => []HealthyOrAnnounced
<1>1. IInv => HealthyOrAnnounced
  BY DEF IInv, GenerationInv, ScopeInv, HealthyOrAnnounced
<1>2. QED
  BY <1>1, InvCorrect, PTL

(***************************************************************************)
(* No admitted record vanishes.                                            *)
(***************************************************************************)
LossInv == IInv /\ WorkerInv /\ NoSilentLoss

Found(r) == InQueue(r) \/ InHand(r) \/ r \in closures \/ Counting(r) \/ Accounted(r)

\* No step takes an admitted record out of every place where it can be found.
LEMMA LossStep == LossInv /\ [Next]_vars => LossInv'
<1> SUFFICES ASSUME LossInv, [Next]_vars PROVE WorkerInv' /\ NoSilentLoss'
  BY InvStep DEF LossInv
<1> USE DEF LossInv, IInv
<1> DEFINE Kept == \A r \in Requests : Found(r) => Found(r)'
<1>a. ASSUME Kept, UNCHANGED admission PROVE NoSilentLoss'
  BY <1>a DEF NoSilentLoss, Found
<1>1. ASSUME NEW r \in Requests, TryDispatch(r) PROVE WorkerInv' /\ NoSilentLoss'
  <2>1. WorkerInv'
    BY <1>1 DEF TryDispatch, WorkerInv, gapVars, fileVars
  <2>2. ASSUME NEW q \in Requests, Found(q) PROVE Found(q)'
    <3>1. InQueue(q) => InQueue(q)'
      BY <1>1 DEF TryDispatch, InQueue, TypeOK, LaneTypeOK
    <3>2. Counting(q) => Counting(q)'
      BY <1>1 DEF TryDispatch, Counting, TypeOK, RequestTypeOK
    <3>3. QED
      BY <1>1, <2>2, <3>1, <3>2
      DEF TryDispatch, Found, InHand, Accounted, Pending, gapVars, fileVars
  <2>3. Found(r)'
    <3>1. CASE Len(sessionQueue) < SessionCapacity
      <4>1. /\ Len(sessionQueue') = Len(sessionQueue) + 1
            /\ sessionQueue'[Len(sessionQueue) + 1] = r
        BY <1>1, <3>1 DEF TryDispatch, SessionFits, TypeOK, LaneTypeOK
      <4>2. Len(sessionQueue) + 1 \in 1..Len(sessionQueue')
        BY <4>1 DEF TypeOK, LaneTypeOK
      <4>3. QED
        BY <4>1, <4>2 DEF Found, InQueue
    <3>2. CASE ~(Len(sessionQueue) < SessionCapacity)
      BY <1>1, <3>2 DEF TryDispatch, SessionFits, Found, Counting, TypeOK, RequestTypeOK
    <3>3. QED
      BY <3>1, <3>2
  <2>4. \A q \in Requests \ {r} : admission'[q] = admission[q]
    BY <1>1 DEF TryDispatch, TypeOK, RequestTypeOK
  <2>5. QED
    BY <2>1, <2>2, <2>3, <2>4 DEF NoSilentLoss, Found
<1>2. ASSUME NEW r \in Requests, RefuseDispatch(r) PROVE WorkerInv' /\ NoSilentLoss'
  <2>1. WorkerInv'
    BY <1>2 DEF RefuseDispatch, WorkerInv, gapVars, fileVars
  <2>2. \A q \in Requests : Found(q) => Found(q)'
    BY <1>2 DEF RefuseDispatch, Found, InQueue, InHand, Counting, Accounted, Pending,
                gapVars, fileVars, TypeOK, RequestTypeOK
  <2>3. \A q \in Requests : admission'[q].session = admission[q].session
    BY <1>2 DEF RefuseDispatch, TypeOK, RequestTypeOK, Admission
  <2>4. QED
    BY <2>1, <2>2, <2>3 DEF NoSilentLoss, Found
<1>3. ASSUME NEW r \in Requests, AccumulateQueueFull(r) PROVE WorkerInv' /\ NoSilentLoss'
  <2>1. WorkerInv'
    BY <1>3 DEF AccumulateQueueFull, Accumulate, WorkerInv, fileVars
  <2>2. /\ r \in slots'[QueueFull].current.lost
        /\ \A s \in Sources : slots[s].current.lost \subseteq slots'[s].current.lost
    BY <1>3, Scopes DEF AccumulateQueueFull, Accumulate, Accumulated, TypeOK, GapTypeOK
  <2>3. Accounted(r)' /\ \A q \in Requests : Accounted(q) => Accounted(q)'
    BY <1>3, <2>2, Scopes
    DEF AccumulateQueueFull, Accumulate, Accounted, Pending, fileVars
  <2>4. Kept
    BY <1>3, <2>3 DEF AccumulateQueueFull, Found, InQueue, InHand, Counting, fileVars,
                      TypeOK, RequestTypeOK
  <2>5. QED
    BY <1>a, <1>3, <2>1, <2>4 DEF AccumulateQueueFull
<1>4. ASSUME NEW r \in Requests, ObserveQueueFull(r) PROVE WorkerInv' /\ NoSilentLoss'
  BY <1>4 DEF ObserveQueueFull, WorkerInv, NoSilentLoss, InQueue, InHand, Counting,
              Accounted, Pending, gapVars, fileVars, TypeOK, RequestTypeOK
<1>5. CASE TakeSession
  <2>1. /\ worker'.pc = "write" /\ worker'.job = {Head(sessionQueue)}
        /\ worker.pc = "wait"
    BY <1>5 DEF TakeSession, TypeOK, WorkerTypeOK
  <2>2. WorkerInv'
    BY <2>1 DEF WorkerInv
  <2>3. ASSUME NEW q \in Requests, InQueue(q) PROVE InQueue(q)' \/ InHand(q)'
    <3>1. PICK i \in 1..Len(sessionQueue) : sessionQueue[i] = q
      BY <2>3 DEF InQueue
    <3>2. CASE i = 1
      BY <1>5, <2>1, <3>1, <3>2 DEF TakeSession, InHand, TypeOK, LaneTypeOK
    <3>3. CASE i # 1
      <4>1. i - 1 \in 1..Len(sessionQueue') /\ sessionQueue'[i - 1] = q
        BY <1>5, <3>1, <3>3 DEF TakeSession, TypeOK, LaneTypeOK
      <4>2. QED
        BY <4>1 DEF InQueue
    <3>4. QED
      BY <3>2, <3>3
  <2>4. Kept
    BY <1>5, <2>1, <2>3 DEF TakeSession, Found, InHand, Counting, Accounted, Pending,
                            gapVars, fileVars
  <2>5. QED
    BY <1>a, <1>5, <2>2, <2>4 DEF TakeSession
<1>6. CASE WriteClosure
  <2>1. /\ worker.pc = "write" /\ worker'.job = worker.job
        /\ worker'.pc = "claim" => worker.job \subseteq closures'
        /\ worker'.pc \in {"claim", "accumulate"}
        /\ closures \subseteq closures'
    BY <1>6 DEF WriteClosure, TypeOK, WorkerTypeOK
  <2>2. WorkerInv'
    BY <2>1 DEF WorkerInv
  <2>3. Kept
    BY <1>6, <2>1 DEF WriteClosure, Found, InQueue, InHand, Counting, Accounted, Pending,
                      gapVars, dispatchVars
  <2>4. QED
    BY <1>a, <1>6, <2>2, <2>3 DEF WriteClosure, dispatchVars
<1>7. CASE AccumulateSink
  <2>1. PICK r \in worker.job : Accumulate(LogSink, r)
    BY <1>7 DEF AccumulateSink
  <2>2. worker'.job = worker.job /\ worker'.pc \in {"observe", "observe_gap"}
    BY <1>7 DEF AccumulateSink, TypeOK, WorkerTypeOK
  <2>3. WorkerInv'
    BY <2>2 DEF WorkerInv
  <2>4. /\ r \in slots'[LogSink].current.lost
        /\ \A s \in Sources : slots[s].current.lost \subseteq slots'[s].current.lost
    BY <2>1, Scopes DEF Accumulate, Accumulated, TypeOK, GapTypeOK
  <2>5. Accounted(r)' /\ \A q \in Requests : Accounted(q) => Accounted(q)'
    BY <1>7, <2>1, <2>4, Scopes DEF AccumulateSink, Accumulate, Accounted, Pending, fileVars
  <2>6. \A q \in Requests : InHand(q) => q = r
    BY DEF InHand, WorkerInv
  <2>7. Kept
    BY <1>7, <2>5, <2>6 DEF AccumulateSink, Found, InQueue, Counting, dispatchVars, fileVars
  <2>8. QED
    BY <1>a, <1>7, <2>3, <2>7 DEF AccumulateSink, dispatchVars
<1>8. CASE ObserveSink
  <2>1. /\ worker.pc \in {"observe", "observe_gap"} /\ worker'.pc \in {"wait", "merge"}
        /\ worker'.job \subseteq worker.job
    BY <1>8 DEF ObserveSink, Idle, TypeOK, WorkerTypeOK
  <2>2. WorkerInv'
    BY <2>1 DEF WorkerInv
  <2>3. Kept
    BY <1>8, <2>1 DEF ObserveSink, Found, InQueue, InHand, Counting, Accounted, Pending,
                      gapVars, fileVars, dispatchVars
  <2>4. QED
    BY <1>a, <1>8, <2>2, <2>3 DEF ObserveSink, dispatchVars
<1>9. CASE ClaimGaps
  <2>1. ~inFlight /\ worker.pc = "claim"
    BY <1>9 DEF ClaimGaps, AnnouncerInv
  <2>2. worker'.pc \in {"write_gap", "wait"} /\ worker'.job \subseteq worker.job
    BY <1>9 DEF ClaimGaps, Idle, TypeOK, WorkerTypeOK
  <2>3. WorkerInv'
    BY <2>2 DEF WorkerInv
  <2>4. ASSUME NEW s \in Sources PROVE Pending(s)' = Pending(s)
    <3>1. CASE UNCHANGED <<slots, claimed, inFlight>>
      BY <3>1 DEF Pending
    <3>2. CASE ~UNCHANGED <<slots, claimed, inFlight>>
      <4>1. /\ claimed' = ClaimOf(nextID + 1)
            /\ slots' = [t \in Sources |->
                           IF HasCurrent(t) THEN Emptied(slots[t]) ELSE slots[t]]
        BY <1>9, <2>1, <3>2 DEF ClaimGaps, Claim
      <4>2. slots'[s].current.lost = {}
        BY <4>1 DEF Emptied, HasCurrent, TypeOK, GapTypeOK, Summary
      <4>3. claimed'.slots[s].lost = slots[s].current.lost
        BY <4>1 DEF ClaimOf, NoSummary, HasCurrent
      <4>4. QED
        BY <2>1, <4>2, <4>3 DEF Pending, GenerationInv, ScopeInv
    <3>3. QED
      BY <3>1, <3>2
  <2>5. Kept
    BY <1>9, <2>1, <2>4 DEF ClaimGaps, Found, InQueue, InHand, Counting, Accounted,
                            fileVars, dispatchVars
  <2>6. QED
    BY <1>a, <1>9, <2>3, <2>5 DEF ClaimGaps, dispatchVars
<1>10. CASE WriteGapRecord
  <2>1. /\ worker.pc = "write_gap" /\ worker'.pc \in {"commit", "accumulate_gap"}
        /\ worker'.job = worker.job
        /\ worker'.pc = "commit" => gapRecords' = WithRecord
        /\ gapRecords' \in {gapRecords, WithRecord}
    BY <1>10 DEF WriteGapRecord, TypeOK, WorkerTypeOK
  <2>2. \A s \in Sources : gapRecords[s] \subseteq gapRecords'[s]
    BY <2>1 DEF WithRecord
  <2>3. WorkerInv'
    BY <1>10, <2>1 DEF WorkerInv, WriteGapRecord, WithRecord, gapVars
  <2>4. Kept
    BY <1>10, <2>1, <2>2 DEF WriteGapRecord, Found, InQueue, InHand, Counting, Accounted,
                             Pending, gapVars, dispatchVars
  <2>5. QED
    BY <1>a, <1>10, <2>3, <2>4 DEF WriteGapRecord, dispatchVars
<1>11. CASE MergeGaps
  <2>1. Owns(worker.claim)
    BY <1>11 DEF MergeGaps, AnnouncerInv, Owns
  <2>2. worker.pc = "merge" /\ worker'.pc = "wait" /\ worker'.job = {}
    BY <1>11 DEF MergeGaps, Idle, TypeOK, WorkerTypeOK
  <2>3. ASSUME NEW s \in Sources PROVE Pending(s) \subseteq Pending(s)'
    BY <1>11, <2>1 DEF MergeGaps, Merge, Merged, Pending
  <2>4. Kept
    BY <1>11, <2>2, <2>3 DEF MergeGaps, Found, InQueue, InHand, Counting, Accounted,
                             fileVars, dispatchVars
  <2>5. QED
    BY <1>a, <1>11, <2>2, <2>4 DEF MergeGaps, WorkerInv, dispatchVars
<1>12. CASE CommitGaps
  <2>1. Owns(worker.claim)
    BY <1>12 DEF CommitGaps, AnnouncerInv, Owns
  <2>2. /\ worker.pc = "commit" /\ worker'.pc = "observe_commit"
        /\ worker'.job = worker.job
    BY <1>12 DEF CommitGaps, TypeOK, WorkerTypeOK
  <2>3. \A s \in Sources : Pending(s) \subseteq Pending(s)' \cup gapRecords[s]
    BY <1>12, <2>1, <2>2 DEF CommitGaps, Commit, Pending, WorkerInv
  <2>4. Kept
    BY <1>12, <2>2, <2>3 DEF CommitGaps, Found, InQueue, InHand, Counting, Accounted,
                             fileVars, dispatchVars
  <2>5. QED
    BY <1>a, <1>12, <2>2, <2>4 DEF CommitGaps, WorkerInv, dispatchVars
<1>13. CASE (\E s \in Sources : ObserveCommit(s)) \/ EndReplay \/ StopSession
  <2>1. /\ worker.pc \in {"observe_commit", "wait"}
        /\ worker'.pc \in {"observe_commit", "wait", "stopped"}
        /\ worker'.job \subseteq worker.job
        /\ UNCHANGED <<dispatchVars, fileVars, gapVars>>
    BY <1>13 DEF ObserveCommit, EndReplay, StopSession, Idle, TypeOK, WorkerTypeOK
  <2>2. Kept
    BY <2>1 DEF Found, InQueue, InHand, Counting, Accounted, Pending, gapVars, fileVars,
                dispatchVars
  <2>3. QED
    BY <1>a, <2>1, <2>2 DEF WorkerInv, dispatchVars
<1>14. CASE EmitTerminal \/ BeginClose \/ EndClose \/ UNCHANGED vars
  <2>1. UNCHANGED <<sessionQueue, worker, pc, admission, slots, claimed, closures, gapRecords>>
    BY <1>14 DEF EmitTerminal, BeginClose, EndClose, vars, dispatchVars, gapVars, fileVars
  <2>2. Kept
    BY <2>1 DEF Found, InQueue, InHand, Counting, Accounted, Pending
  <2>3. QED
    BY <1>a, <2>1, <2>2 DEF WorkerInv
<1> QED
  BY <1>1, <1>2, <1>3, <1>4, <1>5, <1>6, <1>7, <1>8, <1>9, <1>10, <1>11, <1>12, <1>13,
     <1>14 DEF Next, Request, SessionWorker

\* Every record TryDispatch admitted stays findable for ever: in the lane, in the
\* worker's hands, in its session file, or in the gap accounting.
THEOREM NoSilentLossCorrect == Spec => []NoSilentLoss
<1>1. Init => LossInv
  <2>1. Init => WorkerInv /\ NoSilentLoss
    BY DEF Init, WorkerInv, NoSilentLoss, NotDispatched
  <2>2. QED
    BY <2>1, InitInv DEF LossInv
<1>2. LossInv => NoSilentLoss
  BY DEF LossInv
<1>3. QED
  BY <1>1, <1>2, LossStep, PTL DEF Spec

(***************************************************************************)
(* The drain: the session worker leaves a closed and empty lane only.      *)
(***************************************************************************)
LeaveInv ==
  /\ worker.pc = "stopped" => closing /\ sessionQueue = <<>>
  /\ drained => closing /\ worker.pc = "stopped" /\ terminalQueue = <<>>
  /\ \A r \in Requests : pc[r] = "accumulate" => admission[r].session = "rejected"

\* Nothing enters a closed dispatcher, and a stopped worker stays stopped.
LEMMA LeaveStep == TypeOK /\ LeaveInv /\ [Next]_vars => LeaveInv'
<1> SUFFICES ASSUME TypeOK, LeaveInv, [Next]_vars PROVE LeaveInv'
  OBVIOUS
<1> USE DEF LeaveInv
<1>1. /\ admission \in [Requests -> Admission]
      /\ pc \in [Requests -> {"ready", "accumulate", "observe", "done"}]
      /\ WorkerTypeOK
  BY DEF TypeOK, RequestTypeOK
<1>2. ASSUME NEW r \in Requests, TryDispatch(r) PROVE LeaveInv'
  <2>1. ~closing /\ closing' = closing /\ worker' = worker /\ drained' = drained
    BY <1>2 DEF TryDispatch
  <2>2. ASSUME NEW q \in Requests, pc'[q] = "accumulate" PROVE admission'[q].session = "rejected"
    <3>1. CASE q = r
      BY <1>1, <1>2, <2>2, <3>1 DEF TryDispatch, SessionResult
    <3>2. CASE q # r
      BY <1>1, <1>2, <2>2, <3>2 DEF TryDispatch
    <3>3. QED
      BY <3>1, <3>2
  <2>3. QED
    BY <2>1, <2>2
<1>3. ASSUME NEW r \in Requests, RefuseDispatch(r) PROVE LeaveInv'
  <2>1. ASSUME NEW q \in Requests, pc'[q] = "accumulate" PROVE admission'[q].session = "rejected"
    <3>1. q # r /\ pc[q] = "accumulate"
      BY <1>1, <1>3, <2>1 DEF RefuseDispatch
    <3>2. QED
      BY <1>1, <1>3, <3>1 DEF RefuseDispatch
  <2>2. QED
    BY <1>3, <2>1 DEF RefuseDispatch
<1>4. ASSUME NEW r \in Requests, AccumulateQueueFull(r) \/ ObserveQueueFull(r) PROVE LeaveInv'
  BY <1>1, <1>4 DEF AccumulateQueueFull, ObserveQueueFull
<1>5. ASSUME SessionWorker PROVE LeaveInv'
  <2>1. worker.pc # "stopped" /\ ~drained
    BY <1>5 DEF SessionWorker, TakeSession, WriteClosure, AccumulateSink, ObserveSink, ClaimGaps,
                WriteGapRecord, MergeGaps, CommitGaps, ObserveCommit, EndReplay, StopSession
  <2>2. UNCHANGED <<closing, drained, pc, admission>>
    BY <1>5 DEF SessionWorker, TakeSession, WriteClosure, AccumulateSink, ObserveSink, ClaimGaps,
                WriteGapRecord, MergeGaps, CommitGaps, ObserveCommit, EndReplay, StopSession,
                dispatchVars
  <2>3. CASE StopSession
    BY <2>1, <2>2, <2>3 DEF StopSession, dispatchVars
  <2>4. CASE ~StopSession
    <3>1. worker'.pc # "stopped"
      BY <1>1, <1>5, <2>4
      DEF SessionWorker, TakeSession, WriteClosure, AccumulateSink, ObserveSink, ClaimGaps,
          WriteGapRecord, MergeGaps, CommitGaps, ObserveCommit, EndReplay, Idle, WorkerTypeOK
    <3>2. QED
      BY <2>1, <2>2, <3>1
  <2>5. QED
    BY <2>3, <2>4
<1>6. ASSUME EmitTerminal PROVE LeaveInv'
  BY <1>6 DEF EmitTerminal
<1>7. ASSUME BeginClose \/ EndClose PROVE LeaveInv'
  BY <1>7 DEF BeginClose, EndClose
<1>8. ASSUME UNCHANGED vars PROVE LeaveInv'
  BY <1>8 DEF vars, dispatchVars
<1>9. QED
  BY <1>2, <1>3, <1>4, <1>5, <1>6, <1>7, <1>8 DEF Next, Request

\* When CloseAndDrain has returned both lanes are empty, no claim is in flight, and
\* every accepted record is in its session file or accounted for as a loss.
THEOREM DrainedIsEmptyCorrect == Spec => []DrainedIsEmpty
<1>1. Init => LeaveInv
  BY DEF Init, LeaveInv
<1>2. Spec => []LeaveInv
  BY <1>1, TypeCorrect, LeaveStep, PTL DEF Spec
<1>3. IInv /\ LeaveInv /\ NoSilentLoss => DrainedIsEmpty
  <2> SUFFICES ASSUME IInv, LeaveInv, NoSilentLoss, drained
               PROVE  /\ sessionQueue = <<>> /\ terminalQueue = <<>>
                      /\ ~inFlight
                      /\ \A r \in Requests : admission[r].session = "accepted" =>
                                               r \in closures \/ Accounted(r)
    BY DEF DrainedIsEmpty
  <2>1. worker.pc = "stopped" /\ sessionQueue = <<>> /\ terminalQueue = <<>>
    BY DEF LeaveInv
  <2>2. ~inFlight
    BY <2>1 DEF IInv, AnnouncerInv
  <2>3. ASSUME NEW r \in Requests, admission[r].session = "accepted"
        PROVE  r \in closures \/ Accounted(r)
    <3>1. ~InQueue(r) /\ ~InHand(r)
      BY <2>1 DEF InQueue, InHand
    <3>2. ~Counting(r)
      BY <2>3 DEF Counting, LeaveInv
    <3>3. QED
      BY <2>3, <3>1, <3>2 DEF NoSilentLoss
  <2>4. QED
    BY <2>1, <2>2, <2>3
<1>4. QED
  BY <1>2, <1>3, InvCorrect, NoSilentLossCorrect, PTL

(***************************************************************************)
(* The fate of a record: the lane implements OutcomeDelivery.              *)
(***************************************************************************)

\* Only what TryDispatch admitted is anywhere, and only accepted records reach
\* the lane, the worker or a session file.
AdmittedInv ==
  /\ \A r \in Requests : pc[r] = "ready" => admission[r] = NotDispatched
  /\ \A r \in Requests : admission[r].lifecycleError => admission[r].session = "none"
  /\ \A r \in Requests : admission[r].session = "none" => ~Accounted(r)
  /\ \A r \in Requests :
       InQueue(r) \/ r \in worker.job \cup closures => admission[r].session = "accepted"

\* A record nobody has settled is in one place of the lane, once, and neither a file
\* nor a gap knows it; a failed summary is counted against the record whose closure
\* the worker has just written.
LaneInv ==
  /\ \A r \in Requests : InQueue(r) \/ InHand(r) => ~Accounted(r)
  /\ \A r \in Requests : InQueue(r) => r \notin worker.job \cup closures
  /\ \A i, j \in 1..Len(sessionQueue) : sessionQueue[i] = sessionQueue[j] => i = j
  /\ worker.pc = "write" => worker.job \cap closures = {}
  /\ worker.pc \in {"claim", "write_gap", "accumulate_gap"} => worker.job \subseteq closures

\* What keeps a fate from moving back.
FateInv == LossInv /\ LeaveInv /\ AdmittedInv /\ LaneInv

\* Counting a loss adds it to one source and to no other.
LEMMA AccumulatePending ==
  ASSUME TypeOK, NEW t \in Sources, NEW r \in Requests, Accumulate(t, r)
  PROVE  \A s \in Sources : Pending(s)' = IF s = t THEN Pending(s) \cup {r} ELSE Pending(s)
BY DEF Accumulate, Accumulated, Pending, TypeOK, GapTypeOK

\* A claim moves losses from the current summaries into the claim.
LEMMA ClaimPending ==
  ASSUME IInv, ClaimGaps
  PROVE  \A s \in Sources : Pending(s)' = Pending(s)
<1> SUFFICES ASSUME NEW s \in Sources PROVE Pending(s)' = Pending(s)
  OBVIOUS
<1> USE DEF IInv
<1>1. ~inFlight
  BY DEF ClaimGaps, AnnouncerInv
<1>2. CASE UNCHANGED <<slots, claimed, inFlight>>
  BY <1>2 DEF Pending
<1>3. CASE ~UNCHANGED <<slots, claimed, inFlight>>
  <2>1. /\ claimed' = ClaimOf(nextID + 1)
        /\ slots' = [t \in Sources |->
                       IF HasCurrent(t) THEN Emptied(slots[t]) ELSE slots[t]]
    BY <1>1, <1>3 DEF ClaimGaps, Claim
  <2>2. slots'[s].current.lost = {}
    BY <2>1 DEF Emptied, HasCurrent, TypeOK, GapTypeOK, Summary
  <2>3. claimed'.slots[s].lost = slots[s].current.lost
    BY <2>1 DEF ClaimOf, NoSummary, HasCurrent
  <2>4. QED
    BY <1>1, <2>2, <2>3 DEF Pending, GenerationInv, ScopeInv
<1>4. QED
  BY <1>2, <1>3

\* A merge moves the losses of the claim back.
LEMMA MergePending ==
  ASSUME IInv, MergeGaps
  PROVE  \A s \in Sources : Pending(s)' = Pending(s)
<1>1. Owns(worker.claim)
  BY DEF MergeGaps, IInv, AnnouncerInv, Owns
<1>2. QED
  BY <1>1 DEF MergeGaps, Merge, Merged, Pending, NoClaim, NoSummary

\* A commit drops losses that are in the claim's gap record, and no others.
LEMMA CommitPending ==
  ASSUME IInv, WorkerInv, CommitGaps
  PROVE  \A s \in Sources : /\ Pending(s)' \subseteq Pending(s)
                            /\ Pending(s) \subseteq Pending(s)' \cup gapRecords[s]
<1>1. Owns(worker.claim)
  BY DEF CommitGaps, IInv, AnnouncerInv, Owns
<1>2. QED
  BY <1>1 DEF CommitGaps, Commit, Pending, WorkerInv, NoClaim, NoSummary

\* An admission adds its record to the lane.
LEMMA QueueAppended ==
  ASSUME TypeOK, NEW r \in Requests, sessionQueue' = Append(sessionQueue, r)
  PROVE  \A q \in Requests : InQueue(q)' <=> InQueue(q) \/ q = r
<1> SUFFICES ASSUME NEW q \in Requests PROVE InQueue(q)' <=> InQueue(q) \/ q = r
  OBVIOUS
<1>1. /\ Len(sessionQueue') = Len(sessionQueue) + 1
      /\ Len(sessionQueue) \in Nat
      /\ sessionQueue'[Len(sessionQueue) + 1] = r
      /\ \A i \in 1..Len(sessionQueue) : sessionQueue'[i] = sessionQueue[i]
  BY DEF TypeOK, LaneTypeOK
<1>2. 1..Len(sessionQueue') = 1..Len(sessionQueue) \cup {Len(sessionQueue) + 1}
  BY <1>1
<1>3. QED
  BY <1>1, <1>2 DEF InQueue

\* The worker takes the head, and with it the only copy of that record.
LEMMA QueueTaken ==
  ASSUME TypeOK, sessionQueue # <<>>, sessionQueue' = Tail(sessionQueue),
         \A i, j \in 1..Len(sessionQueue) : sessionQueue[i] = sessionQueue[j] => i = j
  PROVE  /\ \A q \in Requests : InQueue(q)' <=> InQueue(q) /\ q # Head(sessionQueue)
         /\ InQueue(Head(sessionQueue)) /\ Head(sessionQueue) \in Requests
<1>1. /\ Len(sessionQueue) \in Nat \ {0}
      /\ Len(sessionQueue') = Len(sessionQueue) - 1
      /\ \A i \in 1..(Len(sessionQueue) - 1) : sessionQueue'[i] = sessionQueue[i + 1]
      /\ Head(sessionQueue) = sessionQueue[1]
      /\ Head(sessionQueue) \in Requests
  BY DEF TypeOK, LaneTypeOK
<1>2. InQueue(Head(sessionQueue))
  BY <1>1 DEF InQueue
<1>3. ASSUME NEW q \in Requests, InQueue(q)' PROVE InQueue(q) /\ q # Head(sessionQueue)
  <2>1. PICK i \in 1..(Len(sessionQueue) - 1) : sessionQueue[i + 1] = q
    BY <1>1, <1>3 DEF InQueue
  <2>2. i + 1 \in 1..Len(sessionQueue) /\ i + 1 # 1 /\ 1 \in 1..Len(sessionQueue)
    BY <1>1
  <2>3. QED
    BY <1>1, <2>1, <2>2 DEF InQueue
<1>4. ASSUME NEW q \in Requests, InQueue(q), q # Head(sessionQueue) PROVE InQueue(q)'
  <2>1. PICK i \in 1..Len(sessionQueue) : sessionQueue[i] = q
    BY <1>4 DEF InQueue
  <2>2. i - 1 \in 1..Len(sessionQueue') /\ sessionQueue'[i - 1] = q
    BY <1>1, <1>4, <2>1
  <2>3. QED
    BY <2>2 DEF InQueue
<1>5. QED
  BY <1>1, <1>2, <1>3, <1>4

\* Every step keeps the lane orderly: no record is admitted twice, queued twice,
\* settled while it waits, or counted as lost once its file has it.
LEMMA FateInvStep == FateInv /\ [Next]_vars => FateInv'
<1> SUFFICES ASSUME FateInv, [Next]_vars PROVE AdmittedInv' /\ LaneInv'
  BY LossStep, LeaveStep DEF FateInv, LossInv, IInv
<1> USE DEF FateInv, LossInv, IInv
<1>t. /\ TypeOK /\ WorkerTypeOK /\ FileTypeOK
      /\ admission \in [Requests -> Admission]
      /\ pc \in [Requests -> {"ready", "accumulate", "observe", "done"}]
  BY DEF TypeOK, RequestTypeOK
<1> DEFINE SameLane == /\ UNCHANGED <<sessionQueue, admission, closures>>
                       /\ \A r \in Requests : pc'[r] = "ready" => pc[r] = "ready"
                       /\ worker'.job \subseteq worker.job
           SameGaps == \A r \in Requests : Accounted(r)' <=> Accounted(r)
           Later    == worker'.pc \notin {"write", "accumulate"}
           Written  == worker'.pc \in {"claim", "write_gap", "accumulate_gap"} =>
                         worker'.job \subseteq closures'
<1>a. ASSUME SameLane, SameGaps, Later, Written PROVE AdmittedInv' /\ LaneInv'
  BY <1>a DEF AdmittedInv, LaneInv, InQueue, InHand
<1>1. ASSUME NEW r \in Requests, TryDispatch(r) PROVE AdmittedInv' /\ LaneInv'
  <2>1. /\ admission[r].session = "none" /\ ~Accounted(r)
        /\ ~InQueue(r) /\ r \notin worker.job \cup closures
    BY <1>1 DEF TryDispatch, AdmittedInv, NotDispatched
  <2>2. /\ \A q \in Requests \ {r} : admission'[q] = admission[q] /\ pc'[q] = pc[q]
        /\ admission'[r].session \in {"accepted", "rejected"}
        /\ SessionFits => admission'[r].session = "accepted"
        /\ ~admission'[r].lifecycleError
        /\ pc'[r] # "ready"
        /\ UNCHANGED <<worker, closures, gapRecords, slots, claimed>>
    BY <1>1, <1>t DEF TryDispatch, SessionResult, fileVars, gapVars
  <2>3. \A q \in Requests : Accounted(q)' <=> Accounted(q)
    BY <2>2 DEF Accounted, Pending
  <2>4. CASE SessionFits
    <3>1. sessionQueue' = Append(sessionQueue, r)
      BY <1>1, <2>4 DEF TryDispatch
    <3>2. \A q \in Requests : InQueue(q)' <=> InQueue(q) \/ q = r
      BY <1>t, <3>1, QueueAppended
    <3>3. AdmittedInv'
      BY <2>1, <2>2, <2>3, <2>4, <3>2 DEF AdmittedInv
    <3>4. \A i, j \in 1..Len(sessionQueue') : sessionQueue'[i] = sessionQueue'[j] => i = j
      BY <1>t, <2>1, <3>1 DEF LaneInv, InQueue, TypeOK, LaneTypeOK
    <3>5. LaneInv'
      BY <2>1, <2>2, <2>3, <3>2, <3>4 DEF LaneInv, InHand
    <3>6. QED
      BY <3>3, <3>5
  <2>5. CASE ~SessionFits
    <3>1. sessionQueue' = sessionQueue
      BY <1>1, <2>5 DEF TryDispatch
    <3>2. AdmittedInv' /\ LaneInv'
      BY <2>1, <2>2, <2>3, <3>1 DEF AdmittedInv, LaneInv, InQueue, InHand
    <3>3. QED
      BY <3>2
  <2>6. QED
    BY <2>4, <2>5
<1>2. ASSUME NEW r \in Requests, RefuseDispatch(r) PROVE AdmittedInv' /\ LaneInv'
  <2>1. /\ \A q \in Requests \ {r} : admission'[q] = admission[q] /\ pc'[q] = pc[q]
        /\ admission[r].session = "none" /\ admission'[r].session = "none"
        /\ pc'[r] # "ready"
        /\ UNCHANGED <<sessionQueue, worker, closures, gapRecords, slots, claimed>>
    BY <1>2, <1>t DEF RefuseDispatch, AdmittedInv, NotDispatched, Admission, fileVars, gapVars
  <2>2. \A q \in Requests : Accounted(q)' <=> Accounted(q)
    BY <2>1 DEF Accounted, Pending
  <2>3. QED
    BY <2>1, <2>2 DEF AdmittedInv, LaneInv, InQueue, InHand
<1>3. ASSUME NEW r \in Requests, AccumulateQueueFull(r) PROVE AdmittedInv' /\ LaneInv'
  <2>1. /\ pc[r] = "accumulate" /\ admission[r].session = "rejected"
        /\ UNCHANGED <<sessionQueue, admission, worker, closures, gapRecords>>
        /\ \A q \in Requests : pc'[q] = "ready" => pc[q] = "ready"
    BY <1>3, <1>t DEF AccumulateQueueFull, LeaveInv, fileVars
  <2>2. ~InQueue(r) /\ r \notin worker.job
    BY <2>1 DEF AdmittedInv
  <2>3. \A q \in Requests : q # r => (Accounted(q)' <=> Accounted(q))
    BY <1>3, <2>1, <1>t, Scopes, AccumulatePending DEF AccumulateQueueFull, Accounted
  <2>4. QED
    BY <2>1, <2>2, <2>3 DEF AdmittedInv, LaneInv, InQueue, InHand
<1>4. ASSUME NEW r \in Requests, ObserveQueueFull(r) PROVE AdmittedInv' /\ LaneInv'
  <2>1. /\ UNCHANGED <<sessionQueue, admission, worker, closures, gapRecords, slots, claimed>>
        /\ \A q \in Requests : pc'[q] = "ready" => pc[q] = "ready"
    BY <1>4, <1>t DEF ObserveQueueFull, fileVars, gapVars
  <2>2. \A q \in Requests : Accounted(q)' <=> Accounted(q)
    BY <2>1 DEF Accounted, Pending
  <2>3. QED
    BY <2>1, <2>2 DEF AdmittedInv, LaneInv, InQueue, InHand
<1>5. CASE TakeSession
  <2> DEFINE r == Head(sessionQueue)
  <2>1. /\ worker'.pc = "write" /\ worker'.job = {r} /\ worker.pc = "wait"
        /\ UNCHANGED <<admission, pc, closures, gapRecords, slots, claimed>>
    BY <1>5, <1>t DEF TakeSession, WorkerTypeOK, fileVars, gapVars
  <2>2. /\ \A q \in Requests : InQueue(q)' <=> InQueue(q) /\ q # r
        /\ InQueue(r) /\ r \in Requests
    BY <1>5, <1>t, QueueTaken DEF TakeSession, LaneInv
  <2>3. \A q \in Requests : Accounted(q)' <=> Accounted(q)
    BY <2>1 DEF Accounted, Pending
  <2>4. \A i, j \in 1..Len(sessionQueue') : sessionQueue'[i] = sessionQueue'[j] => i = j
    <3>1. /\ Len(sessionQueue) \in Nat \ {0}
          /\ Len(sessionQueue') = Len(sessionQueue) - 1
          /\ \A i \in 1..(Len(sessionQueue) - 1) : sessionQueue'[i] = sessionQueue[i + 1]
      BY <1>5, <1>t DEF TakeSession, TypeOK, LaneTypeOK
    <3>2. SUFFICES ASSUME NEW i \in 1..(Len(sessionQueue) - 1),
                          NEW j \in 1..(Len(sessionQueue) - 1),
                          sessionQueue[i + 1] = sessionQueue[j + 1]
                   PROVE  i = j
      BY <3>1
    <3>3. i + 1 \in 1..Len(sessionQueue) /\ j + 1 \in 1..Len(sessionQueue)
      BY <3>1
    <3>4. i + 1 = j + 1
      BY <3>2, <3>3 DEF LaneInv
    <3>5. QED
      BY <3>4
  <2> HIDE DEF r
  <2>5. AdmittedInv'
    BY <2>1, <2>2, <2>3 DEF AdmittedInv
  <2>6. LaneInv'
    BY <2>1, <2>2, <2>3, <2>4 DEF LaneInv, InHand
  <2>7. QED
    BY <2>5, <2>6
<1>6. CASE WriteClosure
  <2>1. /\ worker.pc = "write" /\ worker'.job = worker.job
        /\ worker'.pc \in {"claim", "accumulate"}
        /\ worker'.pc = "claim" => worker.job \subseteq closures'
        /\ closures \subseteq closures' /\ closures' \subseteq closures \cup worker.job
        /\ UNCHANGED <<sessionQueue, admission, pc, gapRecords, slots, claimed>>
    BY <1>6, <1>t DEF WriteClosure, WorkerTypeOK, gapVars, dispatchVars
  <2>2. \A q \in Requests : Accounted(q)' <=> Accounted(q)
    BY <2>1 DEF Accounted, Pending
  <2>3. \A q \in Requests : InQueue(q)' <=> InQueue(q)
    BY <2>1 DEF InQueue
  <2>4. AdmittedInv'
    BY <2>1, <2>2, <2>3 DEF AdmittedInv
  <2>5. LaneInv'
    BY <2>1, <2>2, <2>3 DEF LaneInv, InHand
  <2>6. QED
    BY <2>4, <2>5
<1>7. CASE AccumulateSink
  <2>1. PICK r \in worker.job : Accumulate(LogSink, r)
    BY <1>7 DEF AccumulateSink
  <2>2. /\ r \in Requests /\ \A q \in worker.job : q = r
        /\ worker'.job = worker.job /\ worker'.pc \in {"observe", "observe_gap"}
        /\ UNCHANGED <<sessionQueue, admission, pc, closures, gapRecords>>
    BY <1>7, <1>t DEF AccumulateSink, WorkerTypeOK, WorkerInv, dispatchVars, fileVars
  <2>3. admission[r].session = "accepted" /\ ~InQueue(r)
    BY <2>1, <2>2 DEF AdmittedInv, LaneInv
  <2>4. \A q \in Requests : q # r => (Accounted(q)' <=> Accounted(q))
    BY <2>1, <2>2, <1>t, Scopes, AccumulatePending DEF Accounted
  <2>5. QED
    BY <2>2, <2>3, <2>4 DEF AdmittedInv, LaneInv, InQueue, InHand
<1>8. CASE ObserveSink
  <2>1. SameLane /\ Later /\ Written /\ UNCHANGED <<gapRecords, slots, claimed>>
    BY <1>8, <1>t DEF ObserveSink, Idle, WorkerTypeOK, dispatchVars, fileVars, gapVars
  <2>2. SameGaps
    BY <2>1 DEF Accounted, Pending
  <2>3. QED
    BY <1>a, <2>1, <2>2
<1>9. CASE ClaimGaps
  <2>1. SameLane /\ Later /\ Written /\ gapRecords' = gapRecords
    BY <1>9, <1>t DEF ClaimGaps, Idle, LaneInv, WorkerTypeOK, dispatchVars, fileVars
  <2>2. SameGaps
    BY <1>9, <2>1, ClaimPending DEF Accounted
  <2>3. QED
    BY <1>a, <2>1, <2>2
<1>10. CASE WriteGapRecord
  <2>1. SameLane /\ Later /\ Written /\ UNCHANGED <<slots, claimed>>
    BY <1>10, <1>t DEF WriteGapRecord, LaneInv, WorkerTypeOK, dispatchVars, gapVars
  <2>2. \A s \in Sources : /\ gapRecords[s] \subseteq gapRecords'[s]
                           /\ gapRecords'[s] \subseteq gapRecords[s] \cup Pending(s)
    BY <1>10 DEF WriteGapRecord, WithRecord, Pending
  <2>3. SameGaps
    BY <2>1, <2>2 DEF Accounted, Pending
  <2>4. QED
    BY <1>a, <2>1, <2>3
<1>11. CASE MergeGaps
  <2>1. SameLane /\ Later /\ Written /\ gapRecords' = gapRecords
    BY <1>11, <1>t DEF MergeGaps, Idle, WorkerTypeOK, dispatchVars, fileVars
  <2>2. SameGaps
    BY <1>11, <2>1, MergePending DEF Accounted
  <2>3. QED
    BY <1>a, <2>1, <2>2
<1>12. CASE CommitGaps
  <2>1. SameLane /\ Later /\ Written /\ gapRecords' = gapRecords
    BY <1>12, <1>t DEF CommitGaps, WorkerTypeOK, dispatchVars, fileVars
  <2>2. SameGaps
    BY <1>12, <2>1, CommitPending DEF Accounted
  <2>3. QED
    BY <1>a, <2>1, <2>2
<1>13. CASE (\E s \in Sources : ObserveCommit(s)) \/ EndReplay \/ StopSession
  <2>1. SameLane /\ Later /\ Written /\ UNCHANGED <<gapRecords, slots, claimed>>
    BY <1>13, <1>t DEF ObserveCommit, EndReplay, StopSession, Idle, WorkerTypeOK, dispatchVars,
                       fileVars, gapVars
  <2>2. SameGaps
    BY <2>1 DEF Accounted, Pending
  <2>3. QED
    BY <1>a, <2>1, <2>2
<1>14. CASE EmitTerminal \/ BeginClose \/ EndClose \/ UNCHANGED vars
  <2>1. UNCHANGED <<sessionQueue, worker, pc, admission, slots, claimed, closures, gapRecords>>
    BY <1>14 DEF EmitTerminal, BeginClose, EndClose, vars, dispatchVars, gapVars, fileVars
  <2>2. QED
    BY <2>1 DEF AdmittedInv, LaneInv, InQueue, InHand, Accounted, Pending
<1> QED
  BY <1>1, <1>2, <1>3, <1>4, <1>5, <1>6, <1>7, <1>8, <1>9, <1>10, <1>11, <1>12, <1>13,
     <1>14 DEF Next, Request, SessionWorker

\* The refinement mapping, as one value.
FateOf == [r \in Requests |-> Fate(r)]

\* A step that admits or settles one record and leaves the others alone is a step of
\* OutcomeDelivery.
LEMMA FateMove ==
  ASSUME NEW r \in Requests,
         \A q \in Requests \ {r} : Fate(q)' = Fate(q),
         \/ Fate(r) = "new" /\ Fate(r)' \in {"accepted", "lost", "refused"}
         \/ Fate(r) = "accepted" /\ Fate(r)' \in {"delivered", "lost"}
  PROVE  Delivery!Next
<1>1. FateOf[r] = Fate(r) /\ FateOf' = [FateOf EXCEPT ![r] = Fate(r)']
  BY DEF FateOf
<1>2. Delivery!Admit(r) \/ Delivery!Settle(r)
  BY <1>1 DEF Delivery!Admit, Delivery!Settle, Delivery!Move, FateOf
<1>3. QED
  BY <1>2 DEF Delivery!Next

\* A gap record moves the lost records it stands for together.
LEMMA FateRecorded ==
  ASSUME \A q \in Requests : \/ Fate(q)' = Fate(q)
                             \/ Fate(q) = "lost" /\ Fate(q)' = "recorded"
  PROVE  Delivery!Next
<1> DEFINE S == {q \in Requests : Fate(q) = "lost" /\ Fate(q)' = "recorded"}
<1>1. S \in SUBSET {q \in Requests : FateOf[q] = "lost"}
  BY DEF FateOf
<1>2. FateOf' = [q \in Requests |-> IF q \in S THEN "recorded" ELSE FateOf[q]]
  BY DEF FateOf
<1> HIDE DEF S
<1>3. Delivery!RecordGap
  BY <1>1, <1>2 DEF Delivery!RecordGap, FateOf
<1>4. QED
  BY <1>3 DEF Delivery!Next

\* Every step of the dispatcher is a step of OutcomeDelivery or leaves every fate alone:
\* admission decides a fate, the worker settles accepted records only, a gap record
\* covers lost ones, and claims, merges and commits change none.
LEMMA FateStep == FateInv /\ [Next]_vars => Delivery!Next \/ UNCHANGED FateOf
<1> SUFFICES ASSUME FateInv, [Next]_vars PROVE Delivery!Next \/ UNCHANGED FateOf
  OBVIOUS
<1> USE DEF FateInv, LossInv, IInv
<1>t. /\ TypeOK /\ WorkerTypeOK /\ FileTypeOK
      /\ admission \in [Requests -> Admission]
  BY DEF TypeOK, RequestTypeOK
<1>a. ASSUME \A r \in Requests : Fate(r)' = Fate(r) PROVE UNCHANGED FateOf
  BY <1>a DEF FateOf
<1>b. ASSUME UNCHANGED <<admission, closures, gapRecords>>,
             \A s \in Sources : /\ Pending(s)' \subseteq Pending(s)
                                /\ Pending(s) \subseteq Pending(s)' \cup gapRecords[s]
      PROVE  UNCHANGED FateOf
  BY <1>a, <1>b DEF Fate
<1>c. ASSUME UNCHANGED <<admission, closures, gapRecords, slots, claimed>>
      PROVE  UNCHANGED FateOf
  BY <1>b, <1>c DEF Pending
<1>1. ASSUME NEW r \in Requests, TryDispatch(r) PROVE Delivery!Next
  <2>1. /\ admission[r] = NotDispatched /\ ~Accounted(r) /\ r \notin closures
        /\ \A q \in Requests \ {r} : admission'[q] = admission[q]
        /\ admission'[r].session \in {"accepted", "rejected"}
        /\ ~admission'[r].lifecycleError
        /\ UNCHANGED <<closures, gapRecords, slots, claimed>>
    BY <1>1, <1>t DEF TryDispatch, SessionResult, AdmittedInv, NotDispatched, fileVars, gapVars
  <2>2. \A q \in Requests \ {r} : Fate(q)' = Fate(q)
    BY <2>1 DEF Fate, Pending
  <2>3. Fate(r) = "new" /\ Fate(r)' \in {"accepted", "lost"}
    BY <2>1 DEF Fate, Accounted, NotDispatched, Pending
  <2>4. QED
    BY <2>2, <2>3, FateMove
<1>2. ASSUME NEW r \in Requests, RefuseDispatch(r) PROVE Delivery!Next
  <2>1. /\ admission[r] = NotDispatched
        /\ \A q \in Requests \ {r} : admission'[q] = admission[q]
        /\ admission'[r].lifecycleError
        /\ UNCHANGED <<closures, gapRecords, slots, claimed>>
    BY <1>2, <1>t DEF RefuseDispatch, AdmittedInv, NotDispatched, Admission, fileVars, gapVars
  <2>2. \A q \in Requests \ {r} : Fate(q)' = Fate(q)
    BY <2>1 DEF Fate, Pending
  <2>3. Fate(r) = "new" /\ Fate(r)' = "refused"
    BY <2>1 DEF Fate, NotDispatched
  <2>4. QED
    BY <2>2, <2>3, FateMove
<1>3. ASSUME NEW r \in Requests, AccumulateQueueFull(r) PROVE UNCHANGED FateOf
  <2>1. /\ admission[r].session = "rejected"
        /\ UNCHANGED <<admission, closures, gapRecords>>
        /\ \A s \in Sources : Pending(s)' \in {Pending(s), Pending(s) \cup {r}}
    BY <1>3, <1>t, Scopes, AccumulatePending DEF AccumulateQueueFull, LeaveInv, fileVars
  <2>2. \A q \in Requests : Fate(q)' = Fate(q)
    <3>1. Fate(r)' = Fate(r)
      BY <2>1 DEF Fate
    <3>2. \A q \in Requests \ {r} : Fate(q)' = Fate(q)
      BY <2>1 DEF Fate
    <3>3. QED
      BY <3>1, <3>2
  <2>3. QED
    BY <1>a, <2>2
<1>4. ASSUME NEW r \in Requests, ObserveQueueFull(r) PROVE UNCHANGED FateOf
  BY <1>c, <1>4 DEF ObserveQueueFull, fileVars, gapVars
<1>5. CASE TakeSession
  BY <1>c, <1>5 DEF TakeSession, fileVars, gapVars
<1>6. CASE WriteClosure
  <2>1. /\ worker.pc = "write"
        /\ closures \subseteq closures' /\ closures' \subseteq closures \cup worker.job
        /\ UNCHANGED <<admission, gapRecords, slots, claimed>>
    BY <1>6 DEF WriteClosure, gapVars, dispatchVars
  <2>2. CASE closures' = closures
    BY <1>c, <2>1, <2>2
  <2>3. CASE closures' # closures
    <3>1. PICK r \in worker.job : r \notin closures /\ r \in closures'
      BY <2>1, <2>3
    <3>2. r \in Requests /\ \A q \in worker.job : q = r
      BY <1>t DEF WorkerTypeOK, WorkerInv
    <3>3. admission[r].session = "accepted" /\ ~Accounted(r) /\ ~admission[r].lifecycleError
      BY <2>1, <3>2 DEF AdmittedInv, LaneInv, InHand
    <3>4. Fate(r) = "accepted" /\ Fate(r)' = "delivered"
      BY <2>1, <3>1, <3>3 DEF Fate, Accounted, Pending
    <3>5. \A q \in Requests \ {r} : Fate(q)' = Fate(q)
      BY <2>1, <3>2 DEF Fate, Pending
    <3>6. QED
      BY <3>2, <3>4, <3>5, FateMove
  <2>4. QED
    BY <2>2, <2>3
<1>7. CASE AccumulateSink
  <2>1. PICK r \in worker.job : Accumulate(LogSink, r)
    BY <1>7 DEF AccumulateSink
  <2>2. /\ r \in Requests /\ worker.pc \in {"accumulate", "accumulate_gap"}
        /\ UNCHANGED <<admission, closures, gapRecords>>
    BY <1>7, <1>t DEF AccumulateSink, WorkerTypeOK, dispatchVars, fileVars
  <2>3. /\ \A s \in Sources : \A q \in Requests \ {r} : q \in Pending(s)' <=> q \in Pending(s)
        /\ r \in Pending(LogSink)'
    BY <2>1, <2>2, <1>t, Scopes, AccumulatePending
  <2>4. \A q \in Requests \ {r} : Fate(q)' = Fate(q)
    BY <2>2, <2>3 DEF Fate
  <2>5. admission[r].session = "accepted" /\ ~admission[r].lifecycleError
    BY <2>1, <2>2 DEF AdmittedInv
  <2>6. CASE r \in closures
    <3>1. Fate(r)' = Fate(r)
      BY <2>2, <2>6 DEF Fate
    <3>2. QED
      BY <1>a, <2>4, <3>1
  <2>7. CASE r \notin closures
    <3>1. worker.pc = "accumulate"
      BY <2>1, <2>2, <2>7 DEF LaneInv
    <3>2. ~Accounted(r)
      BY <2>1, <2>2, <3>1 DEF LaneInv, InHand
    <3>3. Fate(r) = "accepted" /\ Fate(r)' = "lost"
      BY <2>2, <2>3, <2>5, <2>7, <3>2, Scopes DEF Fate, Accounted
    <3>4. QED
      BY <2>2, <2>4, <3>3, FateMove
  <2>8. QED
    BY <2>6, <2>7
<1>8. CASE ObserveSink
  BY <1>c, <1>8 DEF ObserveSink, dispatchVars, fileVars, gapVars
<1>9. CASE ClaimGaps
  BY <1>b, <1>9, ClaimPending DEF ClaimGaps, dispatchVars, fileVars
<1>10. CASE WriteGapRecord
  <2>1. /\ UNCHANGED <<admission, closures, slots, claimed>>
        /\ \A s \in Sources : /\ gapRecords[s] \subseteq gapRecords'[s]
                              /\ gapRecords'[s] \subseteq gapRecords[s] \cup Pending(s)
    BY <1>10 DEF WriteGapRecord, WithRecord, Pending, dispatchVars, gapVars
  <2>2. ASSUME NEW q \in Requests
        PROVE  \/ Fate(q)' = Fate(q)
               \/ Fate(q) = "lost" /\ Fate(q)' = "recorded"
    BY <2>1 DEF Fate, Pending
  <2>3. QED
    BY <2>2, FateRecorded
<1>11. CASE MergeGaps
  BY <1>b, <1>11, MergePending DEF MergeGaps, dispatchVars, fileVars
<1>12. CASE CommitGaps
  BY <1>b, <1>12, CommitPending DEF CommitGaps, dispatchVars, fileVars
<1>13. CASE (\E s \in Sources : ObserveCommit(s)) \/ EndReplay \/ StopSession
  BY <1>c, <1>13 DEF ObserveCommit, EndReplay, StopSession, dispatchVars, fileVars, gapVars
<1>14. CASE EmitTerminal \/ BeginClose \/ EndClose \/ UNCHANGED vars
  BY <1>c, <1>14 DEF EmitTerminal, BeginClose, EndClose, vars, dispatchVars, gapVars, fileVars
<1> QED
  BY <1>1, <1>2, <1>3, <1>4, <1>5, <1>6, <1>7, <1>8, <1>9, <1>10, <1>11, <1>12, <1>13,
     <1>14 DEF Next, Request, SessionWorker

\* The lane keeps the safety half of its promise: an admitted record is delivered or
\* lost and never both, a lost one goes on only to a gap record, nothing refused is
\* ever delivered, and no fate is taken back.
THEOREM DeliverySafe == Spec => Delivery!SafeSpec
<1>1. Init => FateInv
  <2>1. Init => LossInv
    BY InitInv DEF Init, LossInv, WorkerInv, NoSilentLoss, NotDispatched
  <2>2. Init => LeaveInv
    BY DEF Init, LeaveInv
  <2>3. Init => AdmittedInv
    BY DEF Init, GapInit, NoClaim, NoSummary, AdmittedInv, InQueue, Accounted, Pending,
           NotDispatched
  <2>4. Init => LaneInv
    BY DEF Init, LaneInv, InQueue, InHand
  <2>5. QED
    BY <2>1, <2>2, <2>3, <2>4 DEF FateInv
<1>2. Init => Delivery!Init
  BY DEF Init, Delivery!Init, Fate, NotDispatched
<1>3. FateInv /\ [Next]_vars => [Delivery!Next]_FateOf
  BY FateStep
<1>4. Init /\ [][Next]_vars => []FateInv
  BY <1>1, FateInvStep, PTL
<1>5. Spec => Delivery!Init /\ [][Delivery!Next]_FateOf
  BY <1>2, <1>3, <1>4, PTL DEF Spec
<1>6. QED
  BY <1>5, PTL DEF Delivery!SafeSpec, FateOf
=============================================================================
