------------------------ MODULE RequestOutcomeProofs ------------------------
(***************************************************************************)
(* Theorems about RequestOutcome, for every number of requests, writes and *)
(* workers: one closure per request, after its last answer, with the worst *)
(* of the results; and a shutdown that waits for its handlers refuses      *)
(* nothing.  The invariant of the persistence writer is used as it stands. *)
(***************************************************************************)
EXTENDS RequestOutcome, PersistenceWriterProofs, FiniteSetTheorems

-----------------------------------------------------------------------------
(* The inductive invariant                                                 *)

\* The completions that r's collector waits for: begun and not yet answered.
Outstanding(r) ==
  {op \in Ops :
     /\ Owner[op] = r
     /\ receipt[op] = "none"
     /\ admission[op] # "none" \/ (handler[r].pc = "submit" /\ handler[r].op = op)}

\* The pending counter counts them.
Counts(r) ==
  /\ IsFiniteSet(Outstanding(r))
  /\ collector[r].pending = Cardinality(Outstanding(r))

\* What a handler holds between two of its critical sections.
HandlerInv(r) ==
  /\ handler[r].pc = "submit" =>
       /\ handler[r].op \in Ops /\ Owner[handler[r].op] = r
       /\ admission[handler[r].op] = "none"
  /\ handler[r].pc = "refused" =>
       /\ handler[r].op \in Ops /\ Owner[handler[r].op] = r
       /\ admission[handler[r].op] \in {"queue_full", "lifecycle"}
       /\ receipt[handler[r].op] = "none"
  /\ handler[r].pc \in {"class", "blocked"} => "failed" \in handler[r].archive
  /\ handler[r].pc = "transition" => NothingWritten(r) /\ "transition" \in handler[r].faults
  /\ handler[r].pc = "sealed" <=> collector[r].sealed
  /\ handler[r].duty # "none" => handler[r].pc \in {"run", "sealed"}

\* A finalized collector waits for nothing.
FinalInv(r) == collector[r].finalized => collector[r].sealed /\ Outstanding(r) = {}

\* A worker owes the collector of the write it has just completed.
DutyInv == \A w \in Workers : workerDuty[w] # "none" => worker[w].pc = "observe"

Owes(w, r) == workerDuty[w] = "dispatch" /\ Owner[worker[w].op] = r

\* Of all that change a collector one finalizes it, and that one dispatches.
DispatchInv(r) ==
  /\ dispatches[r] <= 1
  /\ ~collector[r].finalized \/ dispatches[r] = 1 =>
       handler[r].duty # "dispatch" /\ \A w \in Workers : ~Owes(w, r)
  /\ ~collector[r].finalized => dispatches[r] = 0
  /\ \A w \in Workers : Owes(w, r) =>
       /\ handler[r].duty # "dispatch"
       /\ \A v \in Workers : Owes(v, r) => v = w

\* The class is that of a fault, or of a result as bad as the worst; without either
\* there is none to tell.
Named(results, worst, class, faults) ==
  IF worst \in {"failed", "unavailable"} \/ faults # {}
  THEN \/ class \in faults
       \/ worst \in {"failed", "unavailable"}
          /\ \E x \in results : x.state = worst /\ x.class = class
  ELSE class = "unknown"

\* The collector holds the worst of the results so far, with a class that fits; the
\* class of a failed archive commit follows in a second call.
Told(results, worst, class, faults, pc) ==
  /\ \A x \in results : Severity(x.state) <= Severity(worst)
  /\ worst # "not_attempted" => \E x \in results : x.state = worst
  /\ pc # "class" => Named(results, worst, class, faults)

ResultInv(r) ==
  Told(Results(r), collector[r].disk, collector[r].class, FaultClasses(r), handler[r].pc)

RequestInv(r) ==
  Counts(r) /\ HandlerInv(r) /\ FinalInv(r) /\ DispatchInv(r) /\ ResultInv(r)

\* The stages of the shutdown: the writer is closed after the HTTP server, the
\* dispatcher after the writer has drained.
ShutdownInv ==
  /\ closing => stage \in {"persistence", "outcome"}
  /\ stage = "outcome" => drained
  /\ ~timedOut /\ stage \in {"persistence", "outcome"} => \A r \in Requests : Returned(r)
  /\ OrderlyShutdownRefusesNothing

OInv ==
  /\ IInv /\ OutcomeTypeOK /\ DutyInv /\ ShutdownInv
  /\ \A r \in Requests : RequestInv(r)

-----------------------------------------------------------------------------
(* Steps of the writer, and types                                          *)

\* What the handler writes into its snapshot is seen by nobody else.
LEMMA SnapshotFrame ==
  ASSUME NEW r \in Requests, SetSnapshot(r)
  PROVE  UNCHANGED <<vars, dispatches, refusals, workerDuty, stage, timedOut>>
BY DEF SetSnapshot, LoadFails, TransitionFails, SetTransitionState, CommitArchive,
       SetArchiveClass, BlockFallback, UpstreamFails

\* Every step of the closure is a step of the persistence writer or leaves it alone.
LEMMA WriterStep == OInv /\ [OutcomeNext]_allVars => [Next]_vars
<1> SUFFICES ASSUME OInv, [OutcomeNext]_allVars PROVE [Next]_vars
  OBVIOUS
<1>1. ASSUME NEW r \in Requests, Accept(r) PROVE UNCHANGED vars
  BY <1>1 DEF Accept
<1>2. ASSUME NEW r \in Requests, Handler(r) PROVE [Next]_vars
  <2>1. ASSUME NEW op \in Ops, BeginAsyncResult(op) PROVE UNCHANGED vars
    BY <2>1 DEF BeginAsyncResult
  <2>2. ASSUME TrySubmit(r) PROVE Next
    <3>1. handler[r].op \in Ops
      BY <2>2 DEF TrySubmit, OInv, RequestInv, HandlerInv
    <3>2. Submit(handler[r].op) \/ RefuseSubmit(handler[r].op)
      BY <2>2 DEF TrySubmit
    <3>3. QED
      BY <3>1, <3>2 DEF Next
  <2>3. ASSUME CompleteImmediately(r) PROVE Next
    <3>1. handler[r].op \in Ops
      BY <2>3 DEF CompleteImmediately, OInv, RequestInv, HandlerInv
    <3>2. CompleteRefused(handler[r].op)
      BY <2>3 DEF CompleteImmediately
    <3>3. QED
      BY <3>1, <3>2 DEF Next
  <2>4. ASSUME SetSnapshot(r) \/ SealProducers(r) \/ HandlerDuty(r) PROVE UNCHANGED vars
    BY <2>4, SnapshotFrame DEF SealProducers, HandlerDuty
  <2>5. QED
    BY <1>2, <2>1, <2>2, <2>3, <2>4 DEF Handler
<1>3. ASSUME NEW w \in Workers, OutcomeWorker(w) PROVE [Next]_vars
  <2>1. CASE CompleteWrite(w)
    BY <2>1 DEF CompleteWrite, Next, WorkerStep
  <2>2. CASE WorkerDuty(w)
    BY <2>2 DEF WorkerDuty
  <2>3. CASE OtherWorkerStep(w)
    BY <2>3 DEF OtherWorkerStep, Next, WorkerStep
  <2>4. QED
    BY <1>3, <2>1, <2>2, <2>3 DEF OutcomeWorker
<1>4. ASSUME BeginShutdown PROVE UNCHANGED vars
  BY <1>4 DEF BeginShutdown
<1>5. ASSUME StopPersistence PROVE Next
  BY <1>5 DEF StopPersistence, Next
<1>6. ASSUME StopOutcome PROVE Next
  BY <1>6 DEF StopOutcome, Next
<1>7. ASSUME UNCHANGED allVars PROVE UNCHANGED vars
  BY <1>7 DEF allVars
<1>8. QED
  BY <1>1, <1>2, <1>3, <1>4, <1>5, <1>6, <1>7 DEF OutcomeNext

\* The worse of two states is one of them, and at least as bad as both.
LEMMA MergeFacts ==
  ASSUME NEW known \in DiskStates, NEW next \in DiskStates
  PROVE  /\ MergeState(known, next) \in {known, next}
         /\ MergeState(known, next) \in DiskStates
         /\ Severity(known) <= Severity(MergeState(known, next))
         /\ Severity(next) <= Severity(MergeState(known, next))
         /\ MergeState(known, next) # next => Severity(next) < Severity(known)
BY DEF MergeState, Severity, DiskStates

\* States of one severity are the same.
LEMMA SeverityOrders ==
  ASSUME NEW s \in DiskStates, NEW t \in DiskStates
  PROVE  /\ Severity(s) \in 1..4
         /\ Severity(s) = Severity(t) => s = t
         /\ s = "not_attempted" <=> Severity(s) = 1
         /\ s \in {"unavailable", "failed"} <=> Severity(s) >= 3
         /\ s = "failed" <=> Severity(s) = 4
BY DEF Severity, DiskStates

\* A collector stays one whichever of its fields is set.
LEMMA CollectorType ==
  ASSUME NEW c \in Collector, NEW p \in Nat, NEW d \in DiskStates, NEW e \in FailureClasses
  PROVE  /\ [c EXCEPT !.pending = p] \in Collector
         /\ [c EXCEPT !.sealed = TRUE] \in Collector
         /\ [c EXCEPT !.finalized = TRUE] \in Collector
         /\ [c EXCEPT !.disk = d] \in Collector
         /\ [c EXCEPT !.class = e] \in Collector
         /\ [c EXCEPT !.pending = p, !.disk = d, !.class = e] \in Collector
<1>1. [c EXCEPT !.pending = p] \in Collector
  BY DEF Collector
<1>2. [c EXCEPT !.sealed = TRUE] \in Collector
  BY DEF Collector
<1>3. [c EXCEPT !.finalized = TRUE] \in Collector
  BY DEF Collector
<1>4. [c EXCEPT !.disk = d] \in Collector
  BY DEF Collector
<1>5. [c EXCEPT !.class = e] \in Collector
  BY DEF Collector
<1>6. [c EXCEPT !.pending = p, !.disk = d, !.class = e] \in Collector
  BY DEF Collector
<1>7. QED
  BY <1>1, <1>2, <1>3, <1>4, <1>5, <1>6

\* What becomes of a collector that a result is applied to.
LEMMA AppliedFacts ==
  ASSUME NEW c \in Collector, NEW state \in DiskStates,
         NEW class \in FailureClasses \cup {"none"},
         NEW d, d = Applied(c, state, class)
  PROVE  /\ d \in Collector
         /\ d.sealed = c.sealed
         /\ d.finalized = c.finalized
         /\ d.pending = IF c.pending > 0 THEN c.pending - 1 ELSE c.pending
         /\ d.disk = MergeState(c.disk, state)
         /\ d.class = IF class # "none" /\ MergeState(c.disk, state) = state
                      THEN class ELSE c.class
<1> DEFINE p == IF c.pending > 0 THEN c.pending - 1 ELSE c.pending
           m == MergeState(c.disk, state)
           e == IF class # "none" /\ m = state THEN class ELSE c.class
<1>1. m \in DiskStates
  BY MergeFacts DEF Collector
<1>2. p \in Nat /\ e \in FailureClasses
  BY DEF Collector
<1>3. d = [c EXCEPT !.pending = p, !.disk = m, !.class = e]
  BY DEF Applied
<1> HIDE DEF p, m, e
<1>4. d \in Collector
  BY <1>1, <1>2, <1>3 DEF Collector
<1>5. d.pending = p /\ d.disk = m /\ d.class = e
  BY <1>3 DEF Collector
<1>6. d.sealed = c.sealed
  BY <1>3 DEF Collector
<1>7. d.finalized = c.finalized
  BY <1>3 DEF Collector
<1>8. QED
  BY <1>4, <1>5, <1>6, <1>7 DEF p, m, e

HandlerPC == {"idle", "run", "submit", "refused", "class", "blocked", "transition", "forward",
              "sealed"}
ArchiveResults == {"saved", "failed"}
HandlerStates == [pc: HandlerPC, op: Ops \cup {NoOp}, duty: Duty,
                  archive: SUBSET ArchiveResults, faults: SUBSET Faults]

\* A handler's state stays one when it is moved on,
LEMMA HandlerMoved ==
  ASSUME NEW h \in HandlerStates, NEW pc \in HandlerPC
  PROVE  [h EXCEPT !.pc = pc] \in HandlerStates
BY DEF HandlerStates

\* also with a duty,
LEMMA HandlerOwes ==
  ASSUME NEW h \in HandlerStates, NEW pc \in HandlerPC, NEW duty \in Duty
  PROVE  [h EXCEPT !.pc = pc, !.duty = duty] \in HandlerStates
BY DEF HandlerStates

\* with a result of the archive,
LEMMA HandlerArchived ==
  ASSUME NEW h \in HandlerStates, NEW pc \in HandlerPC, NEW archive \in SUBSET ArchiveResults
  PROVE  [h EXCEPT !.archive = archive, !.pc = pc] \in HandlerStates
BY DEF HandlerStates

\* and with a fault, after which it may go on as before.
LEMMA HandlerFaulted ==
  ASSUME NEW h \in HandlerStates, NEW pc \in HandlerPC, NEW faults \in SUBSET Faults
  PROVE  /\ [h EXCEPT !.faults = faults] \in HandlerStates
         /\ [h EXCEPT !.faults = faults, !.pc = pc] \in HandlerStates
<1>1. [h EXCEPT !.faults = faults] \in HandlerStates
  BY DEF HandlerStates
<1>2. [h EXCEPT !.faults = faults, !.pc = pc] \in HandlerStates
  BY DEF HandlerStates
<1>3. QED
  BY <1>1, <1>2

\* Setting the class of a collector, or its disk state, leaves the rest of it.
LEMMA ClassSet ==
  ASSUME OutcomeTypeOK, NEW r \in Requests, NEW e \in FailureClasses,
         collector' = [collector EXCEPT ![r].class = e]
  PROVE  /\ collector' \in [Requests -> Collector]
         /\ collector'[r].class = e /\ collector'[r].disk = collector[r].disk
         /\ collector'[r].pending = collector[r].pending
         /\ collector'[r].sealed = collector[r].sealed
         /\ collector'[r].finalized = collector[r].finalized
         /\ \A q \in Requests \ {r} : collector'[q] = collector[q]
<1>1. collector \in [Requests -> Collector] /\ collector[r] \in Collector
  BY DEF OutcomeTypeOK
<1> DEFINE c == [collector[r] EXCEPT !.class = e]
<1>2. collector' = [collector EXCEPT ![r] = c]
  OBVIOUS
<1>3. c \in Collector
  BY <1>1 DEF Collector
<1>4. /\ c.class = e /\ c.disk = collector[r].disk /\ c.pending = collector[r].pending
  BY <1>1 DEF Collector
<1>5. c.sealed = collector[r].sealed
  BY <1>1 DEF Collector
<1>6. c.finalized = collector[r].finalized
  BY <1>1 DEF Collector
<1> HIDE DEF c
<1>7. QED
  BY <1>1, <1>2, <1>3, <1>4, <1>5, <1>6

LEMMA DiskSet ==
  ASSUME OutcomeTypeOK, NEW r \in Requests, NEW d \in DiskStates,
         collector' = [collector EXCEPT ![r].disk = d]
  PROVE  /\ collector' \in [Requests -> Collector]
         /\ collector'[r].disk = d /\ collector'[r].class = collector[r].class
         /\ collector'[r].pending = collector[r].pending
         /\ collector'[r].sealed = collector[r].sealed
         /\ collector'[r].finalized = collector[r].finalized
         /\ \A q \in Requests \ {r} : collector'[q] = collector[q]
<1>1. collector \in [Requests -> Collector] /\ collector[r] \in Collector
  BY DEF OutcomeTypeOK
<1> DEFINE c == [collector[r] EXCEPT !.disk = d]
<1>2. collector' = [collector EXCEPT ![r] = c]
  OBVIOUS
<1>3. c \in Collector
  BY <1>1 DEF Collector
<1>4. /\ c.disk = d /\ c.class = collector[r].class /\ c.pending = collector[r].pending
  BY <1>1 DEF Collector
<1>5. c.sealed = collector[r].sealed
  BY <1>1 DEF Collector
<1>6. c.finalized = collector[r].finalized
  BY <1>1 DEF Collector
<1> HIDE DEF c
<1>7. QED
  BY <1>1, <1>2, <1>3, <1>4, <1>5, <1>6

\* Every step keeps collectors, handlers and duties typed.
LEMMA OutcomeTypeStep ==
  ASSUME OInv, [OutcomeNext]_allVars
  PROVE  OutcomeTypeOK'
<1>1. TypeOK'
  BY WriterStep, TypeStep DEF OInv, OutcomeTypeOK
<1>2. OutcomeTypeOK
  BY DEF OInv
<1>0. handler \in [Requests -> HandlerStates]
  BY <1>2 DEF OutcomeTypeOK, HandlerStates, HandlerPC, ArchiveResults
<1> USE <1>2 DEF OutcomeTypeOK, Duty
<1>3. ASSUME NEW r \in Requests, Accept(r) PROVE OutcomeTypeOK'
  BY <1>1, <1>3 DEF Accept, outcomeVars
<1>4. ASSUME NEW op \in Ops, BeginAsyncResult(op) PROVE OutcomeTypeOK'
  <2>1. Owner[op] \in Requests
    BY OutcomeAssumption
  <2>2. collector' \in [Requests -> Collector]
    <3>1. collector[Owner[op]].pending + 1 \in Nat
      BY <2>1 DEF Collector
    <3>2. [collector[Owner[op]] EXCEPT !.pending = collector[Owner[op]].pending + 1] \in Collector
      BY <2>1, <3>1, CollectorType DEF DiskStates, FailureClasses
    <3>3. QED
      BY <1>4, <2>1, <3>2 DEF BeginAsyncResult
  <2>3. QED
    <3>1. [handler[Owner[op]] EXCEPT !.pc = "submit", !.op = op] \in HandlerStates
      <4>1. handler[Owner[op]] \in HandlerStates
        BY <1>0, <2>1
      <4>2. QED
        BY <4>1 DEF HandlerStates, HandlerPC
    <3>2. handler' = [handler EXCEPT ![Owner[op]] =
                        [handler[Owner[op]] EXCEPT !.pc = "submit", !.op = op]]
      BY <1>4 DEF BeginAsyncResult
    <3>3. handler' \in [Requests -> HandlerStates]
      BY <1>0, <2>1, <3>1, <3>2
    <3>4. UNCHANGED <<workerDuty, dispatches, stage, timedOut, refusals>>
      BY <1>4 DEF BeginAsyncResult
    <3>5. QED
      BY <1>1, <2>2, <3>3, <3>4 DEF HandlerStates, HandlerPC, ArchiveResults
<1>5. ASSUME NEW r \in Requests, TrySubmit(r) PROVE OutcomeTypeOK'
  <2>1. \A pc \in {"run", "refused"} : [handler[r] EXCEPT !.pc = pc] \in HandlerStates
    BY <1>0, HandlerMoved DEF HandlerPC
  <2>2. \E pc \in {"run", "refused"} :
          handler' = [handler EXCEPT ![r] = [handler[r] EXCEPT !.pc = pc]]
    BY <1>5 DEF TrySubmit
  <2>3. handler' \in [Requests -> HandlerStates]
    <3>1. PICK h \in HandlerStates : handler' = [handler EXCEPT ![r] = h]
      BY <2>1, <2>2
    <3>2. QED
      BY <1>0, <3>1
  <2>4. QED
    BY <1>1, <1>5, <2>3 DEF TrySubmit, outcomeVars, HandlerStates, HandlerPC, ArchiveResults
<1>6. ASSUME NEW r \in Requests, CompleteImmediately(r) PROVE OutcomeTypeOK'
  <2>1. admission[handler[r].op] \in FailureClasses
    BY <1>6 DEF CompleteImmediately, CompleteRefused, FailureClasses
  <2>2. Applied(collector[r], "unavailable", admission[handler[r].op]) \in Collector
    BY <2>1, AppliedFacts DEF DiskStates
  <2>3. collector' \in [Requests -> Collector]
    BY <1>6, <2>2 DEF CompleteImmediately, CompleteResult
  <2>4. handler' \in [Requests -> HandlerStates]
    <3>1. [handler[r] EXCEPT !.pc = "run", !.duty = "finalize"] \in HandlerStates
      BY <1>0, HandlerOwes DEF HandlerPC
    <3>2. handler' = [handler EXCEPT ![r] = [handler[r] EXCEPT !.pc = "run", !.duty = "finalize"]]
      BY <1>6 DEF CompleteImmediately
    <3>3. QED
      BY <1>0, <3>1, <3>2
  <2>5. QED
    BY <1>1, <1>6, <2>3, <2>4 DEF CompleteImmediately, HandlerStates, HandlerPC, ArchiveResults
<1>7. ASSUME NEW r \in Requests, SetSnapshot(r) PROVE OutcomeTypeOK'
  <2>1. handler[r] \in HandlerStates
    BY <1>0
  <2>2. /\ {"run", "class", "blocked", "transition", "forward"} \subseteq HandlerPC
        /\ handler[r].pc \in HandlerPC
        /\ {"load", "transition", "upstream"} \subseteq Faults
        /\ handler[r].faults \in SUBSET Faults /\ handler[r].archive \in SUBSET ArchiveResults
        /\ {"sqlite", "archive", "upstream"} \subseteq FailureClasses
    BY <2>1 DEF HandlerPC, HandlerStates, Faults, FailureClasses
  <2>3. UNCHANGED <<vars, dispatches, refusals, workerDuty, stage, timedOut>>
    BY <1>7, SnapshotFrame
  <2>4. /\ collector' \in [Requests -> Collector]
        /\ \E h \in HandlerStates : handler' = [handler EXCEPT ![r] = h]
    <3>1. CASE LoadFails(r)
      <4> DEFINE faults == handler[r].faults \cup {"load"}
      <4>1. faults \in SUBSET Faults
        BY <2>2
      <4> HIDE DEF faults
      <4>2. [handler[r] EXCEPT !.faults = faults] \in HandlerStates
        BY <2>1, <2>2, <4>1, HandlerFaulted
      <4>3. handler' = [handler EXCEPT ![r] = [handler[r] EXCEPT !.faults = faults]]
        BY <3>1 DEF LoadFails, faults
      <4>4. QED
        BY <2>2, <3>1, <4>2, <4>3, ClassSet DEF LoadFails
    <3>2. CASE TransitionFails(r)
      <4>0. {"transition"} \in SUBSET Faults /\ "transition" \in HandlerPC
        BY <2>2
      <4>1. [handler[r] EXCEPT !.faults = {"transition"}, !.pc = "transition"] \in HandlerStates
        BY <2>1, <4>0, HandlerFaulted, ZenonT(30)
      <4>2. QED
        <5>1. handler' = [handler EXCEPT ![r] = [handler[r] EXCEPT !.faults = {"transition"},
                                                                   !.pc = "transition"]]
          BY <3>2 DEF TransitionFails
        <5>2. collector' \in [Requests -> Collector]
          BY <2>2, <3>2, ClassSet DEF TransitionFails
        <5>3. QED
          BY <4>1, <5>1, <5>2
    <3>3. CASE SetTransitionState(r)
      <4>1. [handler[r] EXCEPT !.pc = "forward"] \in HandlerStates
        BY <2>1, <2>2, HandlerMoved
      <4>2. QED
        BY <2>2, <3>3, <4>1, DiskSet DEF SetTransitionState, DiskStates
    <3>4. CASE CommitArchive(r)
      <4>1. PICK result \in {"saved", "failed"} :
              /\ collector' = [collector EXCEPT ![r].disk = MergeState(collector[r].disk, result)]
              /\ handler' = [handler EXCEPT ![r].archive = @ \cup {result},
                                            ![r].pc = IF result = "saved" THEN "run" ELSE "class"]
        BY <3>4 DEF CommitArchive
      <4> DEFINE pc == IF result = "saved" THEN "run" ELSE "class"
                 archive == handler[r].archive \cup {result}
      <4>2. pc \in HandlerPC /\ archive \in SUBSET ArchiveResults
        BY <2>2 DEF ArchiveResults
      <4>3. handler' = [handler EXCEPT ![r] = [handler[r] EXCEPT !.archive = archive, !.pc = pc]]
        BY <4>1
      <4> HIDE DEF pc, archive
      <4>4. [handler[r] EXCEPT !.archive = archive, !.pc = pc] \in HandlerStates
        BY <2>1, <2>2, <4>2, HandlerArchived
      <4>5. MergeState(collector[r].disk, result) \in DiskStates
        BY MergeFacts DEF Collector, DiskStates
      <4>6. collector' \in [Requests -> Collector]
        BY <4>1, <4>5, DiskSet
      <4>7. QED
        BY <4>3, <4>4, <4>6
    <3>5. CASE SetArchiveClass(r)
      <4>1. [handler[r] EXCEPT !.pc = "blocked"] \in HandlerStates
        BY <2>1, <2>2, HandlerMoved
      <4>2. QED
        BY <2>2, <3>5, <4>1, ClassSet DEF SetArchiveClass
    <3>6. CASE BlockFallback(r)
      <4>1. [handler[r] EXCEPT !.pc = "forward"] \in HandlerStates
        BY <2>1, <2>2, HandlerMoved
      <4>2. QED
        BY <2>2, <3>6, <4>1, ClassSet DEF BlockFallback
    <3>7. CASE UpstreamFails(r)
      <4> DEFINE faults == handler[r].faults \cup {"upstream"}
      <4>0. faults \in SUBSET Faults /\ "forward" \in HandlerPC
        BY <2>2
      <4> HIDE DEF faults
      <4>1. [handler[r] EXCEPT !.faults = faults, !.pc = "forward"] \in HandlerStates
        BY <2>1, <4>0, HandlerFaulted, ZenonT(30)
      <4>2. QED
        <5>1. handler' = [handler EXCEPT ![r] =
                            [handler[r] EXCEPT !.faults = faults, !.pc = "forward"]]
          BY <3>7 DEF UpstreamFails, faults
        <5>2. collector' \in [Requests -> Collector]
          BY <2>2, <3>7, ClassSet DEF UpstreamFails
        <5>3. QED
          BY <4>1, <5>1, <5>2
    <3>8. QED
      BY <1>7, <3>1, <3>2, <3>3, <3>4, <3>5, <3>6, <3>7 DEF SetSnapshot
  <2>5. handler' \in [Requests -> HandlerStates]
    BY <1>0, <2>4
  <2>6. QED
    BY <1>1, <2>3, <2>4, <2>5 DEF HandlerStates, HandlerPC, ArchiveResults
<1>9. ASSUME NEW r \in Requests, SealProducers(r) PROVE OutcomeTypeOK'
  <2>1. [collector[r] EXCEPT !.sealed = TRUE] \in Collector
    BY CollectorType DEF FailureClasses, DiskStates
  <2>2. collector' \in [Requests -> Collector]
    BY <1>9, <2>1 DEF SealProducers
  <2>3. handler' \in [Requests -> HandlerStates]
    <3>1. "sealed" \in HandlerPC /\ "finalize" \in Duty
      BY DEF HandlerPC, ArchiveResults
    <3>2. handler[r] \in HandlerStates
      BY DEF HandlerStates, HandlerPC, ArchiveResults
    <3>3. handler' = [handler EXCEPT ![r] =
                        [handler[r] EXCEPT !.pc = "sealed", !.duty = "finalize"]]
      BY <1>9 DEF SealProducers
    <3>4. [handler[r] EXCEPT !.pc = "sealed", !.duty = "finalize"] \in HandlerStates
      BY <3>1, <3>2, HandlerOwes, ZenonT(30)
    <3>5. QED
      BY <3>3, <3>4, <1>0
  <2>4. QED
    BY <1>1, <1>9, <2>2, <2>3 DEF SealProducers, HandlerStates, HandlerPC, ArchiveResults
<1>10. ASSUME NEW r \in Requests, NEW d, TryFinalize(r) \/ Dispatch(r)
       PROVE  /\ collector' \in [Requests -> Collector]
              /\ dispatches' \in [Requests -> Nat]
              /\ refusals' \subseteq Requests
  <2>1. [collector[r] EXCEPT !.finalized = TRUE] \in Collector
    BY CollectorType DEF FailureClasses, DiskStates
  <2>2. CASE TryFinalize(r)
    BY <2>1, <2>2 DEF TryFinalize
  <2>3. CASE Dispatch(r)
    BY <2>3 DEF Dispatch
  <2>4. QED
    BY <1>10, <2>2, <2>3
<1>11. ASSUME NEW r \in Requests, HandlerDuty(r) PROVE OutcomeTypeOK'
  <2>1. NextDuty(r) \in Duty
    BY DEF NextDuty
  <2>2. QED
    BY <1>1, <1>10, <1>11, <2>1, SMTT(30) DEF HandlerDuty
<1>12. ASSUME NEW w \in Workers, CompleteWrite(w) PROVE OutcomeTypeOK'
  <2>1. worker[w].op \in Ops /\ worker[w].outcome \in {"saved", "failed"}
    BY <1>12 DEF CompleteWrite, Complete, OInv, IInv, HoldInv, Held, Holding
  <2> DEFINE r == Owner[worker[w].op]
  <2>2. r \in Requests
    BY <2>1, OutcomeAssumption
  <2>3. Applied(collector[r], worker[w].outcome,
                IF worker[w].outcome = "failed" THEN "sqlite" ELSE "none") \in Collector
    BY <2>1, <2>2, AppliedFacts DEF DiskStates, FailureClasses
  <2>4. collector' \in [Requests -> Collector]
    BY <1>12, <2>2, <2>3 DEF CompleteWrite, CompleteResult
  <2>5. QED
    BY <1>1, <1>12, <2>4 DEF CompleteWrite
<1>13. ASSUME NEW w \in Workers, WorkerDuty(w) PROVE OutcomeTypeOK'
  <2>1. worker[w].op \in Ops
    BY <1>13 DEF WorkerDuty, OInv, DutyInv, IInv, HoldInv, Held, Holding
  <2>2. Owner[worker[w].op] \in Requests
    BY <2>1, OutcomeAssumption
  <2>3. NextDuty(Owner[worker[w].op]) \in Duty
    BY DEF NextDuty
  <2>4. QED
    BY <1>1, <1>10, <1>13, <2>2, <2>3 DEF WorkerDuty
<1>14. ASSUME NEW w \in Workers, OtherWorkerStep(w) PROVE OutcomeTypeOK'
  BY <1>1, <1>14 DEF OtherWorkerStep, outcomeVars
<1>15. ASSUME BeginShutdown \/ StopPersistence \/ StopOutcome PROVE OutcomeTypeOK'
  BY <1>1, <1>15 DEF BeginShutdown, StopPersistence, StopOutcome, outcomeVars
<1>16. ASSUME UNCHANGED allVars PROVE OutcomeTypeOK'
  BY <1>1, <1>16 DEF allVars, outcomeVars
<1>17. QED
  BY <1>3, <1>4, <1>5, <1>6, <1>7, <1>9, <1>11, <1>12, <1>13, <1>14, <1>15, <1>16
  DEF OutcomeNext, Handler, OutcomeWorker

-----------------------------------------------------------------------------
(* What a step leaves alone                                                *)

\* A worker with a duty is not moved by another, nor by a wake-up.
LEMMA WorkerKept ==
  ASSUME OInv, [OutcomeNext]_allVars, NEW v \in Workers, workerDuty[v] # "none"
  PROVE  worker'[v] = worker[v]
<1>1. worker[v].pc = "observe" /\ worker \in [Workers -> WorkerState]
  BY DEF OInv, DutyInv, OutcomeTypeOK, TypeOK
<1>2. ASSUME Signal PROVE worker'[v] = worker[v]
  BY <1>1, <1>2 DEF Signal, Sleeping
<1>3. Woken[v] = worker[v]
  BY <1>1 DEF Woken, Sleeping
<1>4. ASSUME NEW r \in Requests, Handler(r) PROVE worker'[v] = worker[v]
  <2>1. ASSUME TrySubmit(r) PROVE worker'[v] = worker[v]
    BY <2>1, <1>2 DEF TrySubmit, Submit, RefuseSubmit, queueVars
  <2>2. ASSUME CompleteImmediately(r) PROVE worker'[v] = worker[v]
    BY <2>2 DEF CompleteImmediately, CompleteRefused, queueVars
  <2>3. QED
    BY <1>4, <2>1, <2>2, SnapshotFrame
    DEF Handler, BeginAsyncResult, SealProducers, HandlerDuty, vars, queueVars
<1>5. ASSUME NEW w \in Workers, OutcomeWorker(w) PROVE worker'[v] = worker[v]
  <2>1. CASE CompleteWrite(w)
    BY <1>1, <2>1 DEF CompleteWrite, Complete
  <2>2. CASE WorkerDuty(w)
    BY <2>2 DEF WorkerDuty, vars, queueVars
  <2>3. CASE OtherWorkerStep(w)
    <3>1. v # w
      BY <2>3 DEF OtherWorkerStep
    <3>2. CASE Wake(w)
      BY <3>1, <3>2, <1>1 DEF Wake, NextRunnable
    <3>3. CASE Execute(w)
      BY <3>1, <3>3, <1>1 DEF Execute
    <3>4. CASE ObserveStateResult(w)
      BY <3>1, <3>4, <1>1 DEF ObserveStateResult
    <3>5. CASE Release(w)
      <4>1. Woken \in [Workers -> WorkerState]
        BY <1>1, WokenType
      <4>2. QED
        BY <3>1, <3>5, <1>3, <4>1 DEF Release, NextRunnable
    <3>6. QED
      BY <2>3, <3>2, <3>3, <3>4, <3>5 DEF OtherWorkerStep
  <2>4. QED
    BY <1>5, <2>1, <2>2, <2>3 DEF OutcomeWorker
<1>6. ASSUME StopPersistence PROVE worker'[v] = worker[v]
  BY <1>3, <1>6 DEF StopPersistence, BeginClose
<1>7. ASSUME StopOutcome PROVE worker'[v] = worker[v]
  BY <1>7 DEF StopOutcome, EndClose, queueVars
<1>8. QED
  BY <1>4, <1>5, <1>6, <1>7
  DEF OutcomeNext, Accept, BeginShutdown, allVars, vars, queueVars

\* The workers' duties change when they complete a write and when they perform one.
LEMMA OwesKept ==
  ASSUME OInv, [OutcomeNext]_allVars, \A w \in Workers : ~WorkerDuty(w),
         NEW w \in Workers, NEW r \in Requests
  PROVE  Owes(w, r)' <=> Owes(w, r)
<1>1. CASE CompleteWrite(w)
  <2>1. workerDuty[w] = "none"
    BY <1>1 DEF CompleteWrite, Complete, OInv, DutyInv
  <2>2. workerDuty'[w] = "finalize"
    BY <1>1 DEF CompleteWrite, OInv, OutcomeTypeOK
  <2>3. QED
    BY <2>1, <2>2 DEF Owes
<1>2. CASE ~CompleteWrite(w)
  <2>1. workerDuty'[w] = workerDuty[w]
    <3>1. ASSUME NEW v \in Workers, OutcomeWorker(v) PROVE workerDuty'[w] = workerDuty[w]
      BY <1>2, <3>1 DEF OutcomeWorker, CompleteWrite, OtherWorkerStep, OInv, OutcomeTypeOK
    <3>2. QED
      BY <3>1, SnapshotFrame
      DEF OutcomeNext, Accept, Handler, BeginAsyncResult, TrySubmit, CompleteImmediately,
          SealProducers, HandlerDuty, BeginShutdown, StopPersistence, StopOutcome, allVars
  <2>2. workerDuty[w] # "none" => worker'[w] = worker[w]
    BY WorkerKept
  <2>3. QED
    BY <2>1, <2>2 DEF Owes
<1>3. QED
  BY <1>1, <1>2

\* Duties are owed by workers that observe.
LEMMA DutyStep ==
  ASSUME OInv, [OutcomeNext]_allVars
  PROVE  DutyInv'
<1> SUFFICES ASSUME NEW v \in Workers, workerDuty'[v] # "none" PROVE worker'[v].pc = "observe"
  BY DEF DutyInv
<1>1. CASE workerDuty[v] # "none"
  BY <1>1, WorkerKept DEF OInv, DutyInv
<1>2. CASE workerDuty[v] = "none"
  <2>1. \E w \in Workers : CompleteWrite(w) \/ WorkerDuty(w)
    BY <1>2, SnapshotFrame
    DEF OutcomeNext, Accept, Handler, BeginAsyncResult, TrySubmit, CompleteImmediately,
        SealProducers, HandlerDuty, BeginShutdown, StopPersistence, StopOutcome, OutcomeWorker,
        OtherWorkerStep, allVars
  <2>2. PICK w \in Workers : CompleteWrite(w) \/ WorkerDuty(w)
    BY <2>1
  <2>3. CASE CompleteWrite(w)
    BY <1>2, <2>3 DEF CompleteWrite, Complete, OInv, OutcomeTypeOK, TypeOK, WorkerState
  <2>4. CASE WorkerDuty(w)
    BY <1>2, <2>4 DEF WorkerDuty, OInv, OutcomeTypeOK
  <2>5. QED
    BY <2>2, <2>3, <2>4
<1>3. QED
  BY <1>1, <1>2

\* A request whose collector, handler, writes and debtors are left alone keeps
\* its part of the invariant.
LEMMA RequestFrame ==
  ASSUME NEW q \in Requests, RequestInv(q),
         collector'[q] = collector[q], handler'[q] = handler[q], dispatches'[q] = dispatches[q],
         \A op \in Ops : Owner[op] = q =>
           admission'[op] = admission[op] /\ receipt'[op] = receipt[op],
         \A w \in Workers : Owes(w, q)' <=> Owes(w, q)
  PROVE  RequestInv(q)'
<1>1. Outstanding(q)' = Outstanding(q)
  BY DEF Outstanding
<1>2. Results(q)' = Results(q) /\ FaultClasses(q)' = FaultClasses(q)
  BY DEF Results, FaultClasses
<1>3. Counts(q)' /\ FinalInv(q)'
  BY <1>1 DEF RequestInv, Counts, FinalInv
<1>4. HandlerInv(q)'
  BY DEF RequestInv, HandlerInv, NothingWritten
<1>5. DispatchInv(q)'
  BY DEF RequestInv, DispatchInv
<1>6. ResultInv(q)'
  BY <1>2 DEF RequestInv, ResultInv
<1>7. QED
  BY <1>3, <1>4, <1>5, <1>6 DEF RequestInv

-----------------------------------------------------------------------------
(* Results                                                                 *)

\* One more result, whose class is adopted if its state is.
LEMMA ToldOneMore ==
  ASSUME NEW results, \A x \in results : x.state \in DiskStates,
         NEW worst \in DiskStates, NEW class, NEW faults, NEW pc,
         Told(results, worst, class, faults, pc),
         NEW y, y.state \in DiskStates,
         NEW given, y.state \in {"failed", "unavailable"} => given = y.class /\ given # "none",
         y.state \notin {"failed", "unavailable"} => given = "none",
         NEW next, next = MergeState(worst, y.state),
         NEW nextClass,
         nextClass = IF given # "none" /\ next = y.state THEN given ELSE class,
         NEW nextPc, pc = "class" => nextPc = "class"
  PROVE  Told(results \cup {y}, next, nextClass, faults, nextPc)
<1>1. /\ next \in {worst, y.state} /\ next \in DiskStates
      /\ Severity(worst) <= Severity(next) /\ Severity(y.state) <= Severity(next)
      /\ next # y.state => Severity(y.state) < Severity(worst)
  BY MergeFacts
<1>2. \A s \in DiskStates : Severity(s) \in 1..4
  BY SeverityOrders
<1>3. \A x \in results \cup {y} : Severity(x.state) <= Severity(next)
  <2>1. \A x \in results : Severity(x.state) <= Severity(worst)
    BY DEF Told
  <2>2. QED
    BY <1>1, <1>2, <2>1
<1>4. next # "not_attempted" => \E x \in results \cup {y} : x.state = next
  BY <1>1 DEF Told
<1>5. ASSUME nextPc # "class" PROVE Named(results \cup {y}, next, nextClass, faults)
  <2>1. Named(results, worst, class, faults)
    BY <1>5 DEF Told
  <2>2. CASE next = y.state /\ y.state \in {"failed", "unavailable"}
    BY <2>2 DEF Named
  <2>3. CASE next = y.state /\ y.state \notin {"failed", "unavailable"}
    <3>1. worst \notin {"failed", "unavailable"} /\ nextClass = class
      BY <1>1, <2>3, SeverityOrders
    <3>2. QED
      BY <2>1, <2>3, <3>1 DEF Named
  <2>4. CASE next # y.state
    BY <1>1, <2>1, <2>4 DEF Named
  <2>5. QED
    BY <2>2, <2>3, <2>4
<1>6. QED
  BY <1>3, <1>4, <1>5 DEF Told

\* The result of an archive commit, whose class follows in a second call if it failed.
LEMMA ToldArchive ==
  ASSUME NEW results, \A x \in results : x.state \in DiskStates,
         NEW worst \in DiskStates, NEW class, NEW faults, NEW pc,
         Told(results, worst, class, faults, pc), pc # "class",
         NEW y, y.state \in {"saved", "failed"},
         NEW next, next = MergeState(worst, y.state),
         NEW nextPc, nextPc = IF y.state = "saved" THEN "run" ELSE "class"
  PROVE  Told(results \cup {y}, next, class, faults, nextPc)
<1>1. /\ next \in {worst, y.state} /\ next \in DiskStates
      /\ Severity(worst) <= Severity(next) /\ Severity(y.state) <= Severity(next)
      /\ next # y.state => Severity(y.state) < Severity(worst)
  BY MergeFacts DEF DiskStates
<1>2. \A s \in DiskStates : Severity(s) \in 1..4
  BY SeverityOrders
<1>3. \A x \in results \cup {y} : Severity(x.state) <= Severity(next)
  <2>1. \A x \in results : Severity(x.state) <= Severity(worst)
    BY DEF Told
  <2>2. y.state \in DiskStates
    BY DEF DiskStates
  <2>3. QED
    BY <1>1, <1>2, <2>1, <2>2
<1>4. next # "not_attempted" => \E x \in results \cup {y} : x.state = next
  BY <1>1 DEF Told
<1>5. ASSUME nextPc # "class" PROVE Named(results \cup {y}, next, class, faults)
  <2>1. y.state = "saved" /\ Named(results, worst, class, faults)
    BY <1>5 DEF Told
  <2>2. next \in {"failed", "unavailable"} => next = worst
    BY <1>1, <2>1
  <2>3. next \notin {"failed", "unavailable"} => worst \notin {"failed", "unavailable"}
    BY <1>1, SeverityOrders
  <2>4. QED
    BY <2>1, <2>2, <2>3 DEF Named
<1>6. QED
  BY <1>3, <1>4, <1>5 DEF Told

\* ... and its class.
LEMMA ToldArchiveClass ==
  ASSUME NEW results, \A x \in results : x.state \in DiskStates,
         NEW worst \in DiskStates, NEW class, NEW faults, NEW pc,
         Told(results, worst, class, faults, pc),
         NEW y \in results, y.state = "failed", NEW nextPc
  PROVE  Told(results, worst, y.class, faults, nextPc)
<1>1. worst = "failed"
  <2>1. Severity("failed") = 4 /\ "failed" \in DiskStates
    BY DEF Severity, DiskStates
  <2>2. 4 <= Severity(worst)
    BY <2>1 DEF Told
  <2>3. Severity(worst) \in 1..4
    BY SeverityOrders
  <2>4. QED
    BY <2>2, <2>3, SeverityOrders
<1>2. QED
  BY <1>1 DEF Told, Named

\* A fault, whose class is set whatever the results are.
LEMMA ToldFault ==
  ASSUME NEW results, NEW worst, NEW class, NEW faults, NEW pc,
         Told(results, worst, class, faults, pc),
         NEW e, NEW more, e \in more, NEW nextPc
  PROVE  Told(results, worst, e, more, nextPc)
<1>1. more # {}
  OBVIOUS
<1>2. Named(results, worst, e, more)
  BY <1>1 DEF Named
<1>3. QED
  BY <1>2 DEF Told

\* Results are states of the disk.
LEMMA ResultStates ==
  ASSUME OutcomeTypeOK, NEW r \in Requests
  PROVE  \A x \in Results(r) : x.state \in DiskStates
<1>1. \A op \in Ops : receipt[op] \in DiskStates \cup {"none"}
  BY DEF OutcomeTypeOK, TypeOK, DiskStates
<1>2. handler[r].archive \subseteq DiskStates /\ "failed" \in DiskStates
  BY DEF OutcomeTypeOK, DiskStates
<1>3. QED
  BY <1>1, <1>2 DEF Results

-----------------------------------------------------------------------------
(* The request a step is about                                             *)

\* A completion that is answered: the collector counts one less, and its result.
LEMMA AnswerStep ==
  ASSUME OInv, NEW r \in Requests, NEW op \in Ops, Owner[op] = r,
         receipt[op] = "none", admission[op] # "none",
         NEW state \in {"unavailable", "saved", "failed"},
         NEW given,
         given = IF state = "saved" THEN "none"
                 ELSE IF state = "failed" THEN "sqlite" ELSE admission[op],
         state # "unavailable" => admission[op] = "accepted",
         state = "unavailable" => admission[op] \in {"queue_full", "lifecycle"},
         CompleteResult(r, state, given),
         receipt' = [receipt EXCEPT ![op] = state], admission' = admission,
         handler'[r].archive = handler[r].archive, handler'[r].faults = handler[r].faults,
         handler[r].pc = "class" => handler'[r].pc = "class",
         handler[r].pc = "transition" <=> handler'[r].pc = "transition",
         (handler[r].pc # "submit" /\ handler'[r].pc # "submit") \/ handler'[r] = handler[r]
  PROVE  /\ Counts(r)' /\ FinalInv(r)' /\ ResultInv(r)'
         /\ collector'[r].sealed = collector[r].sealed
         /\ collector'[r].finalized = collector[r].finalized
         /\ collector' = [collector EXCEPT ![r] = collector'[r]]
<1>1. /\ op \in Outstanding(r) /\ ~collector[r].finalized
      /\ RequestInv(r) /\ OutcomeTypeOK /\ collector[r] \in Collector
  BY DEF OInv, RequestInv, FinalInv, Outstanding, OutcomeTypeOK
<1>2. given \in FailureClasses \cup {"none"} /\ state \in DiskStates
  BY DEF FailureClasses, DiskStates
<1> DEFINE c == collector'[r]
<1>3. collector' = [collector EXCEPT ![r] = Applied(collector[r], state, given)]
  BY <1>1 DEF CompleteResult
<1>4. c = Applied(collector[r], state, given) /\ collector' = [collector EXCEPT ![r] = c]
  BY <1>1, <1>3 DEF OutcomeTypeOK
<1> HIDE DEF c
<1>5. /\ c.sealed = collector[r].sealed /\ c.finalized = collector[r].finalized
      /\ c.pending = IF collector[r].pending > 0 THEN collector[r].pending - 1
                                                 ELSE collector[r].pending
      /\ c.disk = MergeState(collector[r].disk, state)
      /\ c.class = IF given # "none" /\ MergeState(collector[r].disk, state) = state
                   THEN given ELSE collector[r].class
  BY <1>1, <1>2, <1>4, AppliedFacts
<1>6. Outstanding(r)' = Outstanding(r) \ {op}
  BY <1>1 DEF Outstanding, OutcomeTypeOK, TypeOK
<1>7. Counts(r)'
  <2>1. IsFiniteSet(Outstanding(r)) /\ collector[r].pending = Cardinality(Outstanding(r))
    BY <1>1 DEF RequestInv, Counts
  <2>2. /\ IsFiniteSet(Outstanding(r) \ {op})
        /\ Cardinality(Outstanding(r) \ {op}) = Cardinality(Outstanding(r)) - 1
    BY <1>1, <2>1, FS_RemoveElement
  <2>3. Cardinality(Outstanding(r)) \in Nat /\ Cardinality(Outstanding(r) \ {op}) \in Nat
    BY <2>1, <2>2, FS_CardinalityType
  <2>4. c.pending = Cardinality(Outstanding(r) \ {op})
    BY <1>5, <2>1, <2>2, <2>3
  <2>5. QED
    BY <1>6, <2>2, <2>4 DEF Counts, c
<1>8. FinalInv(r)'
  BY <1>1, <1>5 DEF FinalInv, c
<1>9. ResultInv(r)'
  <2> DEFINE y == [state |-> state, class |-> IF state = "unavailable" THEN admission[op]
                                              ELSE "sqlite"]
  <2>1. Results(r)' = Results(r) \cup {y}
    <3> DEFINE Res(o) == [state |-> receipt[o],
                          class |-> IF receipt[o] = "unavailable" THEN admission[o] ELSE "sqlite"]
               Ans == {o \in Ops : Owner[o] = r /\ receipt[o] # "none"}
               Arc == {[state |-> result, class |-> "archive"] : result \in handler[r].archive}
                      \cup (IF "transition" \in handler[r].faults /\ handler[r].pc # "transition"
                            THEN {[state |-> "failed", class |-> "sqlite"]} ELSE {})
    <3>1. Ans' = Ans \cup {op}
      BY <1>1 DEF OutcomeTypeOK, TypeOK
    <3>2. \A o \in Ans : Res(o)' = Res(o)
      BY <1>1 DEF OutcomeTypeOK, TypeOK
    <3>3. Res(op)' = y
      BY <1>1 DEF OutcomeTypeOK, TypeOK
    <3>4. Arc' = Arc
      OBVIOUS
    <3>5. Results(r) = {Res(o) : o \in Ans} \cup Arc
      BY DEF Results
    <3>6. Results(r)' = {Res(o)' : o \in Ans'} \cup Arc'
      BY DEF Results
    <3> HIDE DEF Res, Ans, Arc, y
    <3>7. QED
      BY <3>1, <3>2, <3>3, <3>4, <3>5, <3>6
  <2>2. /\ Told(Results(r), collector[r].disk, collector[r].class, FaultClasses(r), handler[r].pc)
        /\ FaultClasses(r)' = FaultClasses(r)
    BY <1>1 DEF RequestInv, ResultInv, FaultClasses
  <2>3. y.state = state /\ y.state \in DiskStates /\ collector[r].disk \in DiskStates
    BY <1>1, <1>2 DEF Collector
  <2>4. state \in {"failed", "unavailable"} => given = y.class /\ given # "none"
    OBVIOUS
  <2>5. state \notin {"failed", "unavailable"} => given = "none"
    OBVIOUS
  <2>6. \A x \in Results(r) : x.state \in DiskStates
    BY <1>1, ResultStates
  <2> HIDE DEF y
  <2>7. Told(Results(r) \cup {y}, c.disk, c.class, FaultClasses(r), handler'[r].pc)
    BY <1>5, <2>2, <2>3, <2>4, <2>5, <2>6, ToldOneMore, ZenonT(40)
  <2>8. QED
    BY <2>1, <2>2, <2>7 DEF ResultInv, c
<1>10. QED
  BY <1>4, <1>5, <1>7, <1>8, <1>9 DEF c

\* ... by a worker.
LEMMA CompleteWriteStep ==
  ASSUME OInv, NEW w \in Workers, CompleteWrite(w), NEW r \in Requests,
         r = Owner[worker[w].op], \A v \in Workers : Owes(v, r)' <=> Owes(v, r)
  PROVE  RequestInv(r)' /\ collector' = [collector EXCEPT ![r] = collector'[r]]
<1> DEFINE op == worker[w].op
           given == IF worker[w].outcome = "failed" THEN "sqlite" ELSE "none"
<1>1. /\ op \in Ops /\ worker[w].outcome \in {"saved", "failed"}
      /\ receipt[op] = "none" /\ admission[op] = "accepted"
  BY DEF CompleteWrite, Complete, OInv, IInv, HoldInv, Held, Holding
<1>2. handler' = handler /\ dispatches' = dispatches /\ admission' = admission
  BY DEF CompleteWrite, Complete, submitVars
<1>3. RequestInv(r)
  BY DEF OInv
<1>4. receipt' = [receipt EXCEPT ![op] = worker[w].outcome]
  BY DEF CompleteWrite, Complete
<1>5. CompleteResult(r, worker[w].outcome, given)
  BY DEF CompleteWrite
<1>6. given = IF worker[w].outcome = "saved" THEN "none"
              ELSE IF worker[w].outcome = "failed" THEN "sqlite" ELSE admission[op]
  BY <1>1
<1>b. /\ Owner[op] = r /\ worker[w].outcome \in {"unavailable", "saved", "failed"}
      /\ worker[w].outcome # "unavailable" /\ admission[op] # "none"
      /\ handler'[r] = handler[r]
  BY <1>1, <1>2
<1> HIDE DEF op, given
<1>7. /\ Counts(r)' /\ FinalInv(r)' /\ ResultInv(r)'
      /\ collector'[r].sealed = collector[r].sealed
      /\ collector'[r].finalized = collector[r].finalized
      /\ collector' = [collector EXCEPT ![r] = collector'[r]]
  BY <1>1, <1>2, <1>4, <1>5, <1>6, <1>b, AnswerStep
<1>8. HandlerInv(r)'
  <2>1. handler[r].pc = "refused" => handler[r].op # op
    BY <1>1, <1>3 DEF RequestInv, HandlerInv
  <2>2. receipt \in [Ops -> {"none", "unavailable", "saved", "failed"}]
    BY DEF OInv, OutcomeTypeOK, TypeOK
  <2>3. handler[r].pc = "refused" => receipt'[handler[r].op] = "none"
    BY <1>3, <1>4, <2>1, <2>2 DEF RequestInv, HandlerInv
  <2>4. QED
    BY <1>2, <1>3, <1>7, <2>3 DEF RequestInv, HandlerInv, NothingWritten
<1>9. DispatchInv(r)'
  BY <1>2, <1>3, <1>7 DEF RequestInv, DispatchInv
<1>10. QED
  BY <1>7, <1>8, <1>9 DEF RequestInv

\* ... or by the handler itself.
LEMMA CompleteImmediatelyStep ==
  ASSUME OInv, NEW r \in Requests, CompleteImmediately(r),
         \A v \in Workers : Owes(v, r)' <=> Owes(v, r)
  PROVE  RequestInv(r)' /\ collector' = [collector EXCEPT ![r] = collector'[r]]
<1> DEFINE op == handler[r].op
<1>1. RequestInv(r) /\ OutcomeTypeOK
  BY DEF OInv
<1>2. /\ op \in Ops /\ Owner[op] = r /\ receipt[op] = "none"
      /\ admission[op] \in {"queue_full", "lifecycle"}
  BY <1>1 DEF CompleteImmediately, RequestInv, HandlerInv
<1>3. /\ handler[r].pc = "refused" /\ handler'[r].pc = "run"
      /\ handler'[r].duty = "finalize" /\ handler'[r].archive = handler[r].archive
      /\ handler'[r].faults = handler[r].faults
      /\ dispatches' = dispatches /\ admission' = admission
      /\ receipt' = [receipt EXCEPT ![op] = "unavailable"]
      /\ CompleteResult(r, "unavailable", admission[op])
  BY <1>1 DEF CompleteImmediately, CompleteRefused, submitVars, OutcomeTypeOK
<1> HIDE DEF op
<1>4. /\ Counts(r)' /\ FinalInv(r)' /\ ResultInv(r)'
      /\ collector'[r].sealed = collector[r].sealed
      /\ collector'[r].finalized = collector[r].finalized
      /\ collector' = [collector EXCEPT ![r] = collector'[r]]
  BY <1>2, <1>3, AnswerStep
<1>5. HandlerInv(r)'
  BY <1>1, <1>3, <1>4 DEF RequestInv, HandlerInv
<1>6. DispatchInv(r)'
  BY <1>1, <1>3, <1>4 DEF RequestInv, DispatchInv
<1>7. QED
  BY <1>4, <1>5, <1>6 DEF RequestInv

\* A completion is begun: one more to wait for.
LEMMA BeginStep ==
  ASSUME OInv, NEW op \in Ops, BeginAsyncResult(op), NEW r \in Requests, r = Owner[op],
         \A v \in Workers : Owes(v, r)' <=> Owes(v, r)
  PROVE  RequestInv(r)'
<1>1. RequestInv(r) /\ OutcomeTypeOK /\ collector[r] \in Collector
  BY DEF OInv, OutcomeTypeOK
<1>2. /\ handler[r].pc = "run" /\ handler[r].duty = "none" /\ admission[op] = "none"
      /\ ~collector[r].finalized /\ ~collector[r].sealed
      /\ admission' = admission /\ receipt' = receipt /\ dispatches' = dispatches
  BY DEF BeginAsyncResult, Running, vars, submitVars
<1>3. receipt[op] = "none"
  BY <1>2 DEF OInv, IInv, TicketInv
<1>4. /\ collector' = [collector EXCEPT ![r] =
                         [collector[r] EXCEPT !.pending = collector[r].pending + 1]]
      /\ handler' = [handler EXCEPT ![r].pc = "submit", ![r].op = op]
  BY DEF BeginAsyncResult
<1>5. /\ handler'[r].pc = "submit" /\ handler'[r].op = op /\ handler'[r].duty = "none"
      /\ handler'[r].archive = handler[r].archive /\ handler'[r].faults = handler[r].faults
  BY <1>1, <1>2, <1>4 DEF OutcomeTypeOK
<1>6. collector'[r] = [collector[r] EXCEPT !.pending = collector[r].pending + 1]
  BY <1>1, <1>4 DEF OutcomeTypeOK
<1>7. /\ collector'[r].pending = collector[r].pending + 1
      /\ collector'[r].disk = collector[r].disk /\ collector'[r].class = collector[r].class
  BY <1>1, <1>6 DEF Collector
<1>8. collector'[r].sealed = collector[r].sealed
  BY <1>1, <1>6 DEF Collector
<1>9. collector'[r].finalized = collector[r].finalized
  BY <1>1, <1>6 DEF Collector
<1>10. Outstanding(r)' = Outstanding(r) \cup {op} /\ op \notin Outstanding(r)
  BY <1>2, <1>3, <1>5 DEF Outstanding
<1>11. Counts(r)'
  <2>1. IsFiniteSet(Outstanding(r)) /\ collector[r].pending = Cardinality(Outstanding(r))
    BY <1>1 DEF RequestInv, Counts
  <2>2. /\ IsFiniteSet(Outstanding(r) \cup {op})
        /\ Cardinality(Outstanding(r) \cup {op}) = Cardinality(Outstanding(r)) + 1
    BY <1>10, <2>1, FS_AddElement
  <2>3. QED
    BY <1>7, <1>10, <2>1, <2>2 DEF Counts
<1>12. HandlerInv(r)'
  BY <1>1, <1>2, <1>5, <1>8 DEF RequestInv, HandlerInv
<1>13. FinalInv(r)'
  BY <1>2, <1>9 DEF FinalInv
<1>14. DispatchInv(r)'
  BY <1>1, <1>2, <1>5, <1>9 DEF RequestInv, DispatchInv
<1>15. Results(r)' = Results(r) /\ FaultClasses(r)' = FaultClasses(r)
  BY <1>2, <1>5 DEF Results, FaultClasses
<1>16. ResultInv(r)'
  BY <1>1, <1>2, <1>5, <1>7, <1>15 DEF RequestInv, ResultInv, Told
<1>17. QED
  BY <1>11, <1>12, <1>13, <1>14, <1>16 DEF RequestInv

\* A handler that is moved on without a result: accepted, submitted, sealed.
LEMMA QuietStep ==
  ASSUME OInv, NEW r \in Requests, Accept(r) \/ TrySubmit(r) \/ SealProducers(r),
         \A v \in Workers : Owes(v, r)' <=> Owes(v, r)
  PROVE  RequestInv(r)'
<1>1. RequestInv(r) /\ OutcomeTypeOK /\ collector[r] \in Collector
  BY DEF OInv, OutcomeTypeOK
<1>2. CASE Accept(r)
  <2>1. /\ handler[r].pc = "idle" /\ handler'[r].pc = "run" /\ handler'[r].op = handler[r].op
        /\ handler'[r].duty = handler[r].duty /\ handler'[r].archive = handler[r].archive
        /\ handler'[r].faults = handler[r].faults
        /\ collector' = collector /\ dispatches' = dispatches
        /\ admission' = admission /\ receipt' = receipt
    BY <1>1, <1>2 DEF Accept, OutcomeTypeOK, vars, submitVars, outcomeVars
  <2>2. Outstanding(r)' = Outstanding(r)
    BY <2>1 DEF Outstanding
  <2>3. Results(r)' = Results(r) /\ FaultClasses(r)' = FaultClasses(r)
    BY <2>1 DEF Results, FaultClasses
  <2>4. Counts(r)' /\ FinalInv(r)'
    BY <1>1, <2>1, <2>2 DEF RequestInv, Counts, FinalInv
  <2>5. HandlerInv(r)'
    BY <1>1, <2>1 DEF RequestInv, HandlerInv
  <2>6. DispatchInv(r)'
    BY <1>1, <2>1 DEF RequestInv, DispatchInv
  <2>7. ResultInv(r)'
    BY <1>1, <2>1, <2>3 DEF RequestInv, ResultInv, Told
  <2>8. QED
    BY <2>4, <2>5, <2>6, <2>7 DEF RequestInv
<1>3. CASE TrySubmit(r)
  <2> DEFINE op == handler[r].op
  <2>1. /\ handler[r].pc = "submit" /\ op \in Ops /\ Owner[op] = r /\ admission[op] = "none"
    BY <1>1, <1>3 DEF TrySubmit, RequestInv, HandlerInv
  <2>2. receipt[op] = "none" /\ receipt' = receipt
    BY <1>3, <2>1 DEF TrySubmit, Submit, RefuseSubmit, OInv, IInv, TicketInv
  <2>3. PICK how \in {"accepted", "lifecycle", "queue_full"} :
          /\ admission' = [admission EXCEPT ![op] = how]
          /\ handler'[r].pc = IF how = "accepted" THEN "run" ELSE "refused"
    BY <1>1, <1>3 DEF TrySubmit, Submit, RefuseSubmit, OutcomeTypeOK
  <2>4. /\ handler'[r].op = op /\ handler'[r].duty = handler[r].duty
        /\ handler'[r].archive = handler[r].archive /\ handler'[r].faults = handler[r].faults
        /\ collector' = collector /\ dispatches' = dispatches
    BY <1>1, <1>3 DEF TrySubmit, OutcomeTypeOK, outcomeVars
  <2>5. /\ admission'[op] = how
        /\ \A o \in Ops : o # op => admission'[o] = admission[o]
    BY <1>1, <2>1, <2>3 DEF OutcomeTypeOK, TypeOK
  <2> HIDE DEF op
  <2>6. Outstanding(r)' = Outstanding(r)
    <3>1. \A o \in Ops : o \in Outstanding(r)' <=> o \in Outstanding(r)
      BY <2>1, <2>2, <2>3, <2>4, <2>5 DEF Outstanding, op
    <3>2. QED
      BY <3>1 DEF Outstanding
  <2>7. Results(r)' = Results(r) /\ FaultClasses(r)' = FaultClasses(r)
    BY <2>1, <2>2, <2>3, <2>4, <2>5 DEF Results, FaultClasses
  <2>8. Counts(r)' /\ FinalInv(r)'
    BY <1>1, <2>4, <2>6 DEF RequestInv, Counts, FinalInv
  <2>9. HandlerInv(r)'
    BY <1>1, <2>1, <2>2, <2>3, <2>4, <2>5 DEF RequestInv, HandlerInv
  <2>10. DispatchInv(r)'
    BY <1>1, <2>4 DEF RequestInv, DispatchInv
  <2>11. ResultInv(r)'
    BY <1>1, <2>1, <2>3, <2>4, <2>7 DEF RequestInv, ResultInv, Told
  <2>12. QED
    BY <2>8, <2>9, <2>10, <2>11 DEF RequestInv
<1>4. CASE SealProducers(r)
  <2>1. /\ handler[r].pc \in {"run", "forward"} /\ handler'[r].pc = "sealed"
        /\ handler[r].duty = "none" /\ handler'[r].duty = "finalize"
        /\ handler'[r].archive = handler[r].archive /\ handler'[r].faults = handler[r].faults
        /\ dispatches' = dispatches /\ admission' = admission /\ receipt' = receipt
    BY <1>1, <1>4 DEF SealProducers, Forwarding, OutcomeTypeOK, vars, submitVars
  <2>2. collector'[r] = [collector[r] EXCEPT !.sealed = TRUE]
    BY <1>1, <1>4 DEF SealProducers, OutcomeTypeOK
  <2>3. collector'[r].pending = collector[r].pending
    BY <1>1, <2>2 DEF Collector
  <2>4. collector'[r].sealed = TRUE
    BY <1>1, <2>2 DEF Collector
  <2>5. collector'[r].finalized = collector[r].finalized
    BY <1>1, <2>2 DEF Collector
  <2>6. collector'[r].disk = collector[r].disk /\ collector'[r].class = collector[r].class
    BY <1>1, <2>2 DEF Collector
  <2>7. Outstanding(r)' = Outstanding(r)
    BY <2>1 DEF Outstanding
  <2>8. Results(r)' = Results(r) /\ FaultClasses(r)' = FaultClasses(r)
    BY <2>1 DEF Results, FaultClasses
  <2>9. Counts(r)' /\ FinalInv(r)'
    BY <1>1, <2>3, <2>4, <2>5, <2>7 DEF RequestInv, Counts, FinalInv
  <2>10. HandlerInv(r)'
    BY <2>1, <2>4 DEF HandlerInv
  <2>11. DispatchInv(r)'
    BY <1>1, <2>1, <2>5 DEF RequestInv, DispatchInv
  <2>12. ResultInv(r)'
    BY <1>1, <2>1, <2>6, <2>8 DEF RequestInv, ResultInv, Told
  <2>13. QED
    BY <2>9, <2>10, <2>11, <2>12 DEF RequestInv
<1>5. QED
  BY <1>2, <1>3, <1>4

\* A setter of the snapshot is called by its request's handler and leaves the others'
\* collectors and handlers alone.
LEMMA SnapshotOthers ==
  ASSUME OutcomeTypeOK, NEW r \in Requests, SetSnapshot(r)
  PROVE  \A q \in Requests \ {r} : collector'[q] = collector[q] /\ handler'[q] = handler[q]
BY DEF OutcomeTypeOK, SetSnapshot, LoadFails, TransitionFails, SetTransitionState, CommitArchive,
       SetArchiveClass, BlockFallback, UpstreamFails

\* Between the calls of a handler that only sets fields, what it waits for and owes
\* stays the same.
LEMMA SetterFrame ==
  ASSUME OInv, NEW r \in Requests, SetSnapshot(r),
         \A v \in Workers : Owes(v, r)' <=> Owes(v, r),
         collector'[r].pending = collector[r].pending,
         collector'[r].sealed = collector[r].sealed,
         collector'[r].finalized = collector[r].finalized,
         handler'[r].op = handler[r].op,
         handler[r].duty = "none", handler'[r].duty = "none",
         {handler[r].pc, handler'[r].pc} \subseteq
           {"run", "class", "blocked", "transition", "forward"},
         handler'[r].pc \in {"class", "blocked"} => "failed" \in handler'[r].archive,
         handler'[r].pc = "transition" =>
           NothingWritten(r) /\ handler'[r].archive = {} /\ "transition" \in handler'[r].faults,
         ResultInv(r)'
  PROVE  RequestInv(r)'
<1>1. RequestInv(r)
  BY DEF OInv
<1>2. admission' = admission /\ receipt' = receipt /\ dispatches' = dispatches
  BY SnapshotFrame DEF vars, submitVars
<1>3. Outstanding(r)' = Outstanding(r)
  BY <1>2 DEF Outstanding
<1>4. Counts(r)' /\ FinalInv(r)'
  BY <1>1, <1>3 DEF RequestInv, Counts, FinalInv
<1>5. HandlerInv(r)'
  <2>1. ~collector[r].sealed
    BY <1>1 DEF RequestInv, HandlerInv
  <2>2. QED
    BY <1>2, <2>1 DEF HandlerInv, NothingWritten
<1>6. DispatchInv(r)'
  BY <1>1, <1>2 DEF RequestInv, DispatchInv
<1>7. QED
  BY <1>4, <1>5, <1>6 DEF RequestInv

\* What the handler writes into its snapshot keeps its part of the invariant.
LEMMA SnapshotStep ==
  ASSUME OInv, NEW r \in Requests, SetSnapshot(r),
         \A v \in Workers : Owes(v, r)' <=> Owes(v, r)
  PROVE  RequestInv(r)'
<1>1. RequestInv(r) /\ OutcomeTypeOK /\ collector[r] \in Collector
  BY DEF OInv, OutcomeTypeOK
<1>2. \A x \in Results(r) : x.state \in DiskStates
  BY <1>1, ResultStates
<1>3. admission' = admission /\ receipt' = receipt
  BY SnapshotFrame DEF vars, submitVars
<1>4. Told(Results(r), collector[r].disk, collector[r].class, FaultClasses(r), handler[r].pc)
  BY <1>1 DEF RequestInv, ResultInv
<1>5. collector[r].disk \in DiskStates
  BY <1>1 DEF Collector
<1>6. FaultClass["load"] = "sqlite" /\ FaultClass["transition"] = "sqlite"
      /\ FaultClass["upstream"] = "upstream"
  BY DEF FaultClass
<1>7. {"sqlite", "archive", "upstream"} \subseteq FailureClasses
      /\ {"saved", "failed"} \subseteq DiskStates
  BY DEF FailureClasses, DiskStates
<1>8. CASE LoadFails(r)
  <2>1. /\ handler[r].pc = "run" /\ handler'[r].pc = "run"
        /\ handler[r].duty = "none" /\ handler'[r].duty = "none"
        /\ handler'[r].op = handler[r].op /\ handler'[r].archive = handler[r].archive
        /\ handler'[r].faults = handler[r].faults \cup {"load"}
        /\ collector' = [collector EXCEPT ![r].class = "sqlite"]
    BY <1>1, <1>8 DEF LoadFails, Running, OutcomeTypeOK
  <2>2. /\ collector'[r].class = "sqlite" /\ collector'[r].disk = collector[r].disk
        /\ collector'[r].pending = collector[r].pending
        /\ collector'[r].sealed = collector[r].sealed
        /\ collector'[r].finalized = collector[r].finalized
    BY <1>1, <1>7, <2>1, ClassSet
  <2>3. Results(r)' = Results(r)
    BY <1>3, <2>1 DEF Results
  <2>4. "sqlite" \in FaultClasses(r)'
    BY <1>6, <2>1 DEF FaultClasses
  <2>5. ResultInv(r)'
    BY <1>4, <2>2, <2>3, <2>4, ToldFault DEF ResultInv
  <2>6. QED
    BY <2>1, <2>2, <2>5, SetterFrame
<1>9. CASE TransitionFails(r)
  <2>1. /\ handler[r].pc = "run" /\ handler'[r].pc = "transition"
        /\ handler[r].duty = "none" /\ handler'[r].duty = "none"
        /\ handler'[r].op = handler[r].op /\ handler'[r].archive = handler[r].archive
        /\ handler[r].faults = {} /\ handler'[r].faults = {"transition"}
        /\ handler[r].archive = {} /\ NothingWritten(r)
        /\ collector' = [collector EXCEPT ![r].class = "sqlite"]
    BY <1>1, <1>9 DEF TransitionFails, Running, NothingWritten, OutcomeTypeOK
  <2>2. /\ collector'[r].class = "sqlite" /\ collector'[r].disk = collector[r].disk
        /\ collector'[r].pending = collector[r].pending
        /\ collector'[r].sealed = collector[r].sealed
        /\ collector'[r].finalized = collector[r].finalized
    BY <1>1, <1>7, <2>1, ClassSet
  <2>3. Results(r)' = Results(r)
    BY <1>3, <2>1 DEF Results
  <2>4. "sqlite" \in FaultClasses(r)'
    BY <1>6, <2>1 DEF FaultClasses
  <2>5. ResultInv(r)'
    BY <1>4, <2>2, <2>3, <2>4, ToldFault DEF ResultInv
  <2>6. QED
    BY <2>1, <2>2, <2>5, SetterFrame
<1>10. CASE SetTransitionState(r)
  <2>1. /\ handler[r].pc = "transition" /\ handler'[r].pc = "forward"
        /\ handler'[r].duty = handler[r].duty
        /\ handler'[r].op = handler[r].op /\ handler'[r].archive = handler[r].archive
        /\ handler'[r].faults = handler[r].faults
        /\ collector' = [collector EXCEPT ![r].disk = "failed"]
    BY <1>1, <1>10 DEF SetTransitionState, OutcomeTypeOK
  <2>2. /\ handler[r].duty = "none" /\ NothingWritten(r)
        /\ "transition" \in handler[r].faults
    BY <1>1, <2>1 DEF RequestInv, HandlerInv, OutcomeTypeOK, Duty
  <2>3. /\ collector'[r].class = collector[r].class /\ collector'[r].disk = "failed"
        /\ collector'[r].pending = collector[r].pending
        /\ collector'[r].sealed = collector[r].sealed
        /\ collector'[r].finalized = collector[r].finalized
    BY <1>1, <1>7, <2>1, DiskSet
  <2>4. \A op \in Ops : Owner[op] = r => receipt[op] = "none"
    BY <2>2 DEF NothingWritten, OInv, IInv, TicketInv
  <2> DEFINE y == [state |-> "failed", class |-> "sqlite"]
  <2>5. Results(r) = {} /\ Results(r)' = {y}
    BY <1>3, <2>1, <2>2, <2>4 DEF Results, NothingWritten
  <2>6. FaultClasses(r)' = FaultClasses(r) /\ FaultClasses(r) # {}
    BY <2>1, <2>2 DEF FaultClasses
  <2>7. collector[r].class \in FaultClasses(r)
    BY <1>4, <2>1, <2>5, <2>6 DEF Told, Named
  <2>8. y.state = "failed" /\ Severity(y.state) <= Severity("failed")
    BY DEF Severity
  <2> HIDE DEF y
  <2>9. Named({y}, "failed", collector[r].class, FaultClasses(r))
    BY <2>6, <2>7 DEF Named
  <2>10. ResultInv(r)'
    BY <2>3, <2>5, <2>6, <2>8, <2>9 DEF ResultInv, Told
  <2>11. QED
    BY <2>1, <2>2, <2>3, <2>10, SetterFrame
<1>11. CASE CommitArchive(r)
  <2>1. PICK result \in {"saved", "failed"} :
          /\ collector' = [collector EXCEPT ![r].disk = MergeState(collector[r].disk, result)]
          /\ handler' = [handler EXCEPT ![r].archive = @ \cup {result},
                                        ![r].pc = IF result = "saved" THEN "run" ELSE "class"]
    BY <1>11 DEF CommitArchive
  <2>2. /\ handler[r].pc = "run" /\ handler[r].duty = "none"
        /\ handler'[r].pc = IF result = "saved" THEN "run" ELSE "class"
        /\ handler'[r].duty = "none" /\ handler'[r].archive = handler[r].archive \cup {result}
        /\ handler'[r].op = handler[r].op /\ handler'[r].faults = handler[r].faults
    BY <1>1, <1>11, <2>1 DEF CommitArchive, Running, OutcomeTypeOK
  <2>3. MergeState(collector[r].disk, result) \in DiskStates
    BY <1>5, <1>7, MergeFacts
  <2>4. /\ collector'[r].class = collector[r].class
        /\ collector'[r].disk = MergeState(collector[r].disk, result)
        /\ collector'[r].pending = collector[r].pending
        /\ collector'[r].sealed = collector[r].sealed
        /\ collector'[r].finalized = collector[r].finalized
    BY <1>1, <2>1, <2>3, DiskSet
  <2> DEFINE y == [state |-> result, class |-> "archive"]
  <2>5. Results(r)' = Results(r) \cup {y} /\ FaultClasses(r)' = FaultClasses(r)
    <3>1. {[state |-> x, class |-> "archive"] : x \in handler'[r].archive}
            = {[state |-> x, class |-> "archive"] : x \in handler[r].archive} \cup {y}
      BY <2>2
    <3> HIDE DEF y
    <3>2. FaultClasses(r)' = FaultClasses(r)
      BY <2>2 DEF FaultClasses
    <3>3. handler[r].pc # "transition" /\ handler'[r].pc # "transition"
      BY <2>2
    <3>4. QED
      BY <1>3, <2>2, <3>1, <3>2, <3>3 DEF Results
  <2>6. y.state = result
    OBVIOUS
  <2> HIDE DEF y
  <2>7. /\ y.state \in {"saved", "failed"} /\ handler[r].pc # "class"
        /\ handler'[r].pc = IF y.state = "saved" THEN "run" ELSE "class"
        /\ collector'[r].disk = MergeState(collector[r].disk, y.state)
    BY <2>2, <2>4, <2>6
  <2>8. Told(Results(r) \cup {y}, collector'[r].disk, collector[r].class, FaultClasses(r),
             handler'[r].pc)
    BY <1>2, <1>4, <1>5, <2>7, ToldArchive, SMTT(30)
  <2>9. ResultInv(r)'
    BY <2>4, <2>5, <2>8 DEF ResultInv
  <2>10. handler'[r].pc \in {"run", "class"}
         /\ (handler'[r].pc = "class" => "failed" \in handler'[r].archive)
    BY <2>2
  <2>11. QED
    BY <2>2, <2>4, <2>9, <2>10, SetterFrame
<1>12. CASE SetArchiveClass(r) \/ BlockFallback(r)
  <2>1. /\ handler[r].pc \in {"class", "blocked"} /\ handler'[r].pc \in {"blocked", "forward"}
        /\ handler'[r].duty = handler[r].duty /\ handler'[r].archive = handler[r].archive
        /\ handler'[r].op = handler[r].op /\ handler'[r].faults = handler[r].faults
        /\ collector' = [collector EXCEPT ![r].class = "archive"]
    BY <1>1, <1>12 DEF SetArchiveClass, BlockFallback, OutcomeTypeOK
  <2>2. handler[r].duty = "none" /\ "failed" \in handler[r].archive
    BY <1>1, <2>1 DEF RequestInv, HandlerInv, OutcomeTypeOK, Duty
  <2>3. /\ collector'[r].class = "archive" /\ collector'[r].disk = collector[r].disk
        /\ collector'[r].pending = collector[r].pending
        /\ collector'[r].sealed = collector[r].sealed
        /\ collector'[r].finalized = collector[r].finalized
    BY <1>1, <1>7, <2>1, ClassSet
  <2> DEFINE y == [state |-> "failed", class |-> "archive"]
  <2>4. Results(r)' = Results(r) /\ y \in Results(r) /\ FaultClasses(r)' = FaultClasses(r)
    BY <1>3, <2>1, <2>2 DEF Results, FaultClasses
  <2>5. y.state = "failed" /\ y.class = "archive"
    OBVIOUS
  <2> HIDE DEF y
  <2>6. Told(Results(r), collector[r].disk, y.class, FaultClasses(r), handler'[r].pc)
    BY <1>2, <1>4, <1>5, <2>4, <2>5, ToldArchiveClass
  <2>7. ResultInv(r)'
    BY <2>3, <2>4, <2>5, <2>6 DEF ResultInv
  <2>8. QED
    BY <2>1, <2>2, <2>3, <2>7, SetterFrame
<1>13. CASE UpstreamFails(r)
  <2>1. /\ handler[r].pc \in {"run", "forward"} /\ handler'[r].pc = "forward"
        /\ handler[r].duty = "none" /\ handler'[r].duty = "none"
        /\ handler'[r].op = handler[r].op /\ handler'[r].archive = handler[r].archive
        /\ handler'[r].faults = handler[r].faults \cup {"upstream"}
        /\ collector' = [collector EXCEPT ![r].class = "upstream"]
    BY <1>1, <1>13 DEF UpstreamFails, Forwarding, OutcomeTypeOK
  <2>2. /\ collector'[r].class = "upstream" /\ collector'[r].disk = collector[r].disk
        /\ collector'[r].pending = collector[r].pending
        /\ collector'[r].sealed = collector[r].sealed
        /\ collector'[r].finalized = collector[r].finalized
    BY <1>1, <1>7, <2>1, ClassSet
  <2>3. Results(r)' = Results(r)
    BY <1>3, <2>1 DEF Results
  <2>4. "upstream" \in FaultClasses(r)'
    BY <1>6, <2>1 DEF FaultClasses
  <2>5. ResultInv(r)'
    BY <1>4, <2>2, <2>3, <2>4, ToldFault DEF ResultInv
  <2>6. QED
    BY <2>1, <2>2, <2>5, SetterFrame
<1>14. QED
  BY <1>8, <1>9, <1>10, <1>11, <1>12, <1>13 DEF SetSnapshot

\* Whoever finds the collector finished finalizes it, and owes the dispatch.
LEMMA FinalizeFacts ==
  ASSUME OInv, NEW r \in Requests, TryFinalize(r)
  PROVE  /\ dispatches' = dispatches
         /\ collector'[r].pending = collector[r].pending
         /\ collector'[r].sealed = collector[r].sealed
         /\ collector'[r].disk = collector[r].disk
         /\ collector'[r].class = collector[r].class
         /\ collector'[r].finalized = (collector[r].finalized \/ MayFinalize(collector[r]))
         /\ MayFinalize(collector[r]) => collector[r].sealed /\ Outstanding(r) = {}
         /\ \A q \in Requests \ {r} : collector'[q] = collector[q]
<1>1. RequestInv(r) /\ OutcomeTypeOK /\ collector[r] \in Collector
  BY DEF OInv, OutcomeTypeOK
<1>2. MayFinalize(collector[r]) => collector[r].sealed /\ Outstanding(r) = {}
  <2> SUFFICES ASSUME MayFinalize(collector[r])
               PROVE  collector[r].sealed /\ Outstanding(r) = {}
    OBVIOUS
  <2>1. IsFiniteSet(Outstanding(r)) /\ Cardinality(Outstanding(r)) = 0
    BY <1>1 DEF RequestInv, Counts, MayFinalize
  <2>2. QED
    BY <2>1, FS_EmptySet DEF MayFinalize
<1>3. CASE MayFinalize(collector[r])
  <2>1. collector' = [collector EXCEPT ![r] = [collector[r] EXCEPT !.finalized = TRUE]]
    BY <1>3 DEF TryFinalize
  <2>2. collector'[r] = [collector[r] EXCEPT !.finalized = TRUE]
    BY <1>1, <2>1 DEF OutcomeTypeOK
  <2>3. /\ collector'[r].pending = collector[r].pending
        /\ collector'[r].disk = collector[r].disk /\ collector'[r].class = collector[r].class
    BY <1>1, <2>2 DEF Collector
  <2>4. collector'[r].sealed = collector[r].sealed
    BY <1>1, <2>2 DEF Collector
  <2>5. collector'[r].finalized = TRUE
    BY <1>1, <2>2 DEF Collector
  <2>6. \A q \in Requests \ {r} : collector'[q] = collector[q]
    BY <1>1, <2>1 DEF OutcomeTypeOK
  <2>7. QED
    BY <1>2, <1>3, <2>3, <2>4, <2>5, <2>6 DEF TryFinalize
<1>4. CASE ~MayFinalize(collector[r])
  <2>1. collector' = collector /\ dispatches' = dispatches
    BY <1>4 DEF TryFinalize
  <2>2. collector[r].finalized \in BOOLEAN
    BY <1>1 DEF Collector
  <2>3. QED
    BY <1>2, <1>4, <2>1, <2>2
<1>5. QED
  BY <1>3, <1>4

\* A duty of a handler.
LEMMA HandlerDutyStep ==
  ASSUME OInv, NEW r \in Requests, HandlerDuty(r),
         \A v \in Workers : Owes(v, r)' <=> Owes(v, r)
  PROVE  RequestInv(r)' /\ \A q \in Requests \ {r} : /\ collector'[q] = collector[q]
                                                     /\ handler'[q] = handler[q]
                                                     /\ dispatches'[q] = dispatches[q]
<1>1. RequestInv(r) /\ OutcomeTypeOK /\ collector[r] \in Collector
  BY DEF OInv, OutcomeTypeOK
<1>2. /\ admission' = admission /\ receipt' = receipt
      /\ handler'[r].pc = handler[r].pc /\ handler'[r].op = handler[r].op
      /\ handler'[r].archive = handler[r].archive /\ handler'[r].faults = handler[r].faults
      /\ \A q \in Requests \ {r} : handler'[q] = handler[q]
  BY <1>1 DEF HandlerDuty, OutcomeTypeOK, vars, submitVars
<1>3. Outstanding(r)' = Outstanding(r)
  BY <1>2 DEF Outstanding
<1>4. Results(r)' = Results(r) /\ FaultClasses(r)' = FaultClasses(r)
  BY <1>2 DEF Results, FaultClasses
<1>5. CASE handler[r].duty = "finalize"
  <2>1. TryFinalize(r) /\ handler'[r].duty = NextDuty(r)
    BY <1>1, <1>5 DEF HandlerDuty, OutcomeTypeOK
  <2>2. /\ dispatches' = dispatches
        /\ collector'[r].pending = collector[r].pending
        /\ collector'[r].sealed = collector[r].sealed
        /\ collector'[r].disk = collector[r].disk
        /\ collector'[r].class = collector[r].class
        /\ collector'[r].finalized = (collector[r].finalized \/ MayFinalize(collector[r]))
        /\ MayFinalize(collector[r]) => collector[r].sealed /\ Outstanding(r) = {}
        /\ \A q \in Requests \ {r} : collector'[q] = collector[q]
    BY <2>1, FinalizeFacts
  <2>3. Counts(r)' /\ FinalInv(r)'
    BY <1>1, <1>3, <2>2 DEF RequestInv, Counts, FinalInv
  <2>4. HandlerInv(r)'
    BY <1>1, <1>2, <1>5, <2>2 DEF RequestInv, HandlerInv, NothingWritten
  <2>5. MayFinalize(collector[r]) => ~collector[r].finalized
    BY DEF MayFinalize
  <2>6. DispatchInv(r)'
    <3>1. CASE MayFinalize(collector[r])
      <4>1. /\ handler'[r].duty = "dispatch" /\ collector'[r].finalized
            /\ ~collector[r].finalized
        BY <2>1, <2>2, <2>5, <3>1 DEF NextDuty
      <4>2. dispatches'[r] = 0 /\ \A v \in Workers : ~Owes(v, r)'
        BY <1>1, <2>2, <4>1 DEF RequestInv, DispatchInv
      <4>3. QED
        BY <4>1, <4>2 DEF DispatchInv
    <3>2. CASE ~MayFinalize(collector[r])
      <4>1. /\ handler'[r].duty = "none" /\ dispatches'[r] = dispatches[r]
            /\ collector'[r].finalized <=> collector[r].finalized
        BY <2>1, <2>2, <3>2 DEF NextDuty
      <4>2. QED
        BY <1>1, <1>5, <4>1 DEF RequestInv, DispatchInv
    <3>3. QED
      BY <3>1, <3>2
  <2>7. ResultInv(r)'
    BY <1>1, <1>2, <1>4, <2>2 DEF RequestInv, ResultInv
  <2>8. QED
    BY <1>2, <2>2, <2>3, <2>4, <2>6, <2>7 DEF RequestInv
<1>6. CASE handler[r].duty = "dispatch"
  <2>1. Dispatch(r) /\ handler'[r].duty = "none"
    BY <1>1, <1>6 DEF HandlerDuty, OutcomeTypeOK
  <2>2. /\ collector' = collector /\ dispatches'[r] = dispatches[r] + 1
        /\ \A q \in Requests \ {r} : dispatches'[q] = dispatches[q]
    BY <1>1, <2>1 DEF Dispatch, OutcomeTypeOK
  <2>3. Counts(r)' /\ FinalInv(r)'
    BY <1>1, <1>3, <2>2 DEF RequestInv, Counts, FinalInv
  <2>4. HandlerInv(r)'
    BY <1>1, <1>2, <1>6, <2>1, <2>2 DEF RequestInv, HandlerInv, NothingWritten
  <2>5. dispatches[r] \in Nat /\ dispatches[r] <= 1 /\ dispatches[r] # 1
    BY <1>1, <1>6 DEF RequestInv, DispatchInv, OutcomeTypeOK
  <2>6. DispatchInv(r)'
    BY <1>1, <1>6, <2>1, <2>2, <2>5 DEF RequestInv, DispatchInv
  <2>7. ResultInv(r)'
    BY <1>1, <1>2, <1>4, <2>2 DEF RequestInv, ResultInv
  <2>8. QED
    BY <1>2, <2>2, <2>3, <2>4, <2>6, <2>7 DEF RequestInv
<1>7. QED
  BY <1>5, <1>6 DEF HandlerDuty

\* A duty of a worker.
LEMMA WorkerDutyStep ==
  ASSUME OInv, NEW w \in Workers, WorkerDuty(w), NEW r \in Requests, r = Owner[worker[w].op]
  PROVE  (\A q \in Requests : RequestInv(q))'
<1>1. workerDuty \in [Workers -> Duty]
  BY DEF OInv, OutcomeTypeOK
<1>2. /\ admission' = admission /\ receipt' = receipt /\ worker' = worker /\ handler' = handler
      /\ \A v \in Workers \ {w} : workerDuty'[v] = workerDuty[v]
  BY <1>1 DEF WorkerDuty, vars, submitVars, queueVars
<1>3. \A v \in Workers \ {w} : \A q \in Requests : Owes(v, q)' <=> Owes(v, q)
  BY <1>2 DEF Owes
<1>4. \A q \in Requests \ {r} : ~Owes(w, q) /\ ~Owes(w, q)'
  BY <1>2 DEF Owes
<1>5. ASSUME NEW q \in Requests \ {r},
             collector'[q] = collector[q], dispatches'[q] = dispatches[q]
      PROVE  RequestInv(q)'
  <2>1. \A v \in Workers : Owes(v, q)' <=> Owes(v, q)
    BY <1>3, <1>4
  <2>2. RequestInv(q)
    BY DEF OInv
  <2>3. QED
    BY <1>2, <1>5, <2>1, <2>2, RequestFrame
<1>6. RequestInv(r) /\ OutcomeTypeOK /\ collector[r] \in Collector
  BY DEF OInv, OutcomeTypeOK
<1>7. Outstanding(r)' = Outstanding(r)
  BY <1>2 DEF Outstanding
<1>8. Results(r)' = Results(r) /\ FaultClasses(r)' = FaultClasses(r)
  BY <1>2 DEF Results, FaultClasses
<1>9. CASE workerDuty[w] = "finalize"
  <2>1. TryFinalize(r) /\ workerDuty'[w] = NextDuty(r)
    BY <1>6, <1>9 DEF WorkerDuty, OutcomeTypeOK
  <2>2. /\ dispatches' = dispatches
        /\ collector'[r].pending = collector[r].pending
        /\ collector'[r].sealed = collector[r].sealed
        /\ collector'[r].disk = collector[r].disk
        /\ collector'[r].class = collector[r].class
        /\ collector'[r].finalized = (collector[r].finalized \/ MayFinalize(collector[r]))
        /\ MayFinalize(collector[r]) => collector[r].sealed /\ Outstanding(r) = {}
        /\ \A q \in Requests \ {r} : collector'[q] = collector[q]
    BY <2>1, FinalizeFacts
  <2>3. Counts(r)' /\ FinalInv(r)'
    BY <1>6, <1>7, <2>2 DEF RequestInv, Counts, FinalInv
  <2>4. HandlerInv(r)'
    BY <1>2, <1>6, <2>2 DEF RequestInv, HandlerInv, NothingWritten
  <2>5. ~Owes(w, r) /\ (Owes(w, r)' <=> MayFinalize(collector[r]))
    BY <1>2, <1>9, <2>1 DEF Owes, NextDuty
  <2>6. MayFinalize(collector[r]) => ~collector[r].finalized
    BY DEF MayFinalize
  <2>7. DispatchInv(r)'
    <3>1. CASE MayFinalize(collector[r])
      <4>1. collector'[r].finalized /\ ~collector[r].finalized /\ Owes(w, r)'
        BY <2>2, <2>5, <2>6, <3>1
      <4>2. /\ dispatches'[r] = 0 /\ handler'[r].duty # "dispatch"
            /\ \A v \in Workers \ {w} : ~Owes(v, r)'
        BY <1>2, <1>3, <1>6, <2>2, <4>1 DEF RequestInv, DispatchInv
      <4>3. QED
        BY <4>1, <4>2 DEF DispatchInv
    <3>2. CASE ~MayFinalize(collector[r])
      <4>1. /\ dispatches'[r] = dispatches[r]
            /\ collector'[r].finalized <=> collector[r].finalized
            /\ \A v \in Workers : Owes(v, r)' <=> Owes(v, r)
        BY <1>3, <2>2, <2>5, <3>2
      <4>2. QED
        BY <1>2, <1>6, <4>1 DEF RequestInv, DispatchInv
    <3>3. QED
      BY <3>1, <3>2
  <2>8. ResultInv(r)'
    BY <1>2, <1>6, <1>8, <2>2 DEF RequestInv, ResultInv
  <2>9. QED
    BY <1>5, <2>2, <2>3, <2>4, <2>7, <2>8 DEF RequestInv
<1>10. CASE workerDuty[w] = "dispatch"
  <2>1. Dispatch(r) /\ workerDuty'[w] = "none"
    BY <1>6, <1>10 DEF WorkerDuty, OutcomeTypeOK
  <2>2. /\ collector' = collector /\ dispatches'[r] = dispatches[r] + 1
        /\ \A q \in Requests \ {r} : dispatches'[q] = dispatches[q]
    BY <1>6, <2>1 DEF Dispatch, OutcomeTypeOK
  <2>3. Counts(r)' /\ FinalInv(r)'
    BY <1>6, <1>7, <2>2 DEF RequestInv, Counts, FinalInv
  <2>4. HandlerInv(r)'
    BY <1>2, <1>6, <2>2 DEF RequestInv, HandlerInv, NothingWritten
  <2>5. Owes(w, r) /\ ~Owes(w, r)'
    BY <1>10, <2>1 DEF Owes
  <2>6. dispatches[r] \in Nat /\ dispatches[r] <= 1 /\ dispatches[r] # 1 /\ collector[r].finalized
    BY <1>6, <2>5 DEF RequestInv, DispatchInv, OutcomeTypeOK
  <2>7. DispatchInv(r)'
    <3>1. /\ collector'[r] = collector[r] /\ collector[r].finalized
          /\ dispatches[r] = 0 /\ dispatches'[r] = 1
      BY <2>2, <2>6
    <3>2. handler[r].duty # "dispatch" /\ \A v \in Workers : Owes(v, r) => v = w
      BY <1>6, <2>5 DEF RequestInv, DispatchInv
    <3>3. handler'[r].duty # "dispatch" /\ \A v \in Workers : ~Owes(v, r)'
      BY <1>2, <1>3, <2>5, <3>2
    <3>4. QED
      BY <3>1, <3>3 DEF DispatchInv
  <2>8. ResultInv(r)'
    BY <1>2, <1>6, <1>8, <2>2 DEF RequestInv, ResultInv
  <2>9. QED
    BY <1>5, <2>2, <2>3, <2>4, <2>7, <2>8 DEF RequestInv
<1>11. QED
  BY <1>9, <1>10 DEF WorkerDuty

-----------------------------------------------------------------------------
(* All requests, and the shutdown                                          *)

\* The requests a step is not about keep their part.
LEMMA OthersKept ==
  ASSUME OInv, NEW r \in Requests, RequestInv(r)',
         \A q \in Requests \ {r} : /\ collector'[q] = collector[q]
                                   /\ handler'[q] = handler[q]
                                   /\ dispatches'[q] = dispatches[q],
         \A op \in Ops : Owner[op] # r =>
           admission'[op] = admission[op] /\ receipt'[op] = receipt[op],
         \A q \in Requests : \A v \in Workers : Owes(v, q)' <=> Owes(v, q)
  PROVE  (\A q \in Requests : RequestInv(q))'
<1>1. ASSUME NEW q \in Requests \ {r} PROVE RequestInv(q)'
  <2>1. RequestInv(q)
    BY DEF OInv
  <2>2. \A op \in Ops : Owner[op] = q =>
          admission'[op] = admission[op] /\ receipt'[op] = receipt[op]
    OBVIOUS
  <2>3. QED
    BY <2>1, <2>2, RequestFrame
<1>2. QED
  BY <1>1

\* Every step keeps every request's part of the invariant.
LEMMA RequestsStep ==
  ASSUME OInv, [OutcomeNext]_allVars
  PROVE  (\A q \in Requests : RequestInv(q))'
<1>1. OutcomeTypeOK /\ TypeOK /\ \A q \in Requests : RequestInv(q)
  BY DEF OInv, OutcomeTypeOK
<1> DEFINE SameOwes == \A q \in Requests : \A v \in Workers : Owes(v, q)' <=> Owes(v, q)
           SameButOf(r) == \A q \in Requests \ {r} : /\ collector'[q] = collector[q]
                                                     /\ handler'[q] = handler[q]
                                                     /\ dispatches'[q] = dispatches[q]
           SameWritesButOf(r) == \A op \in Ops : Owner[op] # r =>
             admission'[op] = admission[op] /\ receipt'[op] = receipt[op]
<1>2. CASE \E w \in Workers : WorkerDuty(w)
  <2>1. PICK w \in Workers : WorkerDuty(w)
    BY <1>2
  <2>2. worker[w].op \in Ops
    BY <2>1 DEF WorkerDuty, OInv, DutyInv, IInv, HoldInv, Held, Holding
  <2>3. Owner[worker[w].op] \in Requests
    BY <2>2, OutcomeAssumption
  <2>4. QED
    BY <2>1, <2>3, WorkerDutyStep
<1>3. CASE \A w \in Workers : ~WorkerDuty(w)
  <2>1. SameOwes
    BY <1>3, OwesKept
  <2>2. ASSUME NEW r \in Requests, RequestInv(r)', SameButOf(r), SameWritesButOf(r)
        PROVE  (\A q \in Requests : RequestInv(q))'
    BY <2>1, <2>2, OthersKept
  <2>3. ASSUME collector' = collector, handler' = handler, dispatches' = dispatches,
               admission' = admission, receipt' = receipt
        PROVE  (\A q \in Requests : RequestInv(q))'
    BY <1>1, <2>1, <2>3, RequestFrame
  <2>4. ASSUME NEW r \in Requests, Accept(r) \/ TrySubmit(r) \/ SealProducers(r)
        PROVE  (\A q \in Requests : RequestInv(q))'
    <3>1. RequestInv(r)'
      BY <2>1, <2>4, QuietStep
    <3>2. SameButOf(r)
      BY <1>1, <2>4 DEF Accept, TrySubmit, SealProducers, outcomeVars, OutcomeTypeOK
    <3>3. SameWritesButOf(r)
      <4>1. CASE TrySubmit(r)
        <5>1. Owner[handler[r].op] = r
          BY <1>1, <4>1 DEF TrySubmit, RequestInv, HandlerInv
        <5>2. QED
          BY <1>1, <4>1, <5>1 DEF TrySubmit, Submit, RefuseSubmit, TypeOK
      <4>2. CASE Accept(r) \/ SealProducers(r)
        BY <4>2 DEF Accept, SealProducers, vars, submitVars
      <4>3. QED
        BY <2>4, <4>1, <4>2
    <3> HIDE DEF SameButOf, SameWritesButOf
    <3>4. QED
      BY <2>2, <3>1, <3>2, <3>3
  <2>5. ASSUME NEW op \in Ops, BeginAsyncResult(op)
        PROVE  (\A q \in Requests : RequestInv(q))'
    <3> DEFINE r == Owner[op]
    <3>1. r \in Requests
      BY OutcomeAssumption
    <3>2. RequestInv(r)'
      BY <2>1, <2>5, <3>1, BeginStep
    <3>3. SameButOf(r)
      BY <1>1, <2>5 DEF BeginAsyncResult, OutcomeTypeOK
    <3>4. SameWritesButOf(r)
      BY <2>5 DEF BeginAsyncResult, vars, submitVars
    <3> HIDE DEF SameButOf, SameWritesButOf, r
    <3>5. QED
      BY <2>2, <3>1, <3>2, <3>3, <3>4
  <2>6. ASSUME NEW r \in Requests, CompleteImmediately(r)
        PROVE  (\A q \in Requests : RequestInv(q))'
    <3>1. RequestInv(r)' /\ collector' = [collector EXCEPT ![r] = collector'[r]]
      BY <2>1, <2>6, CompleteImmediatelyStep
    <3>2. SameButOf(r)
      BY <1>1, <2>6, <3>1 DEF CompleteImmediately, OutcomeTypeOK
    <3>3. Owner[handler[r].op] = r
      BY <1>1, <2>6 DEF CompleteImmediately, RequestInv, HandlerInv
    <3>4. SameWritesButOf(r)
      BY <1>1, <2>6, <3>3 DEF CompleteImmediately, CompleteRefused, submitVars, TypeOK
    <3> HIDE DEF SameButOf, SameWritesButOf
    <3>5. QED
      BY <2>2, <3>1, <3>2, <3>4
  <2>7. ASSUME NEW r \in Requests, SetSnapshot(r)
        PROVE  (\A q \in Requests : RequestInv(q))'
    <3>1. RequestInv(r)'
      BY <2>1, <2>7, SnapshotStep
    <3>2. SameButOf(r)
      BY <1>1, <2>7, SnapshotFrame, SnapshotOthers
    <3>3. SameWritesButOf(r)
      BY <2>7, SnapshotFrame DEF vars, submitVars
    <3> HIDE DEF SameButOf, SameWritesButOf
    <3>4. QED
      BY <2>2, <3>1, <3>2, <3>3
  <2>8. ASSUME NEW r \in Requests, HandlerDuty(r)
        PROVE  (\A q \in Requests : RequestInv(q))'
    <3>1. RequestInv(r)' /\ SameButOf(r)
      BY <2>1, <2>8, HandlerDutyStep
    <3>2. SameWritesButOf(r)
      BY <2>8 DEF HandlerDuty, vars, submitVars
    <3> HIDE DEF SameButOf, SameWritesButOf
    <3>3. QED
      BY <2>2, <3>1, <3>2
  <2>9. ASSUME NEW w \in Workers, CompleteWrite(w)
        PROVE  (\A q \in Requests : RequestInv(q))'
    <3> DEFINE r == Owner[worker[w].op]
    <3>1. worker[w].op \in Ops
      BY <2>9 DEF CompleteWrite, Complete, OInv, IInv, HoldInv, Held, Holding
    <3>2. r \in Requests
      BY <3>1, OutcomeAssumption
    <3> HIDE DEF r
    <3>3. PICK s \in Requests : s = r
      BY <3>2
    <3>4. RequestInv(s)' /\ collector' = [collector EXCEPT ![s] = collector'[s]]
      BY <2>1, <2>9, <3>3, CompleteWriteStep DEF r
    <3>5. SameButOf(s)
      BY <1>1, <2>9, <3>4 DEF CompleteWrite, OutcomeTypeOK
    <3>6. SameWritesButOf(s)
      BY <1>1, <2>9, <3>3 DEF CompleteWrite, Complete, submitVars, TypeOK, r
    <3> HIDE DEF SameButOf, SameWritesButOf
    <3>7. QED
      BY <2>2, <3>4, <3>5, <3>6
  <2>10. ASSUME NEW w \in Workers, OtherWorkerStep(w)
         PROVE  (\A q \in Requests : RequestInv(q))'
    <3>1. admission' = admission /\ receipt' = receipt
      BY <2>10 DEF OtherWorkerStep, Wake, Execute, ObserveStateResult, Release, submitVars
    <3>2. QED
      BY <2>3, <2>10, <3>1 DEF OtherWorkerStep, outcomeVars
  <2>11. ASSUME BeginShutdown \/ StopPersistence \/ StopOutcome
         PROVE  (\A q \in Requests : RequestInv(q))'
    <3>1. admission' = admission /\ receipt' = receipt
      BY <2>11 DEF BeginShutdown, StopPersistence, StopOutcome, BeginClose, EndClose,
                   vars, submitVars
    <3>2. QED
      BY <2>3, <2>11, <3>1 DEF BeginShutdown, StopPersistence, StopOutcome, outcomeVars
  <2>12. ASSUME UNCHANGED allVars PROVE (\A q \in Requests : RequestInv(q))'
    BY <2>3, <2>12 DEF allVars, vars, submitVars, outcomeVars
  <2>13. QED
    BY <1>3, <2>4, <2>5, <2>6, <2>7, <2>8, <2>9, <2>10, <2>11, <2>12
    DEF OutcomeNext, Handler, OutcomeWorker
<1>4. QED
  BY <1>2, <1>3

\* Handlers that have returned stay where they are once the server is stopped.
LEMMA ReturnedStay ==
  ASSUME OInv, NEW r \in Requests, Handler(r) \/ Accept(r), ~timedOut
  PROVE  stage \notin {"persistence", "outcome"}
<1> SUFFICES ASSUME stage \in {"persistence", "outcome"} PROVE FALSE
  OBVIOUS
<1>1. handler[r].pc \in {"idle", "sealed"} /\ handler[r].duty = "none"
  BY DEF OInv, ShutdownInv, Returned
<1>2. ~\E op \in Ops : Owner[op] = r /\ BeginAsyncResult(op)
  BY <1>1 DEF BeginAsyncResult, Running
<1>3. ~SetSnapshot(r)
  BY <1>1 DEF SetSnapshot, LoadFails, TransitionFails, SetTransitionState, CommitArchive,
              SetArchiveClass, BlockFallback, UpstreamFails, Running, Forwarding
<1>4. QED
  BY <1>1, <1>2, <1>3 DEF Handler, Accept, TrySubmit, CompleteImmediately, SealProducers,
                          HandlerDuty, Forwarding

\* The shutdown proceeds in its order, and refuses nobody it has waited for.
LEMMA ShutdownStep ==
  ASSUME OInv, [OutcomeNext]_allVars
  PROVE  ShutdownInv'
<1>1. ShutdownInv /\ StopInv /\ DutyInv /\ OutcomeTypeOK /\ TypeOK
  BY DEF OInv, IInv, OutcomeTypeOK
<1>2. ASSUME NEW r \in Requests, Handler(r) \/ Accept(r) PROVE ShutdownInv'
  <2>1. stage' = stage /\ timedOut' = timedOut /\ closing' = closing /\ drained' = drained
    BY <1>2, SnapshotFrame
    DEF Handler, Accept, BeginAsyncResult, TrySubmit, CompleteImmediately, SealProducers,
        HandlerDuty, Submit, RefuseSubmit, CompleteRefused, vars
  <2>2. CASE timedOut
    BY <1>1, <2>1, <2>2 DEF ShutdownInv, OrderlyShutdownRefusesNothing
  <2>3. CASE ~timedOut
    <3>1. stage \notin {"persistence", "outcome"} /\ ~closing
      BY <1>1, <1>2, <2>3, ReturnedStay DEF ShutdownInv
    <3>2. refusals' = refusals
      BY <1>2, <3>1, SnapshotFrame
      DEF Handler, Accept, BeginAsyncResult, TrySubmit, CompleteImmediately, SealProducers,
          HandlerDuty, TryFinalize, Dispatch, outcomeVars
    <3>3. \A op \in Ops : admission'[op] # "lifecycle"
      <4>1. \A op \in Ops : admission[op] # "lifecycle"
        BY <1>1, <2>3 DEF ShutdownInv, OrderlyShutdownRefusesNothing
      <4>2. CASE TrySubmit(r)
        BY <1>1, <3>1, <4>1, <4>2 DEF TrySubmit, Submit, RefuseSubmit, TypeOK
      <4>3. CASE ~TrySubmit(r)
        <5>1. admission' = admission
          BY <1>2, <4>3, SnapshotFrame
          DEF Handler, Accept, BeginAsyncResult, CompleteImmediately, SealProducers, HandlerDuty,
              CompleteRefused, vars, submitVars
        <5>2. QED
          BY <4>1, <5>1
      <4>4. QED
        BY <4>2, <4>3
    <3>4. refusals = {}
      BY <1>1, <2>3 DEF ShutdownInv, OrderlyShutdownRefusesNothing
    <3>5. QED
      BY <2>1, <3>1, <3>2, <3>3, <3>4 DEF ShutdownInv, OrderlyShutdownRefusesNothing
  <2>4. QED
    BY <2>2, <2>3
<1>3. ASSUME NEW w \in Workers, OutcomeWorker(w) PROVE ShutdownInv'
  <2>1. /\ stage' = stage /\ timedOut' = timedOut /\ closing' = closing /\ drained' = drained
        /\ handler' = handler /\ admission' = admission
    BY <1>3 DEF OutcomeWorker, CompleteWrite, WorkerDuty, OtherWorkerStep, Complete, Wake, Execute,
                ObserveStateResult, Release, vars, submitVars
  <2>2. refusals' = refusals
    <3>1. CASE WorkerDuty(w)
      <4>1. worker[w].pc = "observe"
        BY <1>1, <3>1 DEF WorkerDuty, DutyInv
      <4>2. stage # "outcome"
        BY <1>1, <4>1 DEF ShutdownInv, StopInv
      <4>3. QED
        BY <3>1, <4>2 DEF WorkerDuty, TryFinalize, Dispatch
    <3>2. CASE ~WorkerDuty(w)
      BY <1>3, <3>2 DEF OutcomeWorker, CompleteWrite, OtherWorkerStep, outcomeVars
    <3>3. QED
      BY <3>1, <3>2
  <2>3. \A r \in Requests : Returned(r)' <=> Returned(r)
    BY <2>1 DEF Returned
  <2>4. QED
    BY <1>1, <2>1, <2>2, <2>3 DEF ShutdownInv, OrderlyShutdownRefusesNothing
<1>4. ASSUME BeginShutdown \/ StopPersistence \/ StopOutcome PROVE ShutdownInv'
  <2>1. handler' = handler /\ admission' = admission /\ refusals' = refusals
    BY <1>4 DEF BeginShutdown, StopPersistence, StopOutcome, BeginClose, EndClose, vars,
                submitVars, outcomeVars
  <2>2. \A r \in Requests : Returned(r)' <=> Returned(r)
    BY <2>1 DEF Returned
  <2>3. CASE BeginShutdown
    BY <1>1, <2>1, <2>2, <2>3 DEF BeginShutdown, vars, ShutdownInv, OrderlyShutdownRefusesNothing
  <2>4. CASE StopPersistence
    BY <1>1, <2>1, <2>2, <2>4 DEF StopPersistence, BeginClose, ShutdownInv,
                                  OrderlyShutdownRefusesNothing
  <2>5. CASE StopOutcome
    BY <1>1, <2>1, <2>2, <2>5 DEF StopOutcome, EndClose, ShutdownInv,
                                  OrderlyShutdownRefusesNothing
  <2>6. QED
    BY <1>4, <2>3, <2>4, <2>5
<1>5. ASSUME UNCHANGED allVars PROVE ShutdownInv'
  BY <1>1, <1>5 DEF allVars, vars, submitVars, outcomeVars, ShutdownInv, Returned,
                    OrderlyShutdownRefusesNothing
<1>6. QED
  BY <1>2, <1>3, <1>4, <1>5 DEF OutcomeNext

-----------------------------------------------------------------------------
(* The theorems                                                            *)

\* Every step keeps the invariant: the steps of a handler, of a worker, of the shutdown.
LEMMA OutcomeInvStep == OInv /\ [OutcomeNext]_allVars => OInv'
<1> SUFFICES ASSUME OInv, [OutcomeNext]_allVars PROVE OInv'
  OBVIOUS
<1>1. IInv'
  BY WriterStep, InvStep DEF OInv
<1>2. OutcomeTypeOK' /\ DutyInv' /\ ShutdownInv' /\ (\A r \in Requests : RequestInv(r))'
  BY OutcomeTypeStep, DutyStep, ShutdownStep, RequestsStep
<1>3. QED
  BY <1>1, <1>2 DEF OInv

\* The invariant holds at the start.
LEMMA InitOutcome == OutcomeInit => OInv
<1> SUFFICES ASSUME OutcomeInit PROVE OInv
  OBVIOUS
<1>1. Init
  BY DEF OutcomeInit
<1>2. IInv /\ TypeOK
  BY <1>1, InitInv, InitType
<1>3. OutcomeTypeOK
  <2>1. collector \in [Requests -> Collector]
    BY DEF OutcomeInit, Collector, DiskStates, FailureClasses
  <2>2. QED
    BY <1>2, <2>1 DEF OutcomeInit, OutcomeTypeOK, Duty
<1>4. DutyInv
  BY DEF OutcomeInit, DutyInv
<1>5. ShutdownInv
  BY <1>1 DEF OutcomeInit, Init, ShutdownInv, OrderlyShutdownRefusesNothing
<1>6. ASSUME NEW r \in Requests PROVE RequestInv(r)
  <2>1. /\ handler[r].pc = "idle" /\ handler[r].duty = "none"
        /\ handler[r].archive = {} /\ handler[r].faults = {}
        /\ collector[r].pending = 0 /\ ~collector[r].sealed /\ ~collector[r].finalized
        /\ collector[r].disk = "not_attempted" /\ collector[r].class = "unknown"
        /\ dispatches[r] = 0
    BY DEF OutcomeInit
  <2>2. \A op \in Ops : admission[op] = "none" /\ receipt[op] = "none"
    BY <1>1 DEF Init
  <2>3. Outstanding(r) = {} /\ Results(r) = {} /\ FaultClasses(r) = {}
    BY <2>1, <2>2 DEF Outstanding, Results, FaultClasses
  <2>4. Counts(r) /\ FinalInv(r)
    BY <2>1, <2>3, FS_EmptySet DEF Counts, FinalInv
  <2>5. HandlerInv(r)
    BY <2>1 DEF HandlerInv
  <2>6. DispatchInv(r)
    BY <2>1 DEF OutcomeInit, DispatchInv, Owes
  <2>7. ResultInv(r)
    BY <2>1, <2>3 DEF ResultInv, Told, Named
  <2>8. QED
    BY <2>4, <2>5, <2>6, <2>7 DEF RequestInv
<1>7. QED
  BY <1>2, <1>3, <1>4, <1>5, <1>6 DEF OInv

\* The closure bookkeeping of collectors, duties and stages is inductive.
THEOREM OutcomeInvCorrect == OutcomeSpec => []OInv
<1>1. QED
  BY InitOutcome, OutcomeInvStep, PTL DEF OutcomeSpec

\* Collectors, handlers and duties keep their types; pending is never negative.
THEOREM OutcomeTypeCorrect == OutcomeSpec => []OutcomeTypeOK
<1>1. OInv => OutcomeTypeOK
  BY DEF OInv
<1>2. QED
  BY <1>1, OutcomeInvCorrect, PTL

\* A request is dispatched at most once, and not before its last write is answered.
THEOREM DispatchedOnceAndLastCorrect == OutcomeSpec => []DispatchedOnceAndLast
<1>1. OInv => DispatchedOnceAndLast
  <2> SUFFICES ASSUME OInv, NEW r \in Requests
               PROVE  /\ dispatches[r] <= 1
                      /\ dispatches[r] = 1 =>
                           /\ handler[r].pc = "sealed"
                           /\ \A op \in Ops : Owner[op] = r /\ admission[op] # "none"
                                                => receipt[op] # "none"
    BY DEF DispatchedOnceAndLast
  <2>1. RequestInv(r)
    BY DEF OInv
  <2>2. dispatches[r] = 1 => collector[r].sealed /\ Outstanding(r) = {}
    BY <2>1 DEF RequestInv, DispatchInv, FinalInv
  <2>3. QED
    BY <2>1, <2>2 DEF RequestInv, DispatchInv, HandlerInv, Outstanding
<1>2. QED
  BY <1>1, OutcomeInvCorrect, PTL

\* The dispatched closure tells the worst of the results, and a class that fits: of a
\* result as bad, or of a fault that is no result.
THEOREM ClosureTellsTheWorstCorrect == OutcomeSpec => []ClosureTellsTheWorst
<1>1. OInv => ClosureTellsTheWorst
  <2> SUFFICES ASSUME OInv PROVE ClosureTellsTheWorst
    OBVIOUS
  <2> SUFFICES ASSUME NEW r \in Requests, dispatches[r] > 0
               PROVE  LET told  == collector[r].disk
                          worst == {x \in Results(r) : \A y \in Results(r) :
                                      Severity(y.state) <= Severity(x.state)}
                          named == FaultClasses(r)
                                   \cup {x.class : x \in {y \in worst :
                                                            y.state \in {"failed", "unavailable"}}}
                      IN  /\ IF Results(r) = {} THEN told = "not_attempted"
                             ELSE \A x \in worst : told = x.state
                          /\ collector[r].class \in (IF named = {} THEN {"unknown"} ELSE named)
    BY Zenon DEF ClosureTellsTheWorst
  <2> DEFINE told  == collector[r].disk
             worst == {x \in Results(r) : \A y \in Results(r) :
                         Severity(y.state) <= Severity(x.state)}
             named == FaultClasses(r)
                      \cup {x.class : x \in {y \in worst : y.state \in {"failed", "unavailable"}}}
  <2>1. RequestInv(r) /\ OutcomeTypeOK /\ told \in DiskStates
    BY DEF OInv, OutcomeTypeOK, Collector
  <2>2. handler[r].pc = "sealed"
    <3>1. collector[r].finalized
      BY <2>1 DEF RequestInv, DispatchInv
    <3>2. QED
      BY <2>1, <3>1 DEF RequestInv, FinalInv, HandlerInv
  <2>3. /\ Told(Results(r), told, collector[r].class, FaultClasses(r), handler[r].pc)
        /\ Named(Results(r), told, collector[r].class, FaultClasses(r))
    BY <2>1, <2>2 DEF RequestInv, ResultInv, Told
  <2>4. \A x \in Results(r) : x.state \in DiskStates
    BY <2>1, ResultStates
  <2>5. \A x \in Results(r) : x.state = told => x \in worst
    BY <2>3 DEF Told
  <2>6. ASSUME NEW x \in worst PROVE told = x.state
    <3>1. CASE told # "not_attempted"
      <4>1. PICK z \in Results(r) : z.state = told
        BY <2>3, <3>1 DEF Told
      <4>2. Severity(told) <= Severity(x.state) /\ Severity(x.state) <= Severity(told)
        BY <2>3, <2>6, <4>1 DEF Told
      <4>3. Severity(told) = Severity(x.state)
        BY <2>1, <2>4, <2>6, <4>2, SeverityOrders
      <4>4. QED
        BY <2>1, <2>4, <2>6, <4>3, SeverityOrders
    <3>2. CASE told = "not_attempted"
      <4>1. Severity(x.state) <= Severity(told) /\ Severity(told) = 1
        BY <2>1, <2>3, <2>6, <3>2, SeverityOrders DEF Told
      <4>2. Severity(x.state) = 1
        BY <2>4, <2>6, <4>1, SeverityOrders
      <4>3. QED
        BY <2>4, <2>6, <3>2, <4>2, SeverityOrders
    <3>3. QED
      BY <3>1, <3>2
  <2>7. Results(r) = {} => told = "not_attempted"
    BY <2>3 DEF Told
  <2>8. CASE named = {}
    <3>1. FaultClasses(r) = {} /\ \A x \in worst : x.state \notin {"failed", "unavailable"}
      BY <2>8
    <3>2. told \notin {"failed", "unavailable"}
      BY <2>3, <2>5, <3>1 DEF Told
    <3>3. collector[r].class = "unknown"
      BY <2>3, <3>1, <3>2 DEF Named
    <3>4. QED
      BY <2>6, <2>7, <2>8, <3>3
  <2>9. CASE named # {}
    <3>1. told \in {"failed", "unavailable"} \/ FaultClasses(r) # {}
      BY <2>6, <2>9
    <3>2. collector[r].class \in named
      BY <2>3, <2>5, <3>1 DEF Named
    <3>3. QED
      BY <2>6, <2>7, <2>9, <3>2
  <2>10. QED
    BY <2>8, <2>9
<1>2. QED
  BY <1>1, OutcomeInvCorrect, PTL

\* A shutdown whose HTTP stage ended in time refuses neither a write nor a closure.
THEOREM OrderlyShutdownCorrect == OutcomeSpec => []OrderlyShutdownRefusesNothing
<1>1. OInv => OrderlyShutdownRefusesNothing
  BY DEF OInv, ShutdownInv
<1>2. QED
  BY <1>1, OutcomeInvCorrect, PTL
=============================================================================
