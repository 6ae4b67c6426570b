--------------------------- MODULE RequestOutcome ---------------------------
(***************************************************************************)
(* The closure of a request: its outcome collector (request_outcome.go),   *)
(* fed by the goroutine that handles the request and by the persistence    *)
(* workers that complete its state writes, handed once to the outcome      *)
(* dispatcher, and the order in which main stops all three (cmd/proxy).    *)
(*                                                                         *)
(* A handler reads the session's states, which may fail, begins            *)
(* completions and submits their writes, commits archive blocks in         *)
(* between, forwards the request, and seals the collector when it returns; *)
(* a step is one critical section of requestOutcomeCollector.mu.  The      *)
(* dispatcher is here the flag that makes it refuse: OutcomeDispatcher     *)
(* models the rest.  Of the snapshot the disk state and the failure class  *)
(* are kept, with all their writers: several goroutines write them.        *)
(***************************************************************************)
EXTENDS PersistenceWriter

CONSTANTS
  Requests,
  Owner      \* [Ops -> the request whose handler submits the write]

ASSUME OutcomeAssumption == Owner \in [Ops -> Requests]

VARIABLES
  collector,   \* [Requests -> pending, sealed, finalized, disk, class]
  handler,     \* [Requests -> pc, op, duty, archive, faults]
  workerDuty,  \* [Workers -> what a worker still owes the collector]
  dispatches,  \* [Requests -> how often the snapshot was dispatched]
  stage,       \* how far main has come with the shutdown
  timedOut,    \* the HTTP server was left with handlers running
  refusals     \* requests whose snapshot the closing dispatcher refused

outcomeVars == <<collector, dispatches, refusals>>
allVars == <<vars, outcomeVars, handler, workerDuty, stage, timedOut>>

DiskStates == {"not_attempted", "saved", "unavailable", "failed"}
FailureClasses == {"unknown", "sqlite", "archive", "queue_full", "lifecycle", "upstream"}

\* What a handler reports that is no result of a write: a state it could not read,
\* a history transition that was rolled back, an upstream that failed.
Faults == {"load", "transition", "upstream"}
FaultClass == [load |-> "sqlite", transition |-> "sqlite", upstream |-> "upstream"]

Collector == [pending: Nat, sealed: BOOLEAN, finalized: BOOLEAN,
              disk: DiskStates, class: FailureClasses]

\* An actor that changed the collector calls tryFinalize, and dispatches the
\* snapshot if that call was the one that finalized it.
Duty == {"none", "finalize", "dispatch"}

OutcomeTypeOK ==
  /\ TypeOK
  /\ collector \in [Requests -> Collector]
  /\ handler \in [Requests -> [pc: {"idle", "run", "submit", "refused", "class", "blocked",
                                    "transition", "forward", "sealed"},
                               op: Ops \cup {NoOp},
                               duty: Duty,
                               archive: SUBSET {"saved", "failed"},
                               faults: SUBSET Faults]]
  /\ workerDuty \in [Workers -> Duty]
  /\ dispatches \in [Requests -> Nat]
  /\ stage \in {"serving", "http", "persistence", "outcome"}
  /\ timedOut \in BOOLEAN
  /\ refusals \subseteq Requests

OutcomeInit ==
  /\ Init
  /\ collector = [r \in Requests |-> [pending |-> 0, sealed |-> FALSE, finalized |-> FALSE,
                                      disk |-> "not_attempted", class |-> "unknown"]]
  /\ handler = [r \in Requests |-> [pc |-> "idle", op |-> NoOp, duty |-> "none",
                                    archive |-> {}, faults |-> {}]]
  /\ workerDuty = [w \in Workers |-> "none"]
  /\ dispatches = [r \in Requests |-> 0]
  /\ stage = "serving"
  /\ timedOut = FALSE
  /\ refusals = {}

-----------------------------------------------------------------------------
(* The collector                                                           *)

\* outcomePersistenceSeverity
Severity(state) ==
  CASE state = "not_attempted" -> 1
    [] state = "saved"         -> 2
    [] state = "unavailable"   -> 3
    [] state = "failed"        -> 4

\* Mutated form: the last result wins.
MergeLast(known, next) == next

\* A result of at least the severity replaces what is known.
MergeState(known, next) == IF Severity(next) < Severity(known) THEN known ELSE next

\* The failure class follows an adopted result only.
Applied(c, state, class) ==
  [c EXCEPT !.pending = IF @ > 0 THEN @ - 1 ELSE @,
            !.disk = MergeState(@, state),
            !.class = IF class # "none" /\ MergeState(c.disk, state) = state
                      THEN class ELSE @]

CompleteResult(r, state, class) ==
  collector' = IF collector[r].finalized THEN collector
               ELSE [collector EXCEPT ![r] = Applied(@, state, class)]

\* Mutated forms: pending completions, or an earlier finalization, are not
\* looked at.
MayFinalizeEarly(c) == c.sealed /\ ~c.finalized
MayFinalizeAgain(c) == c.sealed /\ c.pending = 0

MayFinalize(c) == c.sealed /\ c.pending = 0 /\ ~c.finalized

\* TryDispatch refuses once main has begun to close the dispatcher.
Dispatch(r) ==
  /\ dispatches' = [dispatches EXCEPT ![r] = @ + 1]
  /\ refusals' = IF stage = "outcome" THEN refusals \cup {r} ELSE refusals
  /\ UNCHANGED collector

TryFinalize(r) ==
  /\ collector' = IF MayFinalize(collector[r])
                  THEN [collector EXCEPT ![r].finalized = TRUE] ELSE collector
  /\ UNCHANGED <<dispatches, refusals>>

NextDuty(r) == IF MayFinalize(collector[r]) THEN "dispatch" ELSE "none"

-----------------------------------------------------------------------------
(* The handler                                                             *)

Running(r) == handler[r].pc = "run" /\ handler[r].duty = "none"

\* The states of the session are read before the request writes anything.
NothingWritten(r) ==
  /\ handler[r].archive = {}
  /\ \A op \in Ops : Owner[op] = r => admission[op] = "none"

Accept(r) ==
  /\ handler[r].pc = "idle"
  /\ stage = "serving"
  /\ handler' = [handler EXCEPT ![r].pc = "run"]
  /\ UNCHANGED <<vars, outcomeVars, workerDuty, stage, timedOut>>

\* BeginAsyncResult through beginStateCompletion; a handler submits before it
\* returns and so before it seals.
BeginAsyncResult(op) ==
  LET r == Owner[op] IN
  /\ Running(r)
  /\ admission[op] = "none"
  /\ ~collector[r].sealed /\ ~collector[r].finalized
  /\ collector' = [collector EXCEPT ![r].pending = @ + 1]
  /\ handler' = [handler EXCEPT ![r].pc = "submit", ![r].op = op]
  /\ UNCHANGED <<vars, dispatches, refusals, workerDuty, stage, timedOut>>

TrySubmit(r) ==
  /\ handler[r].pc = "submit"
  /\ \/ /\ Submit(handler[r].op)
        /\ handler' = [handler EXCEPT ![r].pc = "run"]
     \/ /\ RefuseSubmit(handler[r].op)
        /\ handler' = [handler EXCEPT ![r].pc = "refused"]
  /\ UNCHANGED <<outcomeVars, workerDuty, stage, timedOut>>

CompleteImmediately(r) ==
  LET op == handler[r].op IN
  /\ handler[r].pc = "refused"
  /\ CompleteRefused(op)
  /\ CompleteResult(r, "unavailable", admission[op])
  /\ handler' = [handler EXCEPT ![r].pc = "run", ![r].duty = "finalize"]
  /\ UNCHANGED <<dispatches, refusals, workerDuty, stage, timedOut>>

\* recordStateLoadFailure: a class without a disk state.
LoadFails(r) ==
  /\ Running(r)
  /\ NothingWritten(r)
  /\ collector' = [collector EXCEPT ![r].class = "sqlite"]
  /\ handler' = [handler EXCEPT ![r].faults = @ \cup {"load"}]
  /\ UNCHANGED <<vars, dispatches, refusals, workerDuty, stage, timedOut>>

\* A transition of the history that was rolled back: class and disk state are two
\* calls, the second overwrites, and the request goes out as it came.
TransitionFails(r) ==
  /\ Running(r)
  /\ NothingWritten(r)
  /\ handler[r].faults = {}
  /\ collector' = [collector EXCEPT ![r].class = "sqlite"]
  /\ handler' = [handler EXCEPT ![r].faults = {"transition"}, ![r].pc = "transition"]
  /\ UNCHANGED <<vars, dispatches, refusals, workerDuty, stage, timedOut>>

SetTransitionState(r) ==
  /\ handler[r].pc = "transition"
  /\ collector' = [collector EXCEPT ![r].disk = "failed"]
  /\ handler' = [handler EXCEPT ![r].pc = "forward"]
  /\ UNCHANGED <<vars, dispatches, refusals, workerDuty, stage, timedOut>>

\* commitArchiveIntent, once for every stage that destroys text until one fails:
\* the result and its failure class are two calls.
CommitArchive(r) ==
  /\ Running(r)
  /\ "failed" \notin handler[r].archive
  /\ \E result \in {"saved", "failed"} :
       /\ collector' = [collector EXCEPT ![r].disk = MergeState(@, result)]
       /\ handler' = [handler EXCEPT ![r].archive = @ \cup {result},
                                     ![r].pc = IF result = "saved" THEN "run" ELSE "class"]
  /\ UNCHANGED <<vars, dispatches, refusals, workerDuty, stage, timedOut>>

SetArchiveClass(r) ==
  /\ handler[r].pc = "class"
  /\ collector' = [collector EXCEPT ![r].class = "archive"]
  /\ handler' = [handler EXCEPT ![r].pc = "blocked"]
  /\ UNCHANGED <<vars, dispatches, refusals, workerDuty, stage, timedOut>>

\* The blocked fallback sets the class again, then forwards or refuses the request.
BlockFallback(r) ==
  /\ handler[r].pc = "blocked"
  /\ collector' = [collector EXCEPT ![r].class = "archive"]
  /\ handler' = [handler EXCEPT ![r].pc = "forward"]
  /\ UNCHANGED <<vars, dispatches, refusals, workerDuty, stage, timedOut>>

\* forwardRaw, the last call of every handler that makes it.
Forwarding(r) == handler[r].pc \in {"run", "forward"} /\ handler[r].duty = "none"

UpstreamFails(r) ==
  /\ Forwarding(r)
  /\ "upstream" \notin handler[r].faults
  /\ collector' = [collector EXCEPT ![r].class = "upstream"]
  /\ handler' = [handler EXCEPT ![r].faults = @ \cup {"upstream"}, ![r].pc = "forward"]
  /\ UNCHANGED <<vars, dispatches, refusals, workerDuty, stage, timedOut>>

\* setIfMutable: what the handler itself writes into the snapshot.
SetSnapshot(r) ==
  \/ LoadFails(r) \/ TransitionFails(r) \/ SetTransitionState(r)
  \/ CommitArchive(r) \/ SetArchiveClass(r) \/ BlockFallback(r)
  \/ UpstreamFails(r)

SealProducers(r) ==
  /\ Forwarding(r)
  /\ collector' = [collector EXCEPT ![r].sealed = TRUE]
  /\ handler' = [handler EXCEPT ![r].pc = "sealed", ![r].duty = "finalize"]
  /\ UNCHANGED <<vars, dispatches, refusals, workerDuty, stage, timedOut>>

HandlerDuty(r) ==
  /\ \/ /\ handler[r].duty = "finalize"
        /\ TryFinalize(r)
        /\ handler' = [handler EXCEPT ![r].duty = NextDuty(r)]
     \/ /\ handler[r].duty = "dispatch"
        /\ Dispatch(r)
        /\ handler' = [handler EXCEPT ![r].duty = "none"]
  /\ UNCHANGED <<vars, workerDuty, stage, timedOut>>

Handler(r) ==
  \/ \E op \in Ops : Owner[op] = r /\ BeginAsyncResult(op)
  \/ TrySubmit(r) \/ CompleteImmediately(r)
  \/ SetSnapshot(r) \/ SealProducers(r) \/ HandlerDuty(r)

-----------------------------------------------------------------------------
(* The workers                                                             *)

\* Mutated form: the worker does not ask whether it completed the last write.
CompleteWriteOnly(w) ==
  /\ Complete(w)
  /\ CompleteResult(Owner[worker[w].op], worker[w].outcome,
               IF worker[w].outcome = "failed" THEN "sqlite" ELSE "none")
  /\ UNCHANGED <<dispatches, refusals, handler, workerDuty, stage, timedOut>>

CompleteWrite(w) ==
  /\ Complete(w)
  /\ CompleteResult(Owner[worker[w].op], worker[w].outcome,
               IF worker[w].outcome = "failed" THEN "sqlite" ELSE "none")
  /\ workerDuty' = [workerDuty EXCEPT ![w] = "finalize"]
  /\ UNCHANGED <<dispatches, refusals, handler, stage, timedOut>>

WorkerDuty(w) ==
  LET r == Owner[worker[w].op] IN
  /\ \/ /\ workerDuty[w] = "finalize"
        /\ TryFinalize(r)
        /\ workerDuty' = [workerDuty EXCEPT ![w] = NextDuty(r)]
     \/ /\ workerDuty[w] = "dispatch"
        /\ Dispatch(r)
        /\ workerDuty' = [workerDuty EXCEPT ![w] = "none"]
  /\ UNCHANGED <<vars, handler, stage, timedOut>>

\* The health tracker is told after the closure.
OtherWorkerStep(w) ==
  /\ workerDuty[w] = "none"
  /\ Wake(w) \/ Execute(w) \/ ObserveStateResult(w) \/ Release(w)
  /\ UNCHANGED <<outcomeVars, handler, workerDuty, stage, timedOut>>

OutcomeWorker(w) == CompleteWrite(w) \/ WorkerDuty(w) \/ OtherWorkerStep(w)

-----------------------------------------------------------------------------
(* Shutdown: productionShutdownSteps and runShutdown                       *)

BeginShutdown ==
  /\ stage = "serving"
  /\ stage' = "http"
  /\ UNCHANGED <<vars, outcomeVars, handler, workerDuty, timedOut>>

Returned(r) ==
  handler[r].pc \in {"idle", "sealed"} /\ handler[r].duty = "none"

\* http.Server.Shutdown waits for the handlers, up to its deadline; the stages
\* after a stage that failed run all the same.
StopPersistence ==
  /\ stage = "http"
  /\ \/ (\A r \in Requests : Returned(r)) /\ UNCHANGED timedOut
     \/ timedOut' = TRUE
  /\ BeginClose
  /\ stage' = "persistence"
  /\ UNCHANGED <<outcomeVars, handler, workerDuty>>

\* Mutated form: the dispatcher is closed before the workers have drained.
StopOutcomeAtOnce ==
  /\ stage = "persistence"
  /\ stage' = "outcome"
  /\ UNCHANGED <<vars, outcomeVars, handler, workerDuty, timedOut>>

StopOutcome ==
  /\ stage = "persistence"
  /\ EndClose
  /\ stage' = "outcome"
  /\ UNCHANGED <<outcomeVars, handler, workerDuty, timedOut>>

OutcomeNext ==
  \/ \E r \in Requests : Accept(r) \/ Handler(r)
  \/ \E w \in Workers : OutcomeWorker(w)
  \/ BeginShutdown
  \/ StopPersistence
  \/ StopOutcome

\* Handlers return (every upstream call has a deadline) and workers are scheduled.
\* Once the HTTP stage has given up, the remaining stages run and the process exits
\* with handlers in it, so nothing is promised of a handler any more.
OutcomeFairness ==
  /\ \A r \in Requests : /\ WF_allVars(~timedOut /\ Handler(r))
                         /\ WF_allVars(~timedOut /\ SealProducers(r))
  /\ \A w \in Workers : WF_allVars(OutcomeWorker(w))

OutcomeSpec == OutcomeInit /\ [][OutcomeNext]_allVars /\ OutcomeFairness
-----------------------------------------------------------------------------
(* Properties                                                              *)

\* The results the closure of r must account for, with the failure class each
\* one came with.
Results(r) ==
  {[state |-> receipt[op],
    class |-> IF receipt[op] = "unavailable" THEN admission[op] ELSE "sqlite"] :
      op \in {o \in Ops : Owner[o] = r /\ receipt[o] # "none"}}
  \cup {[state |-> result, class |-> "archive"] : result \in handler[r].archive}
  \cup (IF "transition" \in handler[r].faults /\ handler[r].pc # "transition"
        THEN {[state |-> "failed", class |-> "sqlite"]} ELSE {})

\* The classes of what went wrong besides.
FaultClasses(r) == {FaultClass[f] : f \in handler[r].faults}

\* A request is dispatched at most once, although its handler and any number of
\* workers may all find it finished, and not before its last write is answered.
DispatchedOnceAndLast ==
  \A r \in Requests :
    /\ dispatches[r] <= 1
    /\ dispatches[r] = 1 =>
         /\ handler[r].pc = "sealed"
         /\ \A op \in Ops : Owner[op] = r /\ admission[op] # "none" => receipt[op] # "none"

\* The dispatched closure reports the worst of the request's results, whatever the
\* order in which workers, handler and archive commits delivered them.  It names a
\* failure class if anything failed and none otherwise; of the results only those as
\* bad as the reported one lend it theirs, so that the class of a refused write does
\* not stand beside a failed one.
ClosureTellsTheWorst ==
  \A r \in Requests : dispatches[r] > 0 =>
    LET told  == collector[r].disk
        worst == {x \in Results(r) : \A y \in Results(r) : Severity(y.state) <= Severity(x.state)}
        named == FaultClasses(r)
                 \cup {x.class : x \in {y \in worst : y.state \in {"failed", "unavailable"}}}
    IN  /\ IF Results(r) = {} THEN told = "not_attempted" ELSE \A x \in worst : told = x.state
        /\ collector[r].class \in (IF named = {} THEN {"unknown"} ELSE named)

\* Unless the HTTP server gave up on its handlers, a shutdown refuses neither a
\* state write nor a closure: main calls a refusal a lifecycle defect.
OrderlyShutdownRefusesNothing ==
  ~timedOut => refusals = {} /\ \A op \in Ops : admission[op] # "lifecycle"

\* Every request whose handler was started has its closure accepted by the
\* dispatcher, unless the HTTP stage of the shutdown gave up on the handlers.
AcceptedRequestCloses ==
  \A r \in Requests :
    handler[r].pc = "run" ~> (dispatches[r] = 1 /\ r \notin refusals) \/ timedOut
=============================================================================
