------------------------- MODULE OutcomeDispatcher -------------------------
(***************************************************************************)
(* The outcome dispatcher (outcome_dispatcher.go), the session outcome     *)
(* writer it feeds (session_log.go), and their use of the gap accumulator  *)
(* and of the health tracker.                                              *)
(*                                                                         *)
(* Actors: one goroutine per request, which calls TryDispatch once; the    *)
(* session worker; the terminal worker; the main goroutine, which calls    *)
(* CloseAndDrain.  A step is one critical section, one channel operation   *)
(* or one file write: the accumulation of a gap and its announcement to    *)
(* the health tracker are separate steps of a goroutine that holds no      *)
(* lock in between.                                                        *)
(***************************************************************************)
EXTENDS Sequences, OutcomeGap, HealthTracker

CONSTANTS
  Eligible,          \* the requests whose outcome is also shown on the terminal
  SessionCapacity,   \* OutcomeDispatcherSessionQueueCapacity
  TerminalCapacity   \* OutcomeDispatcherTerminalQueueCapacity

ASSUME DispatcherAssumption ==
  /\ Eligible \subseteq Requests
  /\ SessionCapacity \in Nat \ {0}
  /\ TerminalCapacity \in Nat \ {0}

QueueFull == "session_queue_full"
LogSink   == "session_log_sink"

VARIABLES
  closing,
  sessionQueue, terminalQueue,
  admission,      \* [Requests -> the result TryDispatch returned]
  pc,             \* [Requests -> where the request's goroutine is]
  generation,     \* [Requests -> the generation Accumulate returned to it]
  worker,         \* the session worker: pc, job, generation, claim, scopes
  terminalShown,  \* [Requests -> what the terminal worker printed]
  drained,        \* CloseAndDrain has returned
  closures,       \* requests whose closure line is in a session file
  gapRecords      \* [Sources -> requests accounted for in process.log]

dispatchVars == <<closing, sessionQueue, terminalQueue, admission, pc, generation,
                  terminalShown, drained>>
fileVars     == <<closures, gapRecords>>
vars         == <<dispatchVars, worker, fileVars, gapVars, health>>

Admission == [session: {"none", "accepted", "rejected"},
              terminal: {"none", "accepted", "unavailable"},
              lifecycleError: BOOLEAN]
NotDispatched == [session |-> "none", terminal |-> "none", lifecycleError |-> FALSE]

TerminalJob == [request: Requests, session: {"accepted", "rejected"}]

WorkerPC == {"wait", "write", "accumulate", "observe", "claim", "write_gap",
             "accumulate_gap", "observe_gap", "merge", "commit", "observe_commit",
             "stopped"}

\* Committed generations a worker still has to announce; 0 is none.
NoCommit == [s \in Sources |-> 0]

LaneTypeOK ==
  /\ closing \in BOOLEAN
  /\ drained \in BOOLEAN
  /\ sessionQueue \in Seq(Requests)
  /\ Len(sessionQueue) <= SessionCapacity
  /\ terminalQueue \in Seq(TerminalJob)
  /\ Len(terminalQueue) <= TerminalCapacity

RequestTypeOK ==
  /\ admission \in [Requests -> Admission]
  /\ pc \in [Requests -> {"ready", "accumulate", "observe", "done"}]
  /\ generation \in [Requests -> Nat]
  /\ terminalShown \in [Requests -> {"none", "complete", "detail_missing", "failed"}]

WorkerTypeOK ==
  worker \in [pc: WorkerPC, job: SUBSET Requests, generation: Nat,
              claim: Nat, committed: [Sources -> Nat]]

FileTypeOK ==
  /\ closures \subseteq Requests
  /\ gapRecords \in [Sources -> SUBSET Requests]

TypeOK ==
  /\ GapTypeOK
  /\ HealthTypeOK
  /\ LaneTypeOK
  /\ RequestTypeOK
  /\ WorkerTypeOK
  /\ FileTypeOK

Init ==
  /\ GapInit
  /\ HealthInit
  /\ closing = FALSE
  /\ drained = FALSE
  /\ sessionQueue = <<>>
  /\ terminalQueue = <<>>
  /\ admission = [r \in Requests |-> NotDispatched]
  /\ pc = [r \in Requests |-> "ready"]
  /\ generation = [r \in Requests |-> 0]
  /\ worker = [pc |-> "wait", job |-> {}, generation |-> 0, claim |-> 0,
               committed |-> NoCommit]
  /\ terminalShown = [r \in Requests |-> "none"]
  /\ closures = {}
  /\ gapRecords = [s \in Sources |-> {}]

-----------------------------------------------------------------------------
(* Request goroutines                                                      *)

SessionFits  == Len(sessionQueue) < SessionCapacity
TerminalFits == Len(terminalQueue) < TerminalCapacity
SessionResult == IF SessionFits THEN "accepted" ELSE "rejected"

TerminalJobOf(r) == [request |-> r, session |-> SessionResult]

\* The locked part of TryDispatch, admission to both lanes at once.
TryDispatch(r) ==
  /\ pc[r] = "ready"
  /\ ~closing
  /\ sessionQueue' = IF SessionFits THEN Append(sessionQueue, r) ELSE sessionQueue
  /\ terminalQueue' = IF r \in Eligible /\ TerminalFits
                      THEN Append(terminalQueue, TerminalJobOf(r))
                      ELSE terminalQueue
  /\ admission' = [admission EXCEPT ![r] =
       [session |-> SessionResult,
        terminal |-> IF r \notin Eligible THEN "none"
                     ELSE IF TerminalFits THEN "accepted" ELSE "unavailable",
        lifecycleError |-> FALSE]]
  /\ pc' = [pc EXCEPT ![r] = IF SessionFits THEN "done" ELSE "accumulate"]
  /\ UNCHANGED <<closing, drained, generation, terminalShown, worker, fileVars,
                 gapVars, health>>

RefuseDispatch(r) ==
  /\ pc[r] = "ready"
  /\ closing
  /\ admission' = [admission EXCEPT ![r].lifecycleError = TRUE]
  /\ pc' = [pc EXCEPT ![r] = "done"]
  /\ UNCHANGED <<closing, drained, sessionQueue, terminalQueue, generation,
                 terminalShown, worker, fileVars, gapVars, health>>

AccumulateQueueFull(r) ==
  /\ pc[r] = "accumulate"
  /\ Accumulate(QueueFull, r)
  /\ generation' = [generation EXCEPT ![r] = slots'[QueueFull].generation]
  /\ pc' = [pc EXCEPT ![r] = "observe"]
  /\ UNCHANGED <<closing, drained, sessionQueue, terminalQueue, admission,
                 terminalShown, worker, fileVars, health>>

ObserveQueueFull(r) ==
  /\ pc[r] = "observe"
  /\ ObserveFailure(QueueFull, generation[r])
  /\ pc' = [pc EXCEPT ![r] = "done"]
  /\ UNCHANGED <<closing, drained, sessionQueue, terminalQueue, admission,
                 generation, terminalShown, worker, fileVars, gapVars>>

-----------------------------------------------------------------------------
(* Session worker: runSession, WriteRequestOutcome and replayGaps          *)

TakeSession ==
  /\ worker.pc = "wait"
  /\ sessionQueue # <<>>
  /\ worker' = [worker EXCEPT !.pc = "write", !.job = {Head(sessionQueue)}]
  /\ sessionQueue' = Tail(sessionQueue)
  /\ UNCHANGED <<closing, drained, terminalQueue, admission, pc, generation,
                 terminalShown, fileVars, gapVars, health>>

\* WriteSessionLine reports an error also when the line reached the file but
\* closing it failed: an error leaves the line in the file or not.
WriteClosure ==
  /\ worker.pc = "write"
  /\ \/ /\ closures' = closures \cup worker.job
        /\ worker' = [worker EXCEPT !.pc = "claim"]
     \/ /\ closures' \in {closures, closures \cup worker.job}
        /\ worker' = [worker EXCEPT !.pc = "accumulate"]
  /\ UNCHANGED <<dispatchVars, gapRecords, gapVars, health>>

\* The same two calls follow a closure that failed and a summary that failed;
\* only what comes next differs.
AccumulateSink ==
  /\ worker.pc \in {"accumulate", "accumulate_gap"}
  /\ \E r \in worker.job : Accumulate(LogSink, r)
  /\ worker' = [worker EXCEPT
       !.pc = IF worker.pc = "accumulate" THEN "observe" ELSE "observe_gap",
       !.generation = slots'[LogSink].generation]
  /\ UNCHANGED <<dispatchVars, fileVars, health>>

Idle(w) == [w EXCEPT !.pc = "wait", !.job = {}, !.claim = 0]

ObserveSink ==
  /\ worker.pc \in {"observe", "observe_gap"}
  /\ ObserveFailure(LogSink, worker.generation)
  /\ worker' = IF worker.pc = "observe" THEN Idle(worker)
               ELSE [worker EXCEPT !.pc = "merge"]
  /\ UNCHANGED <<dispatchVars, fileVars, gapVars>>

ClaimGaps ==
  /\ worker.pc = "claim"
  /\ Claim
  /\ worker' = IF inFlight'
               THEN [worker EXCEPT !.pc = "write_gap", !.claim = claimed'.id]
               ELSE Idle(worker)
  /\ UNCHANGED <<dispatchVars, fileVars, health>>

WithRecord == [s \in Sources |-> gapRecords[s] \cup claimed.slots[s].lost]

WriteGapRecord ==
  /\ worker.pc = "write_gap"
  /\ \/ /\ gapRecords' = WithRecord
        /\ worker' = [worker EXCEPT !.pc = "commit"]
     \/ /\ gapRecords' \in {gapRecords, WithRecord}
        /\ worker' = [worker EXCEPT !.pc = "accumulate_gap"]
  /\ UNCHANGED <<dispatchVars, closures, gapVars, health>>

MergeGaps ==
  /\ worker.pc = "merge"
  /\ Merge(worker.claim)
  /\ worker' = Idle(worker)
  /\ UNCHANGED <<dispatchVars, fileVars, health>>

CommitGaps ==
  /\ worker.pc = "commit"
  /\ Commit(worker.claim)
  /\ worker' = [worker EXCEPT
       !.pc = "observe_commit",
       !.committed = [s \in Sources |->
          IF s \in Recoverable THEN claimed.slots[s].generation ELSE 0]]
  /\ UNCHANGED <<dispatchVars, fileVars, health>>

\* RecoverableScopes lists the queue scope before the sink scope.
ObserveCommit(s) ==
  /\ worker.pc = "observe_commit"
  /\ worker.committed[s] # 0
  /\ s = LogSink => worker.committed[QueueFull] = 0
  /\ ObserveGapCommit(s, worker.committed[s])
  /\ worker' = [worker EXCEPT !.committed[s] = 0]
  /\ UNCHANGED <<dispatchVars, fileVars, gapVars>>

EndReplay ==
  /\ worker.pc = "observe_commit"
  /\ worker.committed = NoCommit
  /\ worker' = Idle(worker)
  /\ UNCHANGED <<dispatchVars, fileVars, gapVars, health>>

\* Mutated forms: a worker that leaves with records in the lane, and one that
\* stays until the gaps are replayed, which only a later record could bring about.
StopAtOnce ==
  /\ worker.pc = "wait"
  /\ closing
  /\ worker' = [worker EXCEPT !.pc = "stopped"]
  /\ UNCHANGED <<dispatchVars, fileVars, gapVars, health>>

StopWhenReplayed ==
  /\ worker.pc = "wait"
  /\ closing
  /\ sessionQueue = <<>>
  /\ \A s \in Sources : ~HasCurrent(s)
  /\ worker' = [worker EXCEPT !.pc = "stopped"]
  /\ UNCHANGED <<dispatchVars, fileVars, gapVars, health>>

StopSession ==
  /\ worker.pc = "wait"
  /\ closing
  /\ sessionQueue = <<>>
  /\ worker' = [worker EXCEPT !.pc = "stopped"]
  /\ UNCHANGED <<dispatchVars, fileVars, gapVars, health>>

SessionWorker ==
  \/ TakeSession \/ WriteClosure \/ AccumulateSink \/ ObserveSink
  \/ ClaimGaps \/ WriteGapRecord \/ MergeGaps \/ CommitGaps
  \/ \E s \in Sources : ObserveCommit(s)
  \/ EndReplay \/ StopSession

-----------------------------------------------------------------------------
(* Terminal worker and shutdown                                            *)

\* A job whose projector fails or panics is not retried.
EmitTerminal ==
  /\ terminalQueue # <<>>
  /\ terminalQueue' = Tail(terminalQueue)
  /\ LET job == Head(terminalQueue) IN
     \E shown \in {"failed", IF job.session = "rejected"
                             THEN "detail_missing" ELSE "complete"} :
       terminalShown' = [terminalShown EXCEPT ![job.request] = shown]
  /\ UNCHANGED <<closing, drained, sessionQueue, admission, pc, generation, worker,
                 fileVars, gapVars, health>>

BeginClose ==
  /\ ~closing
  /\ closing' = TRUE
  /\ UNCHANGED <<drained, sessionQueue, terminalQueue, admission, pc, generation,
                 terminalShown, worker, fileVars, gapVars, health>>

\* workers.Wait returns once both workers have left their loops.
EndClose ==
  /\ closing /\ ~drained
  /\ worker.pc = "stopped"
  /\ terminalQueue = <<>>
  /\ drained' = TRUE
  /\ UNCHANGED <<closing, sessionQueue, terminalQueue, admission, pc, generation,
                 terminalShown, worker, fileVars, gapVars, health>>

Request(r) ==
  TryDispatch(r) \/ RefuseDispatch(r) \/ AccumulateQueueFull(r) \/ ObserveQueueFull(r)

Next ==
  \/ \E r \in Requests : Request(r)
  \/ SessionWorker
  \/ EmitTerminal
  \/ BeginClose
  \/ EndClose

\* Goroutines that are past TryDispatch's lock run on; both workers are
\* scheduled and file writes return.  Nothing obliges a request to arrive or
\* the process to be closed.
Fairness ==
  /\ \A r \in Requests : WF_vars(AccumulateQueueFull(r)) /\ WF_vars(ObserveQueueFull(r))
  /\ WF_vars(SessionWorker)
  /\ WF_vars(EmitTerminal)
  /\ WF_vars(EndClose)

Spec == Init /\ [][Next]_vars /\ Fairness
-----------------------------------------------------------------------------
(* Properties                                                              *)

\* The requests whose record is lost to the source s and in no file yet.
Pending(s) == slots[s].current.lost \cup claimed.slots[s].lost

\* An actor has counted loss number g of s and has yet to tell the tracker.
Announcing(s, g) ==
  \/ /\ s = QueueFull
     /\ \E r \in Requests : pc[r] = "observe" /\ generation[r] = g
  \/ /\ s = LogSink
     /\ worker.pc \in {"observe", "observe_gap"}
     /\ worker.generation = g

\* Where the record of an admitted request can be: waiting for or in the hands
\* of the session worker, in its session file, on its way into the gap
\* accounting, in it, or in a gap record of process.log.
InQueue(r)   == \E i \in 1..Len(sessionQueue) : sessionQueue[i] = r
InHand(r)    == r \in worker.job /\ worker.pc \in {"write", "accumulate"}
Counting(r)  == pc[r] = "accumulate"
Accounted(r) == \E s \in Sources : r \in Pending(s) \cup gapRecords[s]

\* No admitted outcome vanishes: whatever the interleaving of admissions, file
\* errors, claims and merges, a record that does not reach its session file is
\* in the gap accounting or in a gap record.
NoSilentLoss ==
  \A r \in Requests :
    admission[r].session # "none" =>
      InQueue(r) \/ InHand(r) \/ r \in closures \/ Counting(r) \/ Accounted(r)

\* A gap scope that claims to be healthy while losses of it are in no file is
\* about to be told: no stale claim, late commit or older announcement lets the
\* tracker call a scope recovered behind losses nobody announces any more.
HealthyOrAnnounced ==
  \A s \in Sources :
    Pending(s) # {} /\ ~health[s].degraded => Announcing(s, slots[s].generation)

\* The inductive form of HealthyOrAnnounced.  A generation is announced at most
\* once, so everything hangs on the newest one: until the tracker has heard it,
\* the actor that drew it is on its way, and once it has, the scope is degraded
\* as long as the loss is pending.
ScopeInv(s) ==
  LET newest == slots[s].generation
      heard  == health[s].latestGeneration
  IN  /\ HasCurrent(s) => slots[s].current.generation = newest
      /\ claimed.slots[s].generation <= newest
      /\ ~inFlight => claimed.slots[s].lost = {}
      /\ heard <= newest
      /\ heard < newest => Announcing(s, newest)
      /\ ~health[s].degraded /\ Pending(s) # {} => heard < newest

GenerationInv == \A s \in Sources : ScopeInv(s)

\* Only generations already drawn are announced, and a commit the worker has
\* still to announce is older than any loss counted since.
AnnouncerInv ==
  /\ \A r \in Requests :
       pc[r] = "observe" => generation[r] \in 1..slots[QueueFull].generation
  /\ worker.pc \in {"observe", "observe_gap"} =>
       worker.generation \in 1..slots[LogSink].generation
  /\ inFlight <=> worker.pc \in {"write_gap", "accumulate_gap", "observe_gap",
                                 "merge", "commit"}
  /\ inFlight => worker.claim = claimed.id /\ claimed.id # 0
  /\ worker.pc = "observe_commit" =>
       \A s \in Sources :
         /\ worker.committed[s] <= slots[s].generation
         /\ worker.committed[s] # 0 /\ HasCurrent(s) =>
              worker.committed[s] < slots[s].generation

\* What NoSilentLoss needs of the session worker: it handles one record at a
\* time, and it commits a claim only after the claim's record is in the file.
WorkerInv ==
  /\ \A q, r \in worker.job : q = r
  /\ worker.pc = "commit" =>
       \A s \in Sources : claimed.slots[s].lost \subseteq gapRecords[s]

\* Once CloseAndDrain returned nothing accepted waits in a lane, and the
\* session worker holds no claim it neither committed nor merged back.
DrainedIsEmpty ==
  drained => /\ sessionQueue = <<>> /\ terminalQueue = <<>>
             /\ ~inFlight
             /\ \A r \in Requests : admission[r].session = "accepted" =>
                                      r \in closures \/ Accounted(r)

\* Once every loss of a scope is in a gap record and nobody is between two steps,
\* the scope is healthy again, as the tests of the replay expect of a committed
\* summary.  The code breaks it: a loss can be claimed, written and committed
\* before the goroutine that counted it announces it to the tracker.
ReplayedScopeRecovers ==
  \A s \in Sources :
    (/\ \A r \in Requests : pc[r] \in {"ready", "done"}
     /\ worker.pc = "wait"
     /\ Pending(s) = {})
    => ~health[s].degraded

\* Closing ends: CloseAndDrain returns after finitely many steps.
CloseReturns == closing ~> drained

\* What has become of the record of a request, read off the lane, the files and
\* the gap accounting.
Fate(r) ==
  IF admission[r].lifecycleError THEN "refused"
  ELSE IF admission[r].session = "none" THEN "new"
  ELSE IF r \in closures THEN "delivered"
  ELSE IF \E s \in Sources : r \in gapRecords[s] THEN "recorded"
  ELSE IF admission[r].session = "rejected" \/ (\E s \in Sources : r \in Pending(s)) THEN "lost"
  ELSE "accepted"

Delivery == INSTANCE OutcomeDelivery WITH fate <- [r \in Requests |-> Fate(r)]

\* The lane keeps the promise of OutcomeDelivery: admissions, queues, workers,
\* claims, commits and merges only ever move a record along its fate, and every
\* accepted record is settled.
ImplementsDelivery == Delivery!Spec
=============================================================================
