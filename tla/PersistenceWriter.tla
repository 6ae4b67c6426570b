------------------------- MODULE PersistenceWriter -------------------------
(***************************************************************************)
(* The best-effort state writer (persistence_result.go): a fixed pool of   *)
(* workers over one bounded queue, with at most one write per ordering key *)
(* in execution, and the condition variable on which idle workers sleep.   *)
(*                                                                         *)
(* Actors: one goroutine per operation, which submits it; the workers; the *)
(* main goroutine, which calls CloseAndDrain.  A step is one critical      *)
(* section of PersistenceWriter.mu, one call of the database, one          *)
(* completion or one observation by the health tracker.                    *)
(*                                                                         *)
(* Left out: the refusals of an unconfigured writer and of an unsupported  *)
(* target, which submitStateOp and NewPersistenceWriterChecked exclude in  *)
(* the running program, and the counters.  The ordering key is the key:    *)
(* every caller passes the same string for both.                           *)
(***************************************************************************)
EXTENDS Sequences, HealthTracker

CONSTANTS
  Ops,            \* one per submitted state write
  Deletes,        \* those that delete their key; the others put a value
  Keys, KeyOf,    \* [Ops -> Keys]
  Workers,        \* PersistenceWriterWorkers goroutines
  QueueCapacity,  \* PersistenceWriterQueueCapacity
  NoOp

ASSUME WriterAssumption ==
  /\ Deletes \subseteq Ops
  /\ KeyOf \in [Ops -> Keys]
  /\ NoOp \notin Ops
  /\ Workers # {}
  /\ QueueCapacity \in Nat \ {0}

VARIABLES
  pending, active, closing,
  admission,   \* [Ops -> how TrySubmit decided]
  receipt,     \* [Ops -> the result its completion was given]
  worker,      \* [Workers -> pc, op, outcome]
  drained,     \* CloseAndDrain has returned
  disk,        \* [Keys -> the put whose value the state table holds, or NoOp]
  accepted,    \* history: how many writes were accepted
  ticket       \* history: [Ops -> its place in the order of acceptance, or 0]

queueVars  == <<pending, active, worker>>
submitVars == <<admission, accepted, ticket>>
vars == <<queueVars, submitVars, receipt, closing, drained, disk, health>>

WorkerPC == {"awake", "waiting", "execute", "complete", "observe", "release", "stopped"}

WorkerState == [pc: WorkerPC, op: Ops \cup {NoOp}, outcome: {"none", "saved", "failed"}]

Idle(pc) == [pc |-> pc, op |-> NoOp, outcome |-> "none"]

TypeOK ==
  /\ HealthTypeOK
  /\ pending \in Seq(Ops)
  /\ Len(pending) <= QueueCapacity
  /\ active \subseteq Keys
  /\ closing \in BOOLEAN
  /\ drained \in BOOLEAN
  /\ admission \in [Ops -> {"none", "accepted", "queue_full", "lifecycle"}]
  /\ receipt \in [Ops -> {"none", "unavailable", "saved", "failed"}]
  /\ worker \in [Workers -> WorkerState]
  /\ disk \in [Keys -> Ops \cup {NoOp}]
  /\ accepted \in Nat
  /\ ticket \in [Ops -> Nat]

Init ==
  /\ HealthInit
  /\ pending = <<>>
  /\ active = {}
  /\ closing = FALSE
  /\ drained = FALSE
  /\ admission = [op \in Ops |-> "none"]
  /\ receipt = [op \in Ops |-> "none"]
  /\ worker = [w \in Workers |-> Idle("awake")]
  /\ disk = [k \in Keys |-> NoOp]
  /\ accepted = 0
  /\ ticket = [op \in Ops |-> 0]

-----------------------------------------------------------------------------
(* Submission: TrySubmit                                                   *)

Sleeping == {w \in Workers : worker[w].pc = "waiting"}

\* Mutated form: only the write that ends an empty queue wakes somebody.
SignalIfEmpty ==
  \/ /\ pending = <<>>
     /\ \E w \in Sleeping : worker' = [worker EXCEPT ![w] = Idle("awake")]
  \/ (Sleeping = {} \/ pending # <<>>) /\ UNCHANGED worker

\* cond.Signal wakes one sleeping worker, if there is one.
Signal ==
  \/ \E w \in Sleeping : worker' = [worker EXCEPT ![w] = Idle("awake")]
  \/ Sleeping = {} /\ UNCHANGED worker

\* cond.Broadcast wakes them all.
Woken == [w \in Workers |-> IF w \in Sleeping THEN Idle("awake") ELSE worker[w]]

HasRoom == Len(pending) < QueueCapacity

Submit(op) ==
  /\ admission[op] = "none"
  /\ ~closing
  /\ HasRoom
  /\ pending' = Append(pending, op)
  /\ admission' = [admission EXCEPT ![op] = "accepted"]
  /\ accepted' = accepted + 1
  /\ ticket' = [ticket EXCEPT ![op] = accepted + 1]
  /\ Signal
  /\ UNCHANGED <<active, receipt, closing, drained, disk, health>>

RefuseSubmit(op) ==
  /\ admission[op] = "none"
  /\ closing \/ ~HasRoom
  /\ admission' = [admission EXCEPT ![op] = IF closing THEN "lifecycle" ELSE "queue_full"]
  /\ UNCHANGED <<queueVars, accepted, ticket, receipt, closing, drained, disk, health>>

\* completeImmediately, after the lock is released.
CompleteRefused(op) ==
  /\ admission[op] \in {"queue_full", "lifecycle"}
  /\ receipt[op] = "none"
  /\ receipt' = [receipt EXCEPT ![op] = "unavailable"]
  /\ UNCHANGED <<queueVars, submitVars, closing, drained, disk, health>>

-----------------------------------------------------------------------------
(* Workers: run                                                            *)

\* Mutated form: the active keys are not looked at.
RunnableAnyKey(i, busy) == i \in DOMAIN pending

Runnable(i, busy) == i \in DOMAIN pending /\ KeyOf[pending[i]] \notin busy

\* Mutated form: the newest runnable write first.
IsNextNewest(i, busy) ==
  Runnable(i, busy) /\ \A j \in DOMAIN pending : j > i => ~Runnable(j, busy)

IsNext(i, busy) ==
  Runnable(i, busy) /\ \A j \in DOMAIN pending : j < i => ~Runnable(j, busy)

\* The pending sequence without its i-th write.
Without(i) ==
  [j \in 1..(Len(pending) - 1) |-> IF j < i THEN pending[j] ELSE pending[j + 1]]

MayLeave == closing /\ pending = <<>>

\* One turn of the loop under the lock: the first write whose key is free is
\* taken; without one the worker leaves if the writer is closed and empty, and
\* sleeps otherwise.
NextRunnable(w, busy, pool) ==
  \/ \E i \in DOMAIN pending :
       /\ IsNext(i, busy)
       /\ pending' = Without(i)
       /\ active' = busy \cup {KeyOf[pending[i]]}
       /\ worker' = [pool EXCEPT ![w] =
                       [pc |-> "execute", op |-> pending[i], outcome |-> "none"]]
  \/ /\ \A i \in DOMAIN pending : ~Runnable(i, busy)
     /\ active' = busy
     /\ worker' = [pool EXCEPT ![w] =
                     Idle(IF MayLeave THEN "stopped" ELSE "waiting")]
     /\ UNCHANGED pending

Wake(w) ==
  /\ worker[w].pc = "awake"
  /\ NextRunnable(w, active, worker)
  /\ UNCHANGED <<submitVars, receipt, closing, drained, disk, health>>

\* A statement that fails leaves the state table as it was.
Execute(w) ==
  LET op == worker[w].op IN
  /\ worker[w].pc = "execute"
  /\ \E outcome \in {"saved", "failed"} :
       /\ worker' = [worker EXCEPT ![w] = [pc |-> "complete", op |-> op, outcome |-> outcome]]
       /\ disk' = IF outcome = "failed" THEN disk
                  ELSE [disk EXCEPT ![KeyOf[op]] = IF op \in Deletes THEN NoOp ELSE op]
  /\ UNCHANGED <<pending, active, submitVars, receipt, closing, drained, health>>

Complete(w) ==
  /\ worker[w].pc = "complete"
  /\ receipt' = [receipt EXCEPT ![worker[w].op] = worker[w].outcome]
  /\ worker' = [worker EXCEPT ![w].pc = "observe"]
  /\ UNCHANGED <<pending, active, submitVars, closing, drained, disk, health>>

ObserveStateResult(w) ==
  /\ worker[w].pc = "observe"
  /\ IF worker[w].outcome = "failed" THEN ObserveFailure("sqlite_state", 0)
     ELSE ObserveSuccess("sqlite_state")
  /\ worker' = [worker EXCEPT ![w].pc = "release"]
  /\ UNCHANGED <<pending, active, submitVars, receipt, closing, drained, disk>>

\* Mutated form: nobody is told that the key is free.
ReleaseQuietly(w) ==
  /\ worker[w].pc = "release"
  /\ NextRunnable(w, active \ {KeyOf[worker[w].op]}, worker)
  /\ UNCHANGED <<submitVars, receipt, closing, drained, disk, health>>

\* The key is freed, everybody is woken and the next turn of the loop is taken
\* without giving up the lock.
Release(w) ==
  /\ worker[w].pc = "release"
  /\ NextRunnable(w, active \ {KeyOf[worker[w].op]}, Woken)
  /\ UNCHANGED <<submitVars, receipt, closing, drained, disk, health>>

WorkerStep(w) ==
  Wake(w) \/ Execute(w) \/ Complete(w) \/ ObserveStateResult(w) \/ Release(w)

-----------------------------------------------------------------------------
(* Shutdown                                                                *)

BeginClose ==
  /\ ~closing
  /\ closing' = TRUE
  /\ worker' = Woken
  /\ UNCHANGED <<pending, active, submitVars, receipt, drained, disk, health>>

\* Mutated form: the queue is waited for, not the workers.
EndCloseWhenEmpty ==
  /\ closing /\ ~drained
  /\ pending = <<>>
  /\ drained' = TRUE
  /\ UNCHANGED <<queueVars, submitVars, receipt, closing, disk, health>>

EndClose ==
  /\ closing /\ ~drained
  /\ \A w \in Workers : worker[w].pc = "stopped"
  /\ drained' = TRUE
  /\ UNCHANGED <<queueVars, submitVars, receipt, closing, disk, health>>

Next ==
  \/ \E op \in Ops : Submit(op) \/ RefuseSubmit(op) \/ CompleteRefused(op)
  \/ \E w \in Workers : WorkerStep(w)
  \/ BeginClose
  \/ EndClose

\* Workers are scheduled and database calls return (SQLite has a busy timeout).
\* Nothing obliges a write to be submitted or the process to be closed.
Fairness ==
  /\ \A op \in Ops : WF_vars(CompleteRefused(op))
  /\ \A w \in Workers : WF_vars(WorkerStep(w))
  /\ WF_vars(EndClose)

Spec == Init /\ [][Next]_vars /\ Fairness
-----------------------------------------------------------------------------
(* Properties                                                              *)

Holding(w) == worker[w].pc \in {"execute", "complete", "observe", "release"}

\* The database has been called for the write.
Tried(op) ==
  \/ receipt[op] \in {"saved", "failed"}
  \/ \E w \in Workers : worker[w].pc = "complete" /\ worker[w].op = op

\* The database call succeeded.
Saved(op) ==
  \/ receipt[op] = "saved"
  \/ \E w \in Workers :
       worker[w].pc = "complete" /\ worker[w].outcome = "saved" /\ worker[w].op = op

\* Two workers never hold writes of the same key, so that the order in which
\* the writes of a key reach the database is decided by the queue alone.
KeyExclusive ==
  \A v, w \in Workers :
    v # w /\ Holding(v) /\ Holding(w) => KeyOf[worker[v].op] # KeyOf[worker[w].op]

\* Strict order per key: once a write was tried, no write of its key that was
\* accepted earlier is still to be tried.  A reordering of two workers would
\* let an old snapshot overwrite a new one for good.
TriedInOrder ==
  \A p, q \in Ops :
    /\ KeyOf[p] = KeyOf[q]
    /\ admission[p] = "accepted" /\ ticket[p] < ticket[q]
    /\ Tried(q)
    => Tried(p)

\* What the table holds for a key is the newest of its saved writes.
DiskIsNewestSaved ==
  \A k \in Keys : \A p \in Ops :
    (/\ KeyOf[p] = k /\ Saved(p)
     /\ \A q \in Ops : KeyOf[q] = k /\ Saved(q) => ticket[q] <= ticket[p])
    => disk[k] = IF p \in Deletes THEN NoOp ELSE p

\* A worker does not sleep beside work it could do: if a worker sleeps, at least
\* as many woken workers are on their way as there are free keys with writes
\* pending.  A Signal that reaches the wrong worker or a missing Broadcast
\* would leave a write waiting until some later submission.
FreeKeys == {KeyOf[pending[i]] : i \in DOMAIN pending} \ active

NoLostWakeup ==
  Sleeping # {} =>
    \E f \in [FreeKeys -> {w \in Workers : worker[w].pc = "awake"}] :
      \A j, k \in FreeKeys : j # k => f[j] # f[k]

\* CloseAndDrain returns only when every accepted write has its receipt and was
\* observed, so that the database may be closed.
DrainedIsComplete ==
  drained => /\ pending = <<>> /\ active = {}
             /\ \A op \in Ops : admission[op] = "accepted" =>
                                  receipt[op] \in {"saved", "failed"}

\* CloseAndDrain returns.
CloseReturns == closing ~> drained

-----------------------------------------------------------------------------
(* Inductive parts of the proofs                                           *)

\* Places in the order of acceptance are unique, and only accepted writes have
\* one or are answered by the database.
TicketInv ==
  /\ \A op \in Ops :
       /\ ticket[op] <= accepted
       /\ ticket[op] # 0 <=> admission[op] = "accepted"
       /\ receipt[op] \in {"saved", "failed"} => admission[op] = "accepted"
       /\ admission[op] = "none" => receipt[op] = "none"
  /\ \A p, q \in Ops : ticket[p] = ticket[q] /\ ticket[p] # 0 => p = q

\* The queue holds accepted, unanswered writes in the order of acceptance.
QueueInv ==
  /\ \A i, j \in DOMAIN pending : i < j => ticket[pending[i]] < ticket[pending[j]]
  /\ \A i \in DOMAIN pending :
       admission[pending[i]] = "accepted" /\ receipt[pending[i]] = "none"

\* A worker holds an accepted write whose key it has marked, and which is older
\* than every pending write of that key.
Held(w) ==
  LET op == worker[w].op IN
  /\ op \in Ops /\ admission[op] = "accepted" /\ KeyOf[op] \in active
  /\ worker[w].pc \in {"execute", "complete"} => receipt[op] = "none"
  /\ worker[w].pc \in {"complete", "observe"} => worker[w].outcome \in {"saved", "failed"}
  /\ worker[w].pc \in {"observe", "release"} => receipt[op] \in {"saved", "failed"}
  /\ \A i \in DOMAIN pending :
       KeyOf[pending[i]] = KeyOf[op] => ticket[op] < ticket[pending[i]]

HoldInv == \A w \in Workers : Holding(w) => Held(w)

\* Every marked key is marked by a worker that will free it.
ActiveInv ==
  \A k \in active : \E w \in Workers : Holding(w) /\ KeyOf[worker[w].op] = k

InPending(op) == \E i \in DOMAIN pending : pending[i] = op
InHand(op) ==
  \E w \in Workers : worker[w].pc \in {"execute", "complete"} /\ worker[w].op = op

\* An accepted write is waiting, being executed or answered.
PlaceInv ==
  \A op \in Ops : admission[op] = "accepted" =>
    InPending(op) \/ InHand(op) \/ receipt[op] \in {"saved", "failed"}

\* A worker leaves a closed and empty writer only, and the drain waits for all.
StopInv ==
  /\ \A w \in Workers : worker[w].pc = "stopped" => closing /\ pending = <<>>
  /\ drained => \A w \in Workers : worker[w].pc = "stopped"

-----------------------------------------------------------------------------
(* The promise                                                             *)

InExecution(k) ==
  {op \in Ops : KeyOf[op] = k /\ \E w \in Workers :
                  worker[w].pc = "execute" /\ worker[w].op = op}

\* The writes of the key k in a sequence of writes, in its order.
OfKey(writes, k) ==
  LET upto[n \in 0..Len(writes)] ==
        IF n = 0 THEN <<>>
        ELSE IF KeyOf[writes[n]] = k THEN Append(upto[n - 1], writes[n])
        ELSE upto[n - 1]
  IN  upto[Len(writes)]

Queue(k) ==
  IF InExecution(k) = {} THEN OfKey(pending, k)
  ELSE <<CHOOSE op \in InExecution(k) : TRUE>> \o OfKey(pending, k)

Answer(op) ==
  IF receipt[op] # "none" THEN receipt[op]
  ELSE IF admission[op] \in {"queue_full", "lifecycle"} THEN "unavailable"
  ELSE IF ~Tried(op) THEN "none"
  ELSE IF Saved(op) THEN "saved" ELSE "failed"

Store == INSTANCE OrderedStore WITH
           queue  <- [k \in Keys |-> Queue(k)],
           answer <- [op \in Ops |-> Answer(op)]

\* The pool implements one queue per key: workers, wakeups and completions only
\* ever accept a write, refuse it or try the oldest write of a key, and every
\* accepted write is tried.
ImplementsOrderedStore == Store!Spec
=============================================================================
