# Verification of SawTooth-Collapsing

SawTooth-Collapsing is a proxy between a chat client and a model's API.  The
client replays its whole conversation in every request; when the conversation
grows past a threshold the proxy *collapses* the older messages into an archive
block and sends a short text with a recovery marker in their place.  Around that
idea sit concurrent parts: state that is persisted in the background, requests of
one session that overlap, a history that may be edited under the proxy's feet,
and a record of every request's outcome that must not be lost in silence.

This directory holds TLA+ models of those parts, the TLC configurations that
check them on small instances, and TLAPS proofs of their main properties for
every instance.  All paths below are relative to `src/`.

## 1. Inventory of the system

Unless another directory is given, files are in `internal/proxy/`.

| Part | State it keeps | Operations | Hard behaviour | What makes it correct |
|---|---|---|---|---|
| **OutcomeDispatcher** `outcome_dispatcher.go` | closing flag, session lane and terminal lane (channels of 256) | `TryDispatch`, `runSession`, `runTerminal`, `CloseAndDrain` | requests race the workers and the close; one lane may be full without the other; the loss is counted after the lock | no record disappears without a trace; the terminal tells what the session lane decided; the drain leaves nothing and returns |
| **OutcomeGapAccumulator** `outcome_gap.go` | one slot per source (generation, pending summary), one claim in flight | `Accumulate`, `Claim`, `Commit`, `Merge` | losses arrive while a claim is being written | a summary is committed or merged back, never overwritten |
| **HealthTracker** `health_tracker.go` | four scopes: degraded, latest generation | `ObserveFailure`, `ObserveSuccess`, `ObserveGapCommit` | recovery of a scope races new losses | healthy only if nothing is pending |
| **SessionOutcomeWriter** `session_log.go` | session files, `process.log` | `WriteRequestOutcome`, `replayGaps` | any write may fail, also after the line landed | the order claim, write, commit |
| **PersistenceWriter** `persistence_result.go` | pending queue (256), active keys, condition variable, 4 workers | `TrySubmit`, `run`, `CloseAndDrain` | two workers and one key; sleeping workers; drain | order per key; every write answered once; no lost wake-up |
| **requestOutcomeCollector** `request_outcome.go` | snapshot, pending completions, sealed, finalized | `BeginAsyncResult`, `Complete`, `SealProducers`, `tryFinalize` | handler and workers may all be the last to complete | exactly one closure, after the last answer, telling the worst and a class that fits |
| **Process** `cmd/proxy/main.go` | stages of the shutdown | `runShutdown` | the HTTP server may give up on running handlers | an orderly shutdown refuses nothing |
| **HistoryEpochManager** `history_epoch.go` | per session: epoch, hashes of the last history | `Begin`, `IsCurrent`, load, best-effort persist, transition | edits, cuts, failing reads and writes, restarts | an epoch is one branch of the conversation |
| **SQLiteStore** `store.go` | `archive_blocks` (epoch, isolated flag), `frozen_state` rows | `SaveArchiveResult`, `CommitHistoryTransition`, `PersistState`, `LoadStateResult`, visible search, exact lookup | late commits of an abandoned branch; text that is already stored; a corrupt file | only text of the current branch is recalled |
| **FrozenStubs** `frozen.go` 22-900 | per state key: the collapsed prefix, its cut, hashes; aliases | `Store`, `Get`, `UpdateMessages`, `Invalidate`, `Evict`, load, legacy migration | lazy load against store; validation outside the lock | a prefix is only reused for the history it was made from |
| **SawtoothTrigger** `frozen.go` 900-1694 | per state key: pressure baseline and its generation, calibration samples | `BeginPressureRequest`, `UpdatePressureBaseline…`, `Evaluate`, load | usage of an older request after that of a newer one | a baseline never goes back |
| **HandleMessages** `proxy.go` | none of its own | gate, recall, decision, compress, collapse, fallback, forward | many stages, each of which may fail and leave the request to the next; state of earlier requests decides | nothing is lost; a text is replaced only once it is stored |
| **Collapse, compress** `collapse.go`, `compress.go` | none | cutoff, block, materialization | alternation of roles, tool pairs, boundaries | a well-formed message sequence |
| **DecayTracker** `decay.go`, **stubify** `stubify.go` | per-message stages | decay, stub, persist, load | marks whose clearing was lost come back with a restart or a late read | a mark stands for a message whose text is stored |
| **Recall** `reexpand.go`, `budget.go` | none | search, exact recovery, injection | budget | what is injected fits and is visible |
| **Forwarding** `forward.go`, `transport.go` | SSE usage state, phase, idle timer | `forwardRaw`, `handleSSE`, `handleJSON` | partial streams, idle timer against a read, a client that leaves | nothing is dropped or appended; success and usage are those of whole responses |
| **Shape of messages** `validate_pairs.go`, `compaction.go`, `cache.go` | none | pair repair, alternation, compaction of stubs, cache breakpoints | boundaries of runs, protected messages | pairs complete, roles alternate, at most four breakpoints |
| **Request text** `reminders.go`, `user_context.go`, `auxiliary.go`, `session.go`, `request_meta.go`, `tokenizer.go` | none | rewriting and classification of one request | none | text processing |
| **Output** `loghandler*.go`, `debug_*.go`, slog handlers of `session_log.go` | files | formatting | none | wording |

### How the parts interact

A request enters `HandleMessages` with a new collector.  `Begin` decides, under
the session's lock, which branch (epoch) the history belongs to; every derived
state is stored under a key with that epoch.  If the history must be collapsed,
the archive row is committed synchronously, and only then is the marker put in
place.  State that may be lost (frozen prefixes, baselines, decay stages) is
submitted to the `PersistenceWriter`; each submission registers with the
collector, which the handler seals when it returns.  The actor that finds the
collector sealed with nothing pending dispatches its snapshot.  The dispatcher
puts it into the two lanes; the session worker writes it to the session's file,
and after a success replays what was lost before.  Every failure is reported to
the `HealthTracker`.  `main` shuts down in the order HTTP server, writer,
dispatcher, store.

## 2. Modules

| Module | What it models |
|---|---|
| `HealthTracker` | the four scopes; included by the modules whose actors observe |
| `OutcomeGap` | slots, claim and the four operations of the accumulator |
| `OutcomeDispatcher` | composes the two above with admission, both workers, the session writer and the close |
| `OutcomeDelivery` | abstract: the fate of a request's record |
| `PersistenceWriter` | queue, workers, condition variable, state table, on `HealthTracker` |
| `OrderedStore` | abstract: per-key queues whose writes are tried in order and answered once |
| `RequestOutcome` | composes `PersistenceWriter` with collectors, handlers and the stages of the shutdown |
| `HistoryArchive` | epoch manager, archive table, and the requests of one session between the two |
| `FrozenStubs` | the frozen prefixes of one session, their lazy load, migration and persistence, and the requests that use them |
| `SawtoothTrigger` | the pressure baselines of one session: generations, load, reset, migration, rows, and the requests that use them |
| `ResponseStream` | one request between `forwardRaw` and the upstream: call, body, timers, reply, record, usage |
| `Conversation` | messages and what each stage of the pipeline does to them, as operators |
| `RequestPipeline` | `HandleMessages` on the requests of one session, on `Conversation` |
| `MC…` | instances for TLC: constants, symmetry |
| `…Proofs` | theorems of the module they are named after |

Definitions keep the names of the code where TLA+ allows.  Operators that are
called "mutated form" in a comment are not part of a model: each changes one
definition the way a plausible bug would and shows that a property notices.

### OutcomeDispatcher, OutcomeGap, HealthTracker

Actors are the requests' goroutines (`pc`), the session worker (`worker`), the
terminal worker (one action) and the goroutine that closes.  A step is one
critical section, one receive from a channel, one write of a line or one
observation, so everything the code interleaves is interleaved here.
`TryDispatch` is the locked part of the function, which admits to both lanes;
`AccumulateQueueFull` and `ObserveQueueFull` are the two critical sections that
follow a rejection.  `TakeSession … EndReplay` follow `runSession`,
`WriteRequestOutcome` and `replayGaps`.  A write that fails may have left its line
in the file (`WriteSessionLine` reports the error of closing the file too), so an
error means the line landed or not.  A panic in a projector is the error.

Of a gap summary the set of lost requests is kept instead of a count, first and
last times and sample correlations: sets make "which record is accounted for
where" expressible.  A record both written and counted is one the code counts
too (an error after the line landed).  Claim identifiers and generations are
natural numbers; the code saturates them at 2^64-1, which is not reached.

Left out: `Configured() = false` (the process does not start in that case) and
the counters.

### PersistenceWriter

`Submit`/`RefuseSubmit` are the locked part of `TrySubmit`, `CompleteRefused` the
completion after it.  The condition variable is modelled by the set of workers in
`"waiting"`: `Signal` wakes any one, `Broadcast` all, and a woken worker has to
take its turn of the loop again.  `Release` is the second critical section of the
loop: the key is freed, everybody is woken, and the next turn is taken without
giving up the lock, as in the code.  `accepted` and `ticket` are history
variables; nothing reads them but the properties.  The ordering key is the key
(all callers pass the same string).  A statement that fails leaves the table as it
was: SQLite's guarantee, taken as an assumption.

### RequestOutcome

Extends `PersistenceWriter` (its workers complete the receipts) with the
collectors.  `BeginAsyncResult`, `TrySubmit`, `CompleteImmediately` are the
submission seen from the handler; `CommitArchive` and `SetArchiveClass` are the two
calls of `commitArchiveIntent`; `SealProducers` is the deferred call.  The handler also
writes disk state and class itself (`SetSnapshot`): `LoadFails` is `recordStateLoadFailure`,
which sets a class and no state; `TransitionFails` and `SetTransitionState` are the two calls
after a transition that was rolled back; `BlockFallback` repeats the class of the archive;
`UpstreamFails` sets that of the upstream.  After a completion
or the seal an actor owes a `tryFinalize` and, if that call finalized, a dispatch:
`handler[r].duty`, `workerDuty[w]`.  `BeginShutdown`, `StopPersistence`,
`StopOutcome` are the stages of `main`; `timedOut` records that the HTTP stage ended
with handlers running, after which the later stages run all the same and the process exits.

Of the snapshot the disk state and the failure class are kept, which several goroutines
write, with all their writers.  The states of the upstream call are in `ResponseStream`.

### HistoryArchive

One session.  A history is a sequence of messages, or `Invalid` (it cannot be put
in canonical form); equality of messages stands for equality of their fingerprints.
`Begin…` are the outcomes of `Begin` (the row cannot be read; first history;
continuation; change of branch; the transition fails).  `CommitArchive` is one
transaction of `commitArchive` (water mark, canonical row) followed by the marker;
the text is any non-empty prefix of the request's history, so every cut the
pipeline may choose is covered.  `Restart` loses the process's state only,
`RestartEmpty` is the recovery of `NewSQLiteStore` from a corrupt file, which removes
the database.  A commit whose error is reported after it took effect is not
modelled: the request goes on without a marker, as after any failure, and the block
is text of its branch.

`forgotten` is a history variable: a process ended while the row did not hold its
last history.  `VisibleOnKnownBranch` and `DerivedOnBranch` need it, see the findings.

### FrozenStubs

One session.  Key 0 is the bare session key, key *e* that of epoch *e*.  A step is one
critical section of `FrozenStubs.mu`, one read of the state table, one submission, or one
write of the persistence writer.  The locals of a request are a record: where it is, the
load it is in (`load`), the key's lock it holds and what it will submit (`hold`), the copy it
verifies (`seen`).  `Begin` stands for the epoch manager; `LoadTarget … SetCurrentAlias`
follow `MigrateLegacyState` and its caller; `LookInMemory … DropMismatch` follow
`GetWithLoadResult`; `StartLoad … ShareResult` are `loadFrozenFromDB`, which `MigrateLegacyState`
and `GetWithLoadResult` call; `Store`, `DropUnsafe`, `DropInsufficient` are the calls of
`HandleMessages`.  `Evict` takes any set of entries that have an access time, because time is
not modelled; a mirror carries its origin's access time and is never accessed itself, hence
`MayAgeTogether`.

A snapshot is the history it was made from and its author; the hash of a history is the
history.  A row that fails the checks of its form is `Corrupt`.  The writer is a queue per
key whose head is written or lost, and an acceptance that may be refused: what
`PersistenceWriter` is shown to be (`OrderedStore`).  `known`, `decided`, `outcome`,
`authority` and `explicit` are history variables.

Left out: `UpdateMessages`, which only tests call; the mode `legacy_boundary`, which
production never stores; the check of the in-memory hash, which only memory corruption fails;
and the moment between the two resolutions of an alias in `InvalidateWithResult`, which only a bad
bare row that is dropped while the first alias of a session is set can meet.

### SawtoothTrigger

One session, keys as in `FrozenStubs`.  A step is one critical section of `SawtoothTrigger.mu`,
one read of the state table or one submission; `hold` is the key's lock, held from the update
of the memory to the submission.  `BeginPressureRequest` hands out the generation, `WriteBack`
is `UpdatePressureBaseline…ForRequest`, which only the answer of a newer generation passes;
`LoadTarget … SetCurrentAlias` are the migration, `LookInMemory … TakeBaseline`
`PressureBaselineWithLoadResult`, `ReadRow … ShareResult` `loadSawtoothFromDB`.  A baseline is
named by the request whose answer it is, which is all its order needs; its tokens, counts and
fingerprints are in `RequestPipeline`.

Three corners of the code show in the properties.  A reset while a load is in flight takes the
mark `loaded` away (`frozen.go:1531`), so that a load that fails lets the next request read the
row once more, which the reset had not reached yet: `NewestAnswerStays` excepts a reset of a key
that had a failed read (`unread`).  The bare key mirrors the current epoch, so the migration of
epoch 1 may copy the answer of a later one: `BranchKeepsItsOwn` excepts epoch 1.  A
failed read of the bare key is ignored by the migration: `EmptyIsKnown` is about the epoch's key.

### ResponseStream

A body is a sequence of items, an event of a stream or one document, and an item travels in two
halves so that it can be cut; the second half of an event holds the blank line.  The handler's
loop is `BeginRead` (arm the timer), `ConnectionReturns` (the read returns what the connection
has), `FinishRead` or `ReadTimedOut` (stop the timer and look whether it fired), after which the
scanner's items are handled.  A body that the proxy decompresses is opened by a read of its own,
also under the idle timer (`OpenBody`, `ReadHeader`).  `IdleTimerFires`, `HardLimitFires`, `ClientLeaves`, `UpstreamSends`
and `UpstreamEnds` happen at any moment that allows them.  `Fail` and `Classify` are the common path of `forwardRaw`
with its precedence of causes.  `usage` is what `applyPressureBaselineUsage` makes of the response;
that the branch may move between `IsCurrent` and the update is the matter of `SawtoothTrigger`.

Left out: retries and redirects of `net/http`, a response writer without `Flush`, headers, the
debug dump.  The limit on the wait for a header is one way in which the call fails.

### Conversation, RequestPipeline

A message is what the pipeline tells apart: role, the positions of the client's messages it
stands for (`at`), its form (raw, compressed, block, stub, summary, …), the tool uses and results
in it, its weight, and the archive row it refers to.  `Conversation` has one operator per stage:
the cut with its floor and limits, the archive block, the compression of tool results, stubs and
decay, compaction runs and their summaries, recall, pair repair, alternation and merging.  An
exchange is a talk, a tool use with a bulky result, or a task list, which gives its two messages.

`RequestPipeline` is the sequence of stages of a primary request: `HistoryEpochManager` sees the
history (`Begin`), the baseline and the frozen prefix are read (either read may fail), the pressure
is decided (`selectPressure`, `buildPressureDecision`, `Evaluate`, all sources; a prefix that is not
enough is dropped), a text may be recalled,
and the request leaves as it is, with light decay, with the frozen prefix, collapsed, compressed,
stubbed and compacted, or is rejected.  Each commit of an archive row may fail.  The answer updates
baseline and calibration.  Between requests the client goes on, sends again, spells the same history
anew or changes system and tools; the process may crash and entries may be evicted.

The marks of decay are kept as the code keeps them: a set in memory, a row that is written best
effort by the fallback and by the clearing after a collapse (`MarksWritten`), and a read that adds
the row to the memory once it succeeds (`MarksRead`).  So marks whose clearing was lost come back after a
restart, or later in a process that could not read them at first.  In a later epoch than the first the
row is never read (`FirstEpoch`: the runs take the first epoch, the proofs either).

Requests come one after another and stay on one branch: overlap is in `FrozenStubs` and
`SawtoothTrigger`, branches are in `HistoryArchive`.  Which text recall finds, and the age at which
a message decays, are any choice.  The baselines that earlier versions left (without fingerprints, or a
conservative floor) are among the initial states.  Left out: thinking blocks and pivot messages,
the persistent user context, cache breakpoints, sizes, the text of blocks, stubs and summaries, and
requests that touch no state (titles, subagents, requests that are too long or do not parse).

## 3. Runs

| Run | Instance | Properties | States |
|---|---|---|---|
| `OutcomeDispatcher` | 3 requests, 2 of them terminal-eligible, lanes of 1 | `NoSilentLoss`, `HealthyOrAnnounced`, `DrainedIsEmpty`, `CloseReturns`, `ImplementsDelivery` | 124,789 |
| `PersistenceWriter` | 4 writes of 2 keys, one a delete, 2 workers, queue of 2 | `TriedInOrder`, `DiskIsNewestSaved`, `NoLostWakeup`, `DrainedIsComplete`, `CloseReturns`, `ImplementsOrderedStore` | 282,905 |
| `RequestOutcome` | 1 request with 2 writes, archive commits and every other fault, 2 workers, queue of 1 | `DispatchedOnceAndLast`, `ClosureTellsTheWorst`, `OrderlyShutdownRefusesNothing`, `AcceptedRequestCloses` | 355,963 |
| `HistoryArchive` | 2 overlapping requests, histories of 1 or 2 messages and `Invalid`, 2 blocks, 3 epochs | `VisibleOnKnownBranch`, `DerivedOnBranch`, `MarkerNamesItsText`, `EpochsAreBranches` | 179,831 |
| `HistoryArchiveRestore` | the same without `Invalid` | `MarkersResolve` (violated) | |
| `FrozenStubs` | 2 overlapping requests, 2 histories that agree in the last message, 2 epochs, old rows in the table, a bad row of epoch 1 | `ReusedPrefixFits`, `AbsenceIsKnown`, `StoredStays`, `RowIsLastDecision` | 1,118,227 |
| `FrozenStubsLive` | 1 history, 1 epoch, bad rows, a crash; no symmetry | `RequestsEnd` | 194,688 |
| `FrozenStubsLoad` | as `FrozenStubs`, any row may be bad | `InvalidatedStaysOut` (violated) | |
| `SawtoothTrigger` | 2 overlapping requests, 2 epochs, a crash, old rows in the table | `NewestAnswerStays`, `EmptyIsKnown`, `BranchKeepsItsOwn`, `RowIsLastDecision`, `RequestsEnd` | 263,506 |
| `ResponseStream` | bodies of up to 3 items, both time limits on | `NothingLost`, `SuccessIsWhole`, `UsageIsOfWhole`, `ReplyStays`, `HandlerEnds` | 1,232,698 |
| `RequestPipeline` | a conversation that begins with a task list and has up to 3 exchanges, 2 faults, two variants of system and tools, the first epoch | `HistoryIsWhole`, `ReplacedIsStored`, `ResultsHaveUses`, `ActivePairIsWhole`, `FallbackAlternates`, `AnswerIsUsed` | 117,423 |
| `RequestPipelineLost` | a conversation that begins with two tool exchanges and has up to 4 | `LostPrefixIsRefolded` (violated) | |

The type invariants, and `KeyExclusive` of the writer (no two workers on one key), are not among
the runs' properties because they are proved.

What the properties say:

* `NoSilentLoss`: a dispatched record is in the lane, in the worker's hands, in its
  session file, about to be counted, or counted, from its admission for ever,
  whatever fails.
* `HealthyOrAnnounced`: a gap scope with pending losses is degraded, or the goroutine
  that counted the newest one is about to degrade it.  This is what the generations
  are for; dropping the comparison breaks it.
* `DrainedIsEmpty`, `CloseReturns` (dispatcher): the drain ends, and then the lanes and the worker's
  hands are empty and every accepted record is in its file or counted as a loss.
* `ImplementsDelivery`: seen from a request, its record is refused, delivered or lost, a
  lost one may be recorded as a gap, a delivered one stays delivered, and an accepted
  one does not stay undecided.
* `TriedInOrder`, `DiskIsNewestSaved`: writes of a key are tried in order of acceptance; the table
  holds the effect of the newest saved one.
* `NoLostWakeup`: if some pending write could run, a worker is awake or will broadcast.
* `DrainedIsComplete`, `CloseReturns` (writer): `CloseAndDrain` returns, and then every
  accepted write has its answer.
* `ImplementsOrderedStore`: the writer is an ordered store per key, where every
  accepted write is eventually tried and answered once.
* `DispatchedOnceAndLast`, `AcceptedRequestCloses`: one closure per request, after its
  last answer; and it comes and is accepted, unless the HTTP stage gave up on the handlers.
* `ClosureTellsTheWorst`: the closure's disk state is the worst of the results.  Its class is that of
  a result as bad or of another fault of the request (a failed read, a failed transition, the upstream), never
  that of a lesser result.
* `OrderlyShutdownRefusesNothing`: `main` reports any refusal as a lifecycle defect; there
  is none unless the HTTP deadline expired.
* `VisibleOnKnownBranch`: what recall may show is a prefix of the history the session is
  on, with late requests of other branches, failing transitions and restarts, unless a
  process ended with an unsaved history.
* `DerivedOnBranch`: what is stored under the current epoch's key was made from a prefix
  of the current history; this is what makes its reuse sound.
* `MarkerNamesItsText`: the identifier that a commit reports names a row with exactly the
  text it replaced, also if the row is an older one.
* `EpochsAreBranches`: an epoch that was left is never entered again, and within one the history is
  only extended.  The exception is the step of a restart that finds an older row: it falls back to an
  earlier history of the same epoch, or to none if the first epoch never reached its row.
* `ReusedPrefixFits`: a prefix that is reused was made from the beginning of the request's own
  history, although the key may be stored, invalidated or evicted between the copy and its
  verification.
* `AbsenceIsKnown`: a request that finds no state, and so collapses anew or falls back to the
  bare key, has the word of a successful read or of this process; neither the reader nor a
  waiter takes a failed read for an absent row.
* `StoredStays`: a load in flight does not replace what was stored since.
* `RowIsLastDecision` (both): once the writes of a key were tried, the last of them with success,
  its row is what the memory decided last.
* `RequestsEnd` (both): nobody waits for ever for another's load or lock.
* `NewestAnswerStays`: the baseline is that of the newest generation that was written back, in
  whatever order the answers of overlapping requests come, and although a load may be in flight.
* `EmptyIsKnown`: a request that is decided without a baseline has the word of a successful read
  or of this process.
* `BranchKeepsItsOwn`: the baseline of a branch is the answer to a request of that branch, in
  memory and in the row, although `IsCurrent` is asked before the update.
* `NothingLost`: what the connection handed over reaches the client in order and without a gap,
  also if the idle timer fires between a read and the stop of the timer.
* `ReplyStays`: a reply that has begun is never continued by the proxy's own error document.
* `SuccessIsWhole`: success is recorded only of a response that the upstream ended and the client was
  sent whole.
* `UsageIsOfWhole`: a baseline is calibrated only from a response that the upstream ended: a stream
  that the client was sent, with one start and one stop, or a whole document with usage, which is
  taken before the client is written to (`forward.go:1203`).
* `HandlerEnds`: the handler ends, whatever the upstream and the client do.
* `HistoryIsWhole`: each message the client sent goes out, once and in its order, or is in an
  archive row; a frozen prefix put back with a wrong cut, a cut that strands a tool result, or a
  summary that leaves one out breaks it.
* `ReplacedIsStored`: no stage replaces a text whose row was not committed, on this request or on
  the earlier one whose prefix is reused.
* `ResultsHaveUses`, `ActivePairIsWhole`, `FallbackAlternates`: the messages are well formed after
  any sequence of the stages: each tool result follows its use, the pair being answered stays whole
  at the end, and the fallback keeps the alternation of roles.
* `AnswerIsUsed`: while system and tools stay the same, the last answer's usage decides the
  pressure; neither a collapse nor a frozen prefix makes it fall back on the local estimate.

### Bounds and why they are enough

Capacities are parameters; the code's 256 is replaced by 1 or 2, which makes the full
queue a common case rather than a rare one.  Three requests on a lane of one place have
one in the worker's hands, one queued and one lost, and a loss of the sink may meet a claim in
flight; that a full lane loses a record while the claim of an earlier such loss is in flight takes
a fourth request, which the theorems of section 4 cover.  Three writes of one key and one of another
on two workers have a key that is active, blocked and free with somebody asleep.  Two requests suffice for a history to be abandoned while
one of its requests is still at work; histories of up to two messages differ at the first,
differ at the second, extend or cut short; three epochs let a branch be left and its text
come back.  In `FrozenStubs`, two requests of one key or of two, with the bare key as a third,
are enough for every pair of critical sections to interleave; the two histories agree in their
last message, so that a comparison of the boundary alone is noticed.  The same two requests in
`SawtoothTrigger` answer in either order, on one branch or on two, with a load of one in flight.
`MaxEpoch` (in the guards of `BeginDiverged` and of `Begin` of the two keyed modules) and
`MaxRestarts` (in those of `Crash`) are the bounds on counters; `BadRows` and `Earlier` say what the
table holds at the start.

In `ResponseStream`, `MaxItems` is in the guard of `UpstreamSends`: three items are a start, another
event and a stop, each of which may be missing, doubled, malformed or cut.  In `RequestPipeline`,
`MaxExchanges` is in the guard of `Ask` and `MaxFaults` in that of `May`, which every fault, every
request sent again and every change of spelling or of system and tools passes.  Its weights are small numbers chosen so that
three exchanges cross the threshold, the emergency line and the pause minimum and a collapse, a stub
and a compaction each happen: a threshold of 9, a margin of 2, bulky results of 3, one recent
message kept.  The provider counts as the local estimate does (`Factors`), so the calibration moves
from its default of 1.5 to 1.0 with the first answer and no further.  Two faults allow, for
instance, an eviction and a failing read of the row, or a refused commit and a restart.

The proofs need none of these bounds: there they are any numbers and sets.

Symmetry is used in the runs without liveness only (those of
`HistoryArchive`, `FrozenStubs`), on sets whose members no definition tells apart.

`CHECK_DEADLOCK FALSE` stands in the runs whose process may end: every request
dispatched, every write answered, the workers stopped, or the bounds on exchanges and faults used up.

### Fairness

Weak fairness is stated for goroutines that are past their last blocking wait: the two
critical sections after a rejection, the session worker, the terminal worker, each
persistence worker, each handler (in `FrozenStubs` and `SawtoothTrigger`, each request once it has
begun: `Handle`).  The Go scheduler runs every runnable goroutine, file
writes and SQLite statements return (SQLite has a busy timeout), and a handler returns because
the upstream call has a hard limit (`withProxyHardLimit`, which a configuration of 0
switches off).  In `RequestOutcome` this is assumed of a handler only until the HTTP stage of the
shutdown gives up on it: then `main` goes on through its stages and the process exits with the handler
in it, so `OutcomeFairness` and `AcceptedRequestCloses` promise nothing any more.  `ResponseStream` justifies that last clause: there the handler's steps, an armed
timer, and a connection that has data, an end or a closed descriptor are fair; the upstream and
the client owe nothing.  No fairness is assumed for the arrival of requests, for submissions, or for
the decision to shut down, and none says which of two workers gets a lock.

## 4. What is proved

With TLAPS, for every value of the constants that satisfies the named assumptions
(`DispatcherAssumption`, `WriterAssumption`, `OutcomeAssumption`, `HistoryAssumption`,
`FrozenAssumption` and the two on distinct values, `TriggerAssumption`, `BoundAssumption`,
`LimitAssumption`, `ConversationAssumption`, `PipelineAssumption`, `NothingAssumption`): capacities
and windows are positive, thresholds, margins and weights are natural numbers, `KeyOf` maps writes to
keys, `NoOp` is no write, histories are sequences of messages, the names of absent things are none of
the things.  Nothing relates one threshold to another: a margin above the threshold, a guard that
never lets go or a single try of the floor is covered.

Every invariant and every action property of the runs that pass is a theorem.  What is left to TLC
is named at the end of the section.

**OutcomeDispatcherProofs.**  `TypeCorrect`; `NeverSilentlyHealthy`
(`HealthyOrAnnounced`); `NoSilentLossCorrect`; `DrainedIsEmptyCorrect`.
`HealthyOrAnnounced` is not inductive: whether a commit may recover a scope depends on how
the generations of slot, claim, tracker and the goroutines between their two critical
sections relate.  `GenerationInv` states that relation per scope (the tracker never runs ahead
of the slot, a pending summary carries the slot's generation, a claim an older or equal one, and
a scope whose tracker lags behind its slot has an announcer), `AnnouncerInv` that an announcer
holds a generation its slot has reached.  For `NoSilentLoss`, `WorkerInv` adds what the worker
holds at each point of its program (the claim it owns is the one in flight).  For
`DrainedIsEmpty`, `LeaveInv` says that a worker that has left found its lane closed and empty.
`DeliverySafe` is the safety half of `ImplementsDelivery`: under the refinement mapping `Fate`, the
dispatcher's initial states are those of `OutcomeDelivery` and each of its steps is one of its
steps or none.  `TryDispatch` and `RefuseDispatch` admit, `WriteClosure` delivers, `AccumulateSink`
loses and `WriteGapRecord` records; of the other steps it must be shown that they leave every fate
alone while slots and claims change hands, for which the invariants of the generations and of the
worker are needed (`FateInv`).

**PersistenceWriterProofs.**  `TypeCorrect`, `KeyExclusiveCorrect`,
`DrainedIsCompleteCorrect`, `TriedInOrderCorrect`, `DiskIsNewestSavedCorrect`,
`NoLostWakeupCorrect`.  The inductive
invariant relates tickets to the order of the queue (`TicketInv`, `QueueInv`), active keys to
the workers that hold them (`HoldInv`, `ActiveInv`), and says where an accepted write is
(`PlaceInv`) and when a worker may have left (`StopInv`).  The order of execution then follows:
only `Execute` tries a write, and by `QueueInv` every older write of the key has been tried.  No
wake-up is lost because, as long as anybody sleeps, the free keys are matched with workers that are
awake (`Matched`, `Awake`): one signal for each submission is enough to keep the matching.
`OrderedStoreSafe` is the safety half of `ImplementsOrderedStore`, action by action: under the mapping
the queue of a key is the write about to be executed and then what is pending of that key (`OfKey`).
The locked part of a submission appends or refuses, `Execute` tries the head of the queue and decides
its answer, and taking a write into a worker's hands, completing it and releasing the key change
nothing: by `QueueInv` the write a worker takes is the oldest of its key, and by `HoldInv` no other of
that key is being executed.

**RequestOutcomeProofs.**  `OutcomeTypeCorrect`, `DispatchedOnceAndLastCorrect`,
`ClosureTellsTheWorstCorrect`, `OrderlyShutdownCorrect`.  The writer's invariant is preserved by the
composition, and with it stand who owes a `tryFinalize` or a dispatch (`DutyInv`), how the
counters of a collector relate to the receipts that are open and to what its snapshot tells, that
failed reads and transitions come before the first result of a write
(`RequestInv`), and what each stage of the shutdown may rely on (`ShutdownInv`).

**HistoryArchiveProofs.**  `TypeCorrect`, `VisibleOnKnownBranchCorrect`,
`DerivedOnBranchCorrect`, `MarkerNamesItsTextCorrect`, `EpochsAreBranchesCorrect`.  The
invariant says how far the row may lag behind the process (`EpochInv`: at most within the same
epoch, by a prefix), that a request of the current epoch holds a prefix of the current history
(`HandlerInv`), that a block that is not isolated is no newer than the row and is text of the
branch if nothing was forgotten (`BlockInv`), and the same of markers (`MarkerInv`).
`EpochsAreBranches` needs what a restart may find: `RowInv` says that the row of the process's epoch holds a
history that the process's own extends.

**FrozenStubsProofs.**  `TypeCorrect`; `FailedReadIsNoAbsence` (`AbsenceIsKnown`).
The latter needs `KnownInv`: whatever is in memory under an epoch's key was read or set by this
process (`MemoryIsKnown`), and every load that is past its read, and every waiter that does not
find the shared failure, knows its key (`LoadIsKnown`, `ResultIsKnown`).
`OnlyOwnPrefixReused` (`ReusedPrefixFits`): a request that says it
reuses a prefix still holds the copy it verified (`ReuseVerified`).  `StoredIsNotOverwritten`
(`StoredStays`): only keys of epochs are stored, a step that decides nothing fills at most entries
without a state, and one that decides about a key leaves the others (`StoredInv`).
`RowIsLastDecisionCorrect` (`RowIsLastDecision`): the lock of a key has one holder (`LockInv`), and
what it holds, the queue's end or the row is the last decision, in this order (`WritesInv`).

**SawtoothTriggerProofs.**  `TypeCorrect` and every invariant of the run: `NewestStays`
(`NewestAnswerStays`), `RowIsLastDecisionCorrect`, `BranchKeepsItsOwnCorrect`,
`EmptyIsKnownCorrect`.  The first is an induction on the generations: `Ordered` bounds what
was written back by what was handed out, and `NumbersInv` says that an entry holds the newest value
written back, and that a load which is to publish saw an older version of an entry that was written.
`WritesInv` is about the key's lock: one holder (`LockInv`), and what it holds, the queue's end or
the row is the last decision, in this order (`KeyWrites`).  `BranchInv` follows a value from the
request through memory, load, migration, queue and row.  `KnownInv` is that of the prefixes.

**ResponseStreamProofs.**  `StreamTypeCorrect`, `SuccessIsWholeCorrect`, `ReplyStaysCorrect`,
`NothingLostCorrect`, `UsageIsOfWholeCorrect`.
`StreamInv` says what is known at each point of the handler's program about the end of the body
(`EndInv`: a reader that saw the end has taken all that was sent, and the timer that fired left its
error) and about who began the reply (`BeginInv`: the proxy's own document is only written where
nothing was written before).  For `NothingLost`, `LossInv` relates three sequences: an item was sent
in its two halves (`SentInv`); the pieces processed are those handed over but the one that a read
still holds (`Processed`); of a stream, the events flushed are those of the pieces processed, with
at most one first half kept back (`EventInv`); a document is kept as it comes (`DocumentInv`).

For `UsageIsOfWhole`, `Observed` relates the usage state of the scanner to the events it has seen: a
usage is counted only if they have one start, later one stop, and no other of either (`OneLifecycle`).

**RequestPipelineProofs.**  `MessagesInvariant` and its consequences `HistoryIsWholeCorrect`,
`ReplacedIsStoredCorrect`, `ResultsHaveUsesCorrect`, `ActivePairIsWholeCorrect`,
`FallbackAlternatesCorrect`; and `AnswerIsUsedCorrect`.  Conversations of any length, any
thresholds, and any number of faults, spellings and repetitions.

What the stages have in common is one relation: `Stands(ms, raw, n, rows)`, the messages `ms` stand for
the first `n` of the client's `raw`.  Each of those is in `ms` or in a committed row; `ms` has them in
order and once; what is replaced has its row; each result follows its use; and if the last one
answers a tool, the last of `ms` has the answer and the one before it the use.  The five properties
follow from it, and the stages are functions that preserve it or that lead from one
weaker relation to the next:

| Relation | Who establishes it | Who needs it |
|---|---|---|
| `Shaped`: one message per raw one, in its place with its tools | decay, recall, compression | collapse, fallback |
| `Reduced`: the same, where a use may be gone with its result | stubs, cut texts | compaction |
| `Compacted`: some runs are summaries, no gap, roles alternate | compaction | pair repair |
| `Mendable`: a result without a use may be left over, but then it, the summary before it and what follows are in the rows | the fallback before its repair | `ValidateToolPairs` |
| `Stands` | archive block and tail, pair repair, alternation, merging | what is sent, frozen prefixes |

The inductive invariant says which relation holds at which stage (`Fits`), that a frozen prefix, in
memory or in its row, ends with a message of the user and stands for what is before its end
(`Kept`), and that marks of decay, in memory or in their row, are on messages whose row is committed, with that of a use
its result (`Marked`).  Two points make it inductive.  A prefix must keep the shape of its last message:
`Stands` before its cut, and a cut at a user's message, give `Stands` for the prefix followed
by the rest of the conversation.  And under pressure the prefix is dropped: `Fits` says that
compression, collapse and fallback start from one message for each raw one, never from a
prefix that was put back, whose block they would fold a second time.  TLC checked the invariant on
the instance of the run `RequestPipeline` before it was proved.

`AnswerIsUsed` needs `BaselineInv`: the baseline that memory, or the row if memory is not loaded, shows is
that of the last measured answer with its coordinates, which count raw messages and so never
more than the next request has; a request between the read and the decision holds it, or knows that
its read failed.

**Induction over data.**  The induction theorems of the library take an operator as a
parameter, which the provers used here cannot instantiate.  Where a proof needs induction over the
length of a sequence, the claim is stated as a set of numbers instead: `NatSetInduction` says that a
set with 0 and the successors of its numbers has them all, and follows from `WFMin`.
`RecursionExists` gives a function that is defined by recursion on a number its equation, folds are
unfolded to such functions, and `FlattenSeq` to its own.  For this, the definitions of the models are written with recursive
functions (`OfKey`, the local function of `FixAlternation`) or with quantifiers over positions
(`OneLifecycle`, `Runs`, `Recalled`).

Only model-checked: `CloseReturns`, `RequestsEnd`, `AcceptedRequestCloses`, `HandlerEnds`, and of
the two refinements the promise that an accepted record or write does not stay undecided.  They
are liveness under fairness, whose `ENABLED` the proof system does not handle.

## 5. Findings

Three statements of the repository that the code does not keep; each has a run that shows it.

1. `HistoryArchiveRestore`: a text whose row was isolated by an edit, collapsed again after the
   user took the edit back, is answered with the identifier of the isolated row (`store.go:340`),
   which recall then refuses; `README.md:12` promises that collapsed history can be restored.
2. `FrozenStubsLoad`: a load marks its key as loaded before it publishes the row, and publishes
   it if the key has no messages (`frozen.go:786`).  A request that invalidates the key in between
   (`proxy.go:998`) has its invalidation undone in memory, which the comment at `frozen.go:647`
   means to exclude.  The baselines' load compares a generation before it publishes.
3. `RequestPipelineLost`: the pressure of a request that continues the last answered one is that
   answer's usage and the new messages (`proxy.go:1078`), whatever is about to be sent.  When the
   frozen prefix of a folded history is not put back, for instance because its row cannot be read
   after an eviction, the whole history goes out above the emergency line without being folded,
   once; `FOLLOWUPS.md:16` says that the cost is one more fold.

### Known disagreements

Formulas that are stated in the modules, false in the code, and not part of a run:

* `ReplayedScopeRecovers` (`OutcomeDispatcher`): a queue-full loss is counted and its scope degraded
  in two critical sections (`outcome_dispatcher.go:354`, `:362`).  The worker can claim, write and
  commit the loss between the two, and the late `ObserveFailure` leaves the scope degraded with
  nothing to replay, until the next loss is replayed; `outcome_dispatcher_test.go:811` expects the
  recovery.
* `VisibleOnBranch` (`HistoryArchive`): the history row of an initial or continued epoch is written
  best effort (`history_epoch.go:280`).  If the write fails, a block is archived and the process
  restarts, an edited history may pass for a continuation and the block of the edited text stays
  visible; `archive_recovery_e2e_test.go:138` expects that it does not.  `VisibleOnKnownBranch` and
  `DerivedOnBranch` are stated under the negation of this case (`forgotten`).
* `BareKeyStaysOut` (`FrozenStubs`): that an epoch key once had a row is remembered by the process
  only; after a bad row was deleted, a restart lets the bare key in again, against `frozen.go:168`.
* `ClientFailureIsItsOwn` (`ResponseStream`): a write to the client that fails in the middle of a
  stream returns an error without the class of its own that `forward.go:575` describes
  (`:1071`), and is logged as a failure of the upstream.

### Observations

Met while modelling, not contradicted by a promise: a migration may store a snapshot or an answer of
epoch 2 under the key of epoch 1, because the bare key mirrors the current epoch
(`frozen.go:184`; a reuse is verified, and the next answer replaces the baseline).  The log line at
`proxy.go:1346` says that the original text is kept although the compression may have replaced tool
results, whose rows are stored.  The class of a closure need not be that of a result as bad as its disk
state: after a failed read the state may be `saved` beside the class of SQLite, and after a failed write
the class may be the upstream's; the comment at `request_outcome.go:735` is about completions only.  A kept task list's tool use can stay where its result became a stub.
`validate_pairs.go` speaks of earlier uses, but collects them from any position.  The comments at
`stubify.go:313` and `proxy.go:1603` leave cases out.  A collapse does not keep the roles
alternating by itself; the API merges neighbours of one role.

## 6. Plan

Done: the dispatcher, the writer, the collector and shutdown, the branches and archives, the frozen
prefixes, the baselines, the response, and the pipeline.  Left, in this order:

1. Requests of one session that overlap in `RequestPipeline`, on `SawtoothTrigger` and `FrozenStubs`;
   calibration samples of overlapping requests.
2. `DecayTracker` under overlapping requests: the mark `loaded` is set before the maps are filled, and
   snapshots are submitted under the key's lock.
3. Cache breakpoints as operators with their bound of four.
4. Proofs: the parts of 1 and 2, on the pattern of the invariants above.

## 7. What is not modelled and why

Text processing that only looks at one request (classification, reminders, persistent user context,
keyword extraction, ranking of search results, token counting from a vocabulary), which keeps no
state; logging and debug dumps, configuration, and the parsing of constructors' arguments.  Time
appears only as the expiry of a deadline.  Cache breakpoints change no message and no state.

Of the hazards, two have no property for a reason that `PROJECT.json` gives with them: the recall
of a slow request shows rows of the session's branch, not of its own (`store.go:573`), and the bare key
after a restart (`frozen.go:176`, a known disagreement).
Three are not listed there because only the order or the reading of reports is at stake: gaps that
are pending when the last closure is written stay in memory at shutdown
(`outcome_dispatcher.go:391`), a transition is reported after the lock is released
(`health_tracker.go:289`; `FOLLOWUPS.md`, item 2), and a row that cannot be parsed is no state for
the manager but an error for the store (`history_epoch.go:342`).

## 8. Running

    tlc -workers 2 -config OutcomeDispatcher.cfg MCOutcomeDispatcher.tla
    tlapm OutcomeDispatcherProofs.tla

and likewise for the other configurations and proof modules; `PROJECT.json` lists them.
