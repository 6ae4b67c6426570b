-------------------------- MODULE SawtoothTrigger --------------------------
(***************************************************************************)
(* The pressure baselines of one session (frozen.go, SawtoothTrigger): the *)
(* tokens that the API billed for the last answered request, kept per      *)
(* state key; the generations that order the answers of requests that      *)
(* overlap; the lazy load, the migration from the bare session key and the *)
(* write-behind; and the requests of proxy.go and forward.go that use them.*)
(*                                                                         *)
(* A step is one critical section of SawtoothTrigger.mu, one read of the   *)
(* state table, or one submission.  The lock of a key (pressurePersistLock)*)
(* is held from the update of the memory to the submission; taking it is   *)
(* part of the update and `hold' says who has it.                          *)
(*                                                                         *)
(* A baseline is named by the request whose answer it is; its tokens,      *)
(* message count and fingerprints are looked at in RequestPipeline.        *)
(***************************************************************************)
EXTENDS Naturals, Sequences

CONSTANTS
  Requests,
  MaxEpoch,    \* bound on the branches of the session
  MaxRestarts, \* bound on crashes
  NoRequest,   \* no request; also the author of rows of an earlier process
  NoBase,      \* no baseline; as a row, one without tokens (a reset)
  NoRow,       \* an absent row
  Unread       \* a row whose read failed

ASSUME TriggerAssumption ==
  /\ MaxEpoch \in Nat
  /\ MaxRestarts \in Nat
  /\ NoRequest \notin Requests
  /\ NoBase \notin Requests \cup {NoRequest}
  /\ NoRow \notin Requests \cup {NoRequest, NoBase}
  /\ Unread \notin Requests \cup {NoRequest, NoBase, NoRow}

\* Key 0 is the bare session key, "sawtooth:<session>"; key e is that of epoch e.
Bare == 0
EpochKeys == 1..MaxEpoch
Keys == {Bare} \cup EpochKeys

Baselines == Requests \cup {NoRequest}
Optional == Baselines \cup {NoBase}
Rows == Optional \cup {NoRow}

VARIABLES
  state,     \* [Keys -> the maps of SawtoothTrigger at that key]
  loader,    \* loadingFromDB: [Keys -> the request that reads the row]
  failures,  \* loadFailures: the keys whose last read failed
  alias,     \* currentAlias of the session; Bare if there is none
  req,       \* [Requests -> program counter and locals]
  epoch,     \* the session's epoch, decided by the epoch manager
  queue,     \* [Keys -> writes the persistence writer has accepted]
  disk,      \* [Keys -> the row of the state table]
  restarts,
  newest,    \* history: [Keys -> the newest generation that was written back, with its value]
  known,     \* history: keys whose row was read, or whose baseline was set, by this process
  unread,    \* history: keys of which a read has failed in this process
  decided,   \* history: [Keys -> the last update of the memory that was to be written]
  outcome    \* history: [Keys -> what became of the last submission]

ghosts == <<newest, known, unread, decided, outcome>>
vars == <<state, loader, failures, alias, req, epoch, queue, disk, restarts, ghosts>>

\* asked, committed and version are baselineRequestGeneration,
\* baselineCommittedGeneration and baselineGeneration.
Absent == [base |-> NoBase, seq |-> 0, asked |-> 0, committed |-> 0, version |-> 0,
           loaded |-> FALSE, found |-> FALSE]

NoLoad == [pc |-> "none", key |-> Bare, version |-> 0, row |-> NoRow]
NoHold == [held |-> FALSE, key |-> Bare, value |-> NoBase]
Fresh == [pc |-> "idle", key |-> Bare, safe |-> FALSE, changed |-> FALSE, gen |-> 0,
          load |-> NoLoad, hold |-> NoHold, seen |-> NoBase, result |-> "none"]
Ended == [Fresh EXCEPT !.pc = "done"]

Entries == [base: Optional, seq: Nat, asked: Nat, committed: Nat, version: Nat,
            loaded: BOOLEAN, found: BOOLEAN]
Loads == [pc: {"none", "read", "publish", "wait", "woken", "failed"},
          key: Keys, version: Nat, row: Rows \cup {Unread}]
Handlers == [pc: {"idle", "migrate", "examine", "copy", "alias", "unsafe", "reset", "count",
                  "begin", "look", "load", "take", "upstream", "update", "done"},
             key: Keys, safe: BOOLEAN, changed: BOOLEAN, gen: Nat, load: Loads,
             hold: [held: BOOLEAN, key: Keys, value: Optional], seen: Optional,
             result: {"none", "actual", "empty", "failed"}]

TypeOK ==
  /\ state \in [Keys -> Entries]
  /\ loader \in [Keys -> Requests \cup {NoRequest}]
  /\ failures \subseteq Keys
  /\ alias \in Keys
  /\ req \in [Requests -> Handlers]
  /\ epoch \in Keys
  /\ queue \in [Keys -> Seq(Optional)]
  /\ disk \in [Keys -> Rows]
  /\ restarts \in 0..MaxRestarts
  /\ newest \in [Keys -> [gen: Nat, value: Optional]]
  /\ known \subseteq Keys
  /\ unread \subseteq Keys
  /\ decided \in [Keys -> Rows]
  /\ outcome \in [Keys -> {"pending", "saved", "lost"}]

Nothing == [gen |-> 0, value |-> NoBase]

\* The table may hold a baseline of an earlier process, and one of an older version
\* under the bare key; rows without a usable baseline come from resets.
Init ==
  /\ state = [k \in Keys |-> Absent]
  /\ loader = [k \in Keys |-> NoRequest]
  /\ failures = {}
  /\ alias = Bare
  /\ req = [r \in Requests |-> Fresh]
  /\ queue = [k \in Keys |-> <<>>]
  /\ disk \in [Keys -> {NoRow, NoRequest}]
  /\ \A k \in EpochKeys \ {1} : disk[k] = NoRow
  /\ epoch = IF 1 \in Keys /\ disk[1] # NoRow THEN 1 ELSE 0
  /\ restarts = 0
  /\ newest = [k \in Keys |-> Nothing]
  /\ known = {}
  /\ unread = {}
  /\ decided = disk
  /\ outcome = [k \in Keys |-> "saved"]

-----------------------------------------------------------------------------
(* Entries, aliases and the lock of a key                                  *)

\* resolveStateKeyLocked
Resolve(k) == IF k = Bare THEN alias ELSE k

\* hasStateLocked: tokens, a time (set with the tokens), a sequence number or a generation.
HasState(entry) ==
  entry.base # NoBase \/ entry.seq # 0 \/ entry.version # 0 \/ entry.asked # 0 \/ entry.committed # 0

\* copyStateLocked: everything but what is known about the table.
Copied(from, to) == [from EXCEPT !.loaded = to.loaded, !.found = to.found]

\* mirrorCurrentAliasesLocked: the bare key shows the state of the aliased one.
Mirrored(s, current, k) ==
  IF current # k \/ k = Bare THEN s
  ELSE [s EXCEPT ![Bare] = [Copied(s[k], s[Bare]) EXCEPT !.loaded = TRUE, !.found = s[k].found]]

Key(r) == Resolve(req[r].key)

Becomes(r, handler) == req' = [req EXCEPT ![r] = handler]
Holding(k, value) == [held |-> TRUE, key |-> k, value |-> value]

\* Mutated form: nobody waits for the lock of a key.
UnlockedAlways(k) == k \in Keys

Unlocked(k) == \A r \in Requests : ~(req[r].hold.held /\ req[r].hold.key = k)

\* r is between two calls: it holds no lock and reads no row.
Ready(r, pc) ==
  /\ req[r].pc = pc
  /\ req[r].load.pc \in {"none", "failed"}
  /\ ~req[r].hold.held

\* submitSawtoothState, the last step under the key's lock.
Submit(r) ==
  /\ req[r].hold.held
  /\ LET k == req[r].hold.key IN
     \/ /\ queue' = [queue EXCEPT ![k] = Append(@, req[r].hold.value)]
        /\ outcome' = [outcome EXCEPT ![k] = "pending"]
     \/ /\ outcome' = [outcome EXCEPT ![k] = "lost"]
        /\ UNCHANGED queue
  /\ Becomes(r, [req[r] EXCEPT !.hold = NoHold])
  /\ UNCHANGED <<state, loader, failures, alias, epoch, disk, restarts,
                 newest, known, unread, decided>>

-----------------------------------------------------------------------------
(* loadSawtoothFromDB                                                      *)

\* The head: nothing to do, somebody else reads, or r becomes the reader and
\* notes the version of the state.
StartLoad(r, k0, next) ==
  LET k == Resolve(k0) IN
  \/ /\ state[k].loaded
     /\ Becomes(r, [req[r] EXCEPT !.pc = next, !.load = NoLoad])
     /\ UNCHANGED loader
  \/ /\ ~state[k].loaded /\ loader[k] # NoRequest
     /\ Becomes(r, [req[r] EXCEPT !.pc = next, !.load = [NoLoad EXCEPT !.pc = "wait", !.key = k]])
     /\ UNCHANGED loader
  \/ /\ ~state[k].loaded /\ loader[k] = NoRequest
     /\ Becomes(r, [req[r] EXCEPT !.pc = next,
          !.load = [pc |-> "read", key |-> k, version |-> state[k].version, row |-> NoRow]])
     /\ loader' = [loader EXCEPT ![k] = r]

ReadRow(r) ==
  /\ req[r].load.pc = "read"
  /\ LET k == req[r].load.key IN
     \E row \in {disk[k], Unread} :
       /\ Becomes(r, [req[r] EXCEPT !.load.pc = "publish", !.load.row = row])
       /\ known' = IF row = Unread THEN known ELSE known \cup {k}
       /\ unread' = IF row = Unread THEN unread \cup {k} ELSE unread
  /\ UNCHANGED <<state, loader, failures, alias, epoch, queue, disk, restarts,
                 newest, decided, outcome>>

\* A row with tokens counts if no answer was written back since the load began.
Applies(entry, load) ==
  load.row \in Baselines /\ entry.base = NoBase /\ entry.version = load.version

\* An entry after a successful read.
Read(entry, load) ==
  [entry EXCEPT !.base = IF Applies(entry, load) THEN load.row ELSE entry.base,
                !.found = entry.found \/ load.row # NoRow, !.loaded = TRUE]

\* What a successful read leaves in the memory; the bare key shows what applied.
Learned(k, load) ==
  LET learned == [state EXCEPT ![k] = Read(state[k], load)] IN
  IF Applies(state[k], load) THEN Mirrored(learned, alias, k) ELSE learned

\* Mutated form: the key counts as loaded when the read has failed, too.
LearnedAnyway(k, load) == Learned(k, load)

\* A failed read changes nothing: the next request may try again.
AfterLoad(k, load) == IF load.row = Unread THEN state ELSE Learned(k, load)

\* Mutated form: those who wait are told only of an answer.
WokenOnSuccess(k, row) ==
  {q \in Requests : req[q].load.pc = "wait" /\ req[q].load.key = k /\ row # Unread}

Woken(k, row) == {q \in Requests : req[q].load.pc = "wait" /\ req[q].load.key = k}

\* One critical section: the state, the shared failure, and all waiters wake.
PublishRow(r) ==
  /\ req[r].load.pc = "publish"
  /\ LET k == req[r].load.key
         row == req[r].load.row IN
     /\ state' = AfterLoad(k, req[r].load)
     /\ failures' = IF row = Unread THEN failures \cup {k} ELSE failures \ {k}
     /\ loader' = [loader EXCEPT ![k] = NoRequest]
     /\ req' = [q \in Requests |->
          CASE q = r -> [req[q] EXCEPT !.load =
                           [NoLoad EXCEPT !.pc = IF row = Unread THEN "failed" ELSE "none"]]
            [] q \in Woken(k, row) -> [req[q] EXCEPT !.load.pc = "woken"]
            [] OTHER -> req[q]]
  /\ UNCHANGED <<alias, epoch, queue, disk, restarts, ghosts>>

\* A waiter reads the shared failure, if it is still there.
ShareResult(r) ==
  /\ req[r].load.pc = "woken"
  /\ Becomes(r, [req[r] EXCEPT !.load =
       [NoLoad EXCEPT !.pc = IF req[r].load.key \in failures THEN "failed" ELSE "none"]])
  /\ UNCHANGED <<state, loader, failures, alias, epoch, queue, disk, restarts, ghosts>>

-----------------------------------------------------------------------------
(* A request: the epoch, MigrateLegacyState and SetCurrentAlias            *)

\* HistoryEpochManager.Begin: the session stays in its epoch or opens the next.
Begin(r) ==
  /\ req[r].pc = "idle"
  /\ \E safe \in BOOLEAN, changed \in BOOLEAN :
       /\ IF changed THEN epoch < MaxEpoch ELSE epoch > 0
       /\ changed /\ safe => epoch = 0
       /\ epoch' = IF changed THEN epoch + 1 ELSE epoch
       /\ Becomes(r, [Fresh EXCEPT !.pc = IF epoch' = 1 THEN "migrate" ELSE "alias",
                    !.key = epoch', !.safe = safe, !.changed = changed])
  /\ UNCHANGED <<state, loader, failures, alias, queue, disk, restarts, ghosts>>

LoadTarget(r) ==
  /\ Ready(r, "migrate")
  /\ StartLoad(r, req[r].key, "examine")
  /\ UNCHANGED <<state, failures, alias, epoch, queue, disk, restarts, ghosts>>

\* The target was read and has no state: only then the bare key is looked at.
TargetEmpty(r) ==
  /\ req[r].load.pc # "failed"
  /\ ~HasState(state[req[r].key]) /\ ~state[req[r].key].found

LoadBare(r) ==
  /\ Ready(r, "examine")
  /\ TargetEmpty(r)
  /\ StartLoad(r, Bare, "copy")
  /\ UNCHANGED <<state, failures, alias, epoch, queue, disk, restarts, ghosts>>

KeepTarget(r) ==
  /\ Ready(r, "examine")
  /\ ~TargetEmpty(r)
  /\ Becomes(r, [req[r] EXCEPT !.pc = "alias", !.load = NoLoad])
  /\ UNCHANGED <<state, loader, failures, alias, epoch, queue, disk, restarts, ghosts>>

MayCopy(k) == ~HasState(state[k]) /\ ~state[k].found /\ HasState(state[Bare])

\* A copy without a baseline leaves no row to be found.
Migrated(from, to) ==
  [Copied(from, to) EXCEPT !.loaded = TRUE, !.found = to.found \/ from.base # NoBase]

\* Under the target's lock; a failed read of the bare key is an empty bare key.
\* Only a baseline is written.
Migrate(r) ==
  /\ Ready(r, "copy")
  /\ LET k == req[r].key
         base == state[Bare].base IN
     /\ Unlocked(k)
     /\ MayCopy(k)
     /\ state' = [state EXCEPT ![k] = Migrated(state[Bare], state[k])]
     /\ known' = IF base = NoBase THEN known ELSE known \cup {k}
     /\ decided' = IF base = NoBase THEN decided ELSE [decided EXCEPT ![k] = base]
     /\ Becomes(r, [req[r] EXCEPT !.pc = "alias", !.load = NoLoad,
                      !.hold = IF base = NoBase THEN NoHold ELSE Holding(k, base)])
  /\ UNCHANGED <<loader, failures, alias, epoch, queue, disk, restarts, newest, unread, outcome>>

MigrateNothing(r) ==
  /\ Ready(r, "copy")
  /\ Unlocked(req[r].key)
  /\ ~MayCopy(req[r].key)
  /\ Becomes(r, [req[r] EXCEPT !.pc = "alias", !.load = NoLoad])
  /\ UNCHANGED <<state, loader, failures, alias, epoch, queue, disk, restarts, ghosts>>

\* A history that is in no way like the last one has a new key; one that is not
\* safe to reuse on the same branch loses its baseline.
SetCurrentAlias(r) ==
  /\ Ready(r, "alias")
  /\ alias' = req[r].key
  /\ state' = Mirrored(state, req[r].key, req[r].key)
  /\ Becomes(r, [req[r] EXCEPT !.pc = IF req[r].safe \/ req[r].changed
                                        THEN "count" ELSE "unsafe"])
  /\ UNCHANGED <<loader, failures, epoch, queue, disk, restarts, ghosts>>

-----------------------------------------------------------------------------
(* A request: generations and updates                                      *)

NextGeneration(entry) == entry.asked + 1

\* BeginPressureRequest, for a reset or for the request itself.
BeginPressureRequest(r) ==
  /\ Ready(r, "unsafe") \/ Ready(r, "begin")
  /\ LET k == Key(r)
         g == NextGeneration(state[k]) IN
     /\ state' = Mirrored([state EXCEPT ![k].asked = g], alias, k)
     /\ Becomes(r, [req[r] EXCEPT !.gen = g,
          !.pc = CASE req[r].pc = "unsafe" -> "reset"
                   [] req[r].safe -> "look"
                   [] OTHER -> "upstream"])
  /\ UNCHANGED <<loader, failures, alias, epoch, queue, disk, restarts, ghosts>>

IncrementRequestSeq(r) ==
  /\ Ready(r, "count")
  /\ LET k == Key(r) IN
     state' = Mirrored([state EXCEPT ![k].seq = @ + 1], alias, k)
  /\ Becomes(r, [req[r] EXCEPT !.pc = "begin"])
  /\ UNCHANGED <<loader, failures, alias, epoch, queue, disk, restarts, ghosts>>

\* Mutated form: any answer is newer.
AcceptsAny(entry, g) == g > 0

Accepts(entry, g) == g >= entry.committed

\* An entry after an accepted update.  A load in flight takes the mark away: its
\* end sets it again, or the next request reads the row.
Answered(entry, free, g, value) ==
  [base |-> value, seq |-> entry.seq, asked |-> IF g > entry.asked THEN g ELSE entry.asked,
   committed |-> g, version |-> entry.version + 1, loaded |-> free, found |-> TRUE]

Updated(k, g, value) ==
  Mirrored([state EXCEPT ![k] = Answered(state[k], loader[k] = NoRequest, g, value)], alias, k)

\* updatePressureBaselineForRequest up to its submission.
Update(r, k, value, next) ==
  LET g == req[r].gen IN
  /\ Unlocked(k)
  /\ newest' = IF g >= newest[k].gen THEN [newest EXCEPT ![k] = [gen |-> g, value |-> value]]
                                     ELSE newest
  /\ \/ /\ Accepts(state[k], g)
        /\ state' = Updated(k, g, value)
        /\ known' = known \cup {k}
        /\ decided' = [decided EXCEPT ![k] = value]
        /\ Becomes(r, [next EXCEPT !.hold = Holding(k, value)])
     \/ /\ ~Accepts(state[k], g)
        /\ Becomes(r, next)
        /\ UNCHANGED <<state, known, decided>>
  /\ UNCHANGED <<loader, failures, alias, epoch, queue, disk, restarts, unread, outcome>>

\* ResetPressureBaseline, its second half.
ResetPressureBaseline(r) ==
  /\ Ready(r, "reset")
  /\ Update(r, Key(r), NoBase, [req[r] EXCEPT !.pc = "count", !.gen = 0])

-----------------------------------------------------------------------------
(* A request: PressureBaselineWithLoadResult                               *)

\* The loop: whoever finds neither a baseline nor the mark loads or waits.
LookInMemory(r) ==
  /\ Ready(r, "look") /\ req[r].load.pc = "none"
  /\ LET entry == state[Key(r)] IN
     Becomes(r, [req[r] EXCEPT !.pc = IF entry.base # NoBase \/ entry.loaded
                                      THEN "take" ELSE "load"])
  /\ UNCHANGED <<state, loader, failures, alias, epoch, queue, disk, restarts, ghosts>>

\* A request that saw a load in flight waits here for that or for a later one.
LookOnDisk(r) ==
  /\ Ready(r, "load") /\ req[r].load.pc = "none"
  /\ StartLoad(r, req[r].key, "look")
  /\ UNCHANGED <<state, failures, alias, epoch, queue, disk, restarts, ghosts>>

\* A read that failed is the answer, and is not taken for an absent baseline.
GiveUp(r) ==
  /\ Ready(r, "look") /\ req[r].load.pc = "failed"
  /\ Becomes(r, [req[r] EXCEPT !.load = NoLoad, !.pc = "upstream", !.result = "failed"])
  /\ UNCHANGED <<state, loader, failures, alias, epoch, queue, disk, restarts, ghosts>>

TakeBaseline(r) ==
  /\ Ready(r, "take")
  /\ LET base == state[Key(r)].base IN
     Becomes(r, [req[r] EXCEPT !.pc = "upstream", !.seen = base,
                   !.result = IF base = NoBase THEN "empty" ELSE "actual"])
  /\ UNCHANGED <<state, loader, failures, alias, epoch, queue, disk, restarts, ghosts>>

-----------------------------------------------------------------------------
(* A request: its answer (applyPressureBaselineUsage)                      *)

\* The answer is whole and its usage is that of the current branch: IsCurrent is
\* asked before the update, outside its lock.
UsageArrives(r) ==
  /\ Ready(r, "upstream")
  /\ epoch = req[r].key
  /\ Becomes(r, [req[r] EXCEPT !.pc = "update"])
  /\ UNCHANGED <<state, loader, failures, alias, epoch, queue, disk, restarts, ghosts>>

Done(r) == [Ended EXCEPT !.key = req[r].key]

\* There is no usage, its coordinates are not bound, or the branch was left.
NoUsage(r) ==
  /\ Ready(r, "upstream")
  /\ Becomes(r, Done(r))
  /\ UNCHANGED <<state, loader, failures, alias, epoch, queue, disk, restarts, ghosts>>

\* Mutated form: the usage is that of the session, whatever its branch by now.
SessionKey(r) == IF req[r].key = Bare THEN Bare ELSE Resolve(Bare)

UsageKey(r) == Key(r)

WriteBack(r) ==
  /\ Ready(r, "update")
  /\ Update(r, UsageKey(r), r, Done(r))

-----------------------------------------------------------------------------
(* Beside the requests: the writer, and a crash                            *)

\* The persistence writer tries the writes of a key in order, each once.
WriteRow(k) ==
  /\ queue[k] # <<>>
  /\ queue' = [queue EXCEPT ![k] = Tail(@)]
  /\ \E ok \in BOOLEAN :
       /\ disk' = IF ok THEN [disk EXCEPT ![k] = Head(queue[k])] ELSE disk
       /\ outcome' = IF Len(queue[k]) = 1 /\ outcome[k] = "pending"
                       THEN [outcome EXCEPT ![k] = IF ok THEN "saved" ELSE "lost"]
                       ELSE outcome
  /\ UNCHANGED <<state, loader, failures, alias, req, epoch, restarts,
                 newest, known, unread, decided>>

\* The process ends with its queue and its generations.
Crash ==
  /\ restarts < MaxRestarts
  /\ restarts' = restarts + 1
  /\ state' = [k \in Keys |-> Absent]
  /\ loader' = [k \in Keys |-> NoRequest]
  /\ failures' = {}
  /\ alias' = Bare
  /\ req' = [r \in Requests |-> IF req[r].pc = "idle" THEN Fresh ELSE Done(r)]
  /\ queue' = [k \in Keys |-> <<>>]
  /\ newest' = [k \in Keys |-> Nothing]
  /\ known' = {}
  /\ unread' = {}
  /\ decided' = disk
  /\ outcome' = [k \in Keys |-> "saved"]
  /\ UNCHANGED <<epoch, disk>>

-----------------------------------------------------------------------------

LoadStep(r) == ReadRow(r) \/ PublishRow(r) \/ ShareResult(r)

MigrateStep(r) ==
  \/ LoadTarget(r) \/ LoadBare(r) \/ KeepTarget(r) \/ Migrate(r) \/ MigrateNothing(r)
  \/ SetCurrentAlias(r)

BaselineStep(r) ==
  \/ BeginPressureRequest(r) \/ IncrementRequestSeq(r) \/ ResetPressureBaseline(r)
  \/ LookInMemory(r) \/ LookOnDisk(r) \/ GiveUp(r) \/ TakeBaseline(r)
  \/ UsageArrives(r) \/ NoUsage(r) \/ WriteBack(r)

Handle(r) == Submit(r) \/ LoadStep(r) \/ MigrateStep(r) \/ BaselineStep(r)

Next ==
  \/ \E r \in Requests : Begin(r) \/ Handle(r)
  \/ \E k \in Keys : WriteRow(k)
  \/ Crash

Spec == Init /\ [][Next]_vars

\* A goroutine runs until it blocks, mutexes are handed over in turn, and the
\* upstream call has a hard limit.
FairSpec == Spec /\ \A r \in Requests : WF_vars(Handle(r))

-----------------------------------------------------------------------------
(* Properties                                                              *)

\* The memory shows the answer of the newest generation that was written back,
\* whatever the order of the answers and whatever a load in flight has read
\* (updatePressureBaselineForRequest, loadSawtoothFromDB).  A reset holds too,
\* unless a read of the key has failed: then the row is read once more.
NewestAnswerStays ==
  \A k \in EpochKeys :
    /\ newest[k].value \in Requests => state[k].base = newest[k].value
    /\ newest[k].gen > 0 /\ k \notin unread => state[k].base = newest[k].value

\* A request that goes on as if its key never had an answer has read the row, or
\* its process has set the key; so has one that falls back to the bare key.  A failed
\* read is not an absent row (PressureBaselineWithLoadResult, MigrateLegacyState).
EmptyIsKnown ==
  \A r \in Requests :
    req[r].result = "empty" \/ req[r].pc = "copy" => req[r].key \in known

\* What is kept of a branch other than the first is the answer to a request of that
\* branch, also when answers come after the branch was left: IsCurrent is asked
\* too early to say so (applyPressureBaselineUsage).
BranchKeepsItsOwn ==
  \A k \in EpochKeys \ {1} : \A r \in Requests :
    state[k].base = r \/ disk[k] = r => req[r].key = k

\* Once a key's writes were tried, the last of them with success, its row is the
\* last decision of the memory (baselinePersistLocks).
RowIsLastDecision ==
  \A k \in Keys :
    /\ \A r \in Requests : ~(req[r].hold.held /\ req[r].hold.key = k)
    /\ queue[k] = <<>>
    /\ outcome[k] = "saved"
    => disk[k] = decided[k]

\* A request never waits for ever for the load or the lock of another.
RequestsEnd == \A r \in Requests : req[r].pc # "idle" ~> req[r].pc = "done" /\ ~req[r].hold.held
=============================================================================
