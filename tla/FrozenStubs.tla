---------------------------- MODULE FrozenStubs ----------------------------
(***************************************************************************)
(* The frozen prefixes of one session (frozen.go): the collapsed form of a *)
(* conversation's beginning, kept per state key so that the next requests  *)
(* send the same bytes again; the lazy load from the state table, the      *)
(* submission of writes, the eviction, the one-time migration from the     *)
(* session's bare key, and the requests of proxy.go that use all of it.    *)
(*                                                                         *)
(* A step is one critical section of FrozenStubs.mu, one read of the state *)
(* table, or one submission.  The lock of a key (frozenPersistLock) is     *)
(* held from the update of the memory to the submission, so taking it is   *)
(* part of the update and `hold' says who has it.                          *)
(*                                                                         *)
(* A snapshot is the raw history it was made from and its author; a hash   *)
(* of a history is the history.  A row that fails the checks of its form   *)
(* is Corrupt.  Left out: the legacy_boundary mode, which production never *)
(* stores, and the in-memory hash check, which only memory corruption      *)
(* fails.  InvalidateWithResult's two resolutions of an alias are one.     *)
(***************************************************************************)
EXTENDS Naturals, Sequences

CONSTANTS
  Requests,
  Histories,   \* what a client may send, in the canonical form of the reuse hash
  Earlier,     \* the histories of which the table may hold a snapshot at the start
  BadRows,     \* the keys whose row may be bad at the start
  MaxEpoch,    \* bound on the branches of the session
  MaxRestarts, \* bound on crashes
  NoRequest,   \* no request; also the author of the rows of an older version
  NoSnap,      \* no snapshot: an absent entry, a deleted row
  Corrupt,     \* a row whose content is not a valid snapshot
  Unknown      \* history: the process has decided nothing about the key

ASSUME FrozenAssumption ==
  /\ Histories \subseteq Seq(UNION {{h[i] : i \in DOMAIN h} : h \in Histories}) \ {<<>>}
  /\ Earlier \subseteq Histories
  /\ MaxEpoch \in Nat
  /\ MaxRestarts \in Nat
  /\ NoRequest \notin Requests

\* Key 0 is the bare session key, "frozen:<session>"; key e is that of epoch e.
Bare == 0
EpochKeys == 1..MaxEpoch
Keys == {Bare} \cup EpochKeys

Snapshots == [raw: Histories, by: Requests \cup {NoRequest}]
ASSUME NoSnapshot == NoSnap \notin Snapshots /\ Corrupt \notin Snapshots /\ Unknown \notin Snapshots
ASSUME DistinctMarks == NoSnap # Corrupt /\ NoSnap # Unknown /\ Unknown # Corrupt

Optional == Snapshots \cup {NoSnap}

VARIABLES
  cache,     \* [Keys -> snap (messages and their data), touched (in lastAccess), loaded, found]
  loader,    \* loadingFromDB: [Keys -> the request that reads the row]
  failures,  \* loadFailures: the keys whose last read failed
  alias,     \* currentAlias of the session; Bare if there is none
  req,       \* [Requests -> program counter and locals]
  epoch,     \* the session's epoch, decided by the epoch manager
  queue,     \* [Keys -> writes the persistence writer has accepted]
  disk,      \* [Keys -> the row of the state table]
  restarts,
  known,     \* history: keys whose row was read, or whose state was set, by this process
  decided,   \* history: [Keys -> the last update of the memory that was to be written]
  outcome,   \* history: [Keys -> what became of the last submission]
  authority, \* history: [Keys -> what this process last decided, Unknown when it forgot]
  explicit   \* history: the keys that ever had a row

ghosts == <<known, decided, outcome, authority, explicit>>
vars == <<cache, loader, failures, alias, req, epoch, queue, disk, restarts, ghosts>>

Absent == [snap |-> NoSnap, touched |-> FALSE, loaded |-> FALSE, found |-> FALSE]

NoLoad == [pc |-> "none", key |-> Bare, row |-> NoSnap]
NoHold == [held |-> FALSE, key |-> Bare, value |-> NoSnap]
Fresh == [pc |-> "idle", key |-> Bare, history |-> <<>>, safe |-> FALSE, changed |-> FALSE,
          load |-> NoLoad, hold |-> NoHold, seen |-> NoSnap, result |-> "none"]
Ended == [Fresh EXCEPT !.pc = "done"]

Entries == [snap: Optional, touched: BOOLEAN, loaded: BOOLEAN, found: BOOLEAN]
Loads == [pc: {"none", "read", "learn", "judge", "finish", "fail", "wait", "woken", "failed"},
          key: Keys, row: Optional \cup {Corrupt}]
Holds == [held: BOOLEAN, key: Keys, value: Optional]
Handlers == [pc: {"idle", "migrate", "examine", "copy", "write", "alias", "unsafe", "get",
                  "snapshot", "verify", "work", "done"},
             key: Keys, history: Histories \cup {<<>>}, safe: BOOLEAN, changed: BOOLEAN,
             load: Loads, hold: Holds, seen: Optional,
             result: {"none", "hit", "miss", "failed", "dropped"}]

TypeOK ==
  /\ cache \in [Keys -> Entries]
  /\ loader \in [Keys -> Requests \cup {NoRequest}]
  /\ failures \subseteq Keys
  /\ alias \in Keys
  /\ req \in [Requests -> Handlers]
  /\ epoch \in Keys
  /\ queue \in [Keys -> Seq(Optional)]
  /\ disk \in [Keys -> Optional \cup {Corrupt}]
  /\ restarts \in 0..MaxRestarts
  /\ known \subseteq Keys
  /\ decided \in [Keys -> Optional \cup {Corrupt}]
  /\ outcome \in [Keys -> {"pending", "saved", "lost"}]
  /\ authority \in [Keys -> Optional \cup {Unknown}]
  /\ explicit \subseteq Keys

\* The table may hold rows of earlier processes, of an older version under the
\* bare key, whole or not.
Init ==
  /\ cache = [k \in Keys |-> Absent]
  /\ loader = [k \in Keys |-> NoRequest]
  /\ failures = {}
  /\ alias = Bare
  /\ req = [r \in Requests |-> Fresh]
  /\ queue = [k \in Keys |-> <<>>]
  /\ disk \in [Keys -> {[raw |-> h, by |-> NoRequest] : h \in Earlier} \cup {NoSnap, Corrupt}]
  /\ \A k \in Keys \ BadRows : disk[k] # Corrupt
  /\ \A k \in EpochKeys \ {1} : disk[k] = NoSnap
  /\ epoch = IF 1 \in Keys /\ disk[1] # NoSnap THEN 1 ELSE 0
  /\ restarts = 0
  /\ known = {}
  /\ decided = disk
  /\ outcome = [k \in Keys |-> "saved"]
  /\ authority = [k \in Keys |-> Unknown]
  /\ explicit = {k \in Keys : disk[k] # NoSnap}

-----------------------------------------------------------------------------
(* The entries, the aliases and the lock of a key                          *)

\* resolveStateKeyLocked
Resolve(k) == IF k = Bare THEN alias ELSE k

Emptied(entry) == [entry EXCEPT !.snap = NoSnap, !.touched = FALSE]

\* mirrorCurrentAliasesLocked: the bare key shows the state of the aliased one.
Mirrored(c, current, k) ==
  IF current # k \/ k = Bare THEN c
  ELSE [c EXCEPT ![Bare] = IF c[k].snap = NoSnap THEN [Emptied(@) EXCEPT !.loaded = TRUE]
                                                 ELSE [c[k] EXCEPT !.loaded = TRUE]]

Stored(c, k, s) ==
  Mirrored([c EXCEPT ![k] = [snap |-> s, touched |-> TRUE, loaded |-> TRUE, found |-> TRUE]],
           alias, k)

\* The state of k is dropped, and its mirror; k stays marked as loaded.
Invalidated(c, k) ==
  [j \in Keys |-> CASE j = k -> [Emptied(c[j]) EXCEPT !.loaded = TRUE]
                    [] j = Bare /\ alias = k -> Emptied(c[j])
                    [] OTHER -> c[j]]

\* Mutated form: nobody waits for the lock of a key.
UnlockedAlways(k) == k \in Keys

Unlocked(k) == \A r \in Requests : ~(req[r].hold.held /\ req[r].hold.key = k)

\* r is between two calls: it holds no lock and reads no row.
Ready(r, pc) ==
  /\ req[r].pc = pc
  /\ req[r].load.pc \in {"none", "failed"}
  /\ ~req[r].hold.held

Becomes(r, handler) == req' = [req EXCEPT ![r] = handler]

Holding(k, value) == [held |-> TRUE, key |-> k, value |-> value]

\* What the history variables record of an update of the memory.
Decide(k, value) ==
  /\ decided' = [decided EXCEPT ![k] = value]
  /\ authority' = [authority EXCEPT ![k] = value]
  /\ known' = known \cup {k}

\* InvalidateWithResult up to its submission.
Invalidate(k) ==
  /\ Unlocked(k)
  /\ cache' = Invalidated(cache, k)
  /\ Decide(k, NoSnap)

\* submitFrozenState and submitFrozenDelete, the last step under the key's lock.
Submit(r) ==
  /\ req[r].hold.held
  /\ LET k == req[r].hold.key IN
     \/ /\ queue' = [queue EXCEPT ![k] = Append(@, req[r].hold.value)]
        /\ outcome' = [outcome EXCEPT ![k] = "pending"]
     \/ /\ outcome' = [outcome EXCEPT ![k] = "lost"]
        /\ UNCHANGED queue
  /\ Becomes(r, [req[r] EXCEPT !.hold = NoHold])
  /\ UNCHANGED <<cache, loader, failures, alias, epoch, disk, restarts,
                 known, decided, authority, explicit>>

-----------------------------------------------------------------------------
(* loadFrozenFromDB                                                        *)

At(load, pc) == [load EXCEPT !.pc = pc]
LoadState(pc, k) == [pc |-> pc, key |-> k, row |-> NoSnap]

\* The head: nothing to do, somebody else reads, or r becomes the reader.
StartLoad(r, k0, next) ==
  LET k == Resolve(k0) IN
  \/ /\ cache[k].loaded
     /\ Becomes(r, [req[r] EXCEPT !.pc = next, !.load = NoLoad])
     /\ UNCHANGED loader
  \/ /\ ~cache[k].loaded /\ loader[k] # NoRequest
     /\ Becomes(r, [req[r] EXCEPT !.pc = next, !.load = LoadState("wait", k)])
     /\ UNCHANGED loader
  \/ /\ ~cache[k].loaded /\ loader[k] = NoRequest
     /\ Becomes(r, [req[r] EXCEPT !.pc = next, !.load = LoadState("read", k)])
     /\ loader' = [loader EXCEPT ![k] = r]

ReadRow(r) ==
  /\ req[r].load.pc = "read"
  /\ LET k == req[r].load.key IN
     \/ /\ Becomes(r, [req[r] EXCEPT !.load = [At(@, "learn") EXCEPT !.row = disk[k]]])
        /\ known' = known \cup {k}
     \/ /\ Becomes(r, [req[r] EXCEPT !.load = At(@, "fail")])
        /\ UNCHANGED known
  /\ UNCHANGED <<cache, loader, failures, alias, epoch, queue, disk, restarts,
                 decided, outcome, authority, explicit>>

\* The answer is known: the key counts as loaded, and as found if there is a row.
LearnRow(r) ==
  /\ req[r].load.pc = "learn"
  /\ LET k == req[r].load.key
         row == req[r].load.row IN
     /\ cache' = [cache EXCEPT ![k].loaded = TRUE, ![k].found = @ \/ row # NoSnap]
     /\ Becomes(r, [req[r] EXCEPT !.load = At(@, IF row = NoSnap THEN "finish" ELSE "judge")])
  /\ UNCHANGED <<loader, failures, alias, epoch, queue, disk, restarts, ghosts>>

Rejects(row) == row = Corrupt

\* A bad row is invalidated, under the key its own key now stands for.
RejectRow(r) ==
  /\ req[r].load.pc = "judge" /\ Rejects(req[r].load.row)
  /\ LET k == Resolve(req[r].load.key) IN
     /\ Invalidate(k)
     /\ Becomes(r, [req[r] EXCEPT !.load = At(@, "finish"), !.hold = Holding(k, NoSnap)])
  /\ UNCHANGED <<loader, failures, alias, epoch, queue, disk, restarts, outcome, explicit>>

\* Mutated form: what was read is published in any case.
PublishedOver(c, k, s) ==
  Mirrored([c EXCEPT ![k].snap = s, ![k].touched = TRUE], alias, k)

\* A good row is published unless the key has a state by now.
Published(c, k, s) ==
  IF c[k].snap # NoSnap THEN c
  ELSE Mirrored([c EXCEPT ![k].snap = s, ![k].touched = TRUE], alias, k)

PublishRow(r) ==
  /\ req[r].load.pc = "judge" /\ ~Rejects(req[r].load.row)
  /\ cache' = Published(cache, req[r].load.key, req[r].load.row)
  /\ Becomes(r, [req[r] EXCEPT !.load = At(@, "finish")])
  /\ UNCHANGED <<loader, failures, alias, epoch, queue, disk, restarts, ghosts>>

\* The result of a load: whether the read failed.
Loaded(failed) == [NoLoad EXCEPT !.pc = IF failed THEN "failed" ELSE "none"]

\* Mutated form: a read that failed leaves no trace for those who wait for it.
FailuresForgotten(k, failed) == failures \ {k}

FailuresAfter(k, failed) == IF failed THEN failures \cup {k} ELSE failures \ {k}

\* Mutated form: those who wait are told only when the read went well.
WakesOnSuccess(k, r) ==
  {q \in Requests : req[q].load.pc = "wait" /\ req[q].load.key = k /\ req[r].load.pc = "finish"}

Wakes(k, r) == {q \in Requests : req[q].load.pc = "wait" /\ req[q].load.key = k}

\* The deferred clean-up of every exit: the failure is shared, all waiters wake.
FinishLoad(r) ==
  /\ req[r].load.pc \in {"finish", "fail"} /\ ~req[r].hold.held
  /\ LET k == req[r].load.key
         failed == req[r].load.pc = "fail" IN
     /\ failures' = FailuresAfter(k, failed)
     /\ loader' = [loader EXCEPT ![k] = NoRequest]
     /\ req' = [q \in Requests |->
          CASE q = r -> [req[q] EXCEPT !.load = Loaded(failed)]
            [] q \in Wakes(k, r) -> [req[q] EXCEPT !.load = At(@, "woken")]
            [] OTHER -> req[q]]
  /\ UNCHANGED <<cache, alias, epoch, queue, disk, restarts, ghosts>>

\* A waiter reads the shared failure, if it is still there.
ShareResult(r) ==
  /\ req[r].load.pc = "woken"
  /\ Becomes(r, [req[r] EXCEPT !.load = Loaded(req[r].load.key \in failures)])
  /\ UNCHANGED <<cache, loader, failures, alias, epoch, queue, disk, restarts, ghosts>>

-----------------------------------------------------------------------------
(* A request: the epoch, MigrateLegacyState and SetCurrentAlias            *)

\* HistoryEpochManager.Begin: the session stays in its epoch or opens the next.
\* A history without canonical form, <<>>, belongs to no earlier one.
Begin(r) ==
  /\ req[r].pc = "idle"
  /\ \E h \in Histories \cup {<<>>}, safe \in BOOLEAN, changed \in BOOLEAN :
       /\ IF changed THEN epoch < MaxEpoch ELSE epoch > 0 /\ h # <<>>
       /\ changed => (safe <=> epoch = 0 /\ h # <<>>)
       /\ epoch' = IF changed THEN epoch + 1 ELSE epoch
       /\ Becomes(r, [Fresh EXCEPT !.pc = IF epoch' = 1 THEN "migrate" ELSE "alias",
                    !.key = epoch', !.history = h, !.safe = safe, !.changed = changed])
  /\ UNCHANGED <<cache, loader, failures, alias, queue, disk, restarts, ghosts>>

LoadTarget(r) ==
  /\ Ready(r, "migrate")
  /\ StartLoad(r, req[r].key, "examine")
  /\ UNCHANGED <<cache, failures, alias, epoch, queue, disk, restarts, ghosts>>

\* The target was read, and has no state: only then the bare key is looked at.
TargetEmpty(r) ==
  /\ req[r].load.pc # "failed"
  /\ cache[req[r].key].snap = NoSnap /\ ~cache[req[r].key].found

LoadBare(r) ==
  /\ Ready(r, "examine")
  /\ TargetEmpty(r)
  /\ StartLoad(r, Bare, "copy")
  /\ UNCHANGED <<cache, failures, alias, epoch, queue, disk, restarts, ghosts>>

KeepTarget(r) ==
  /\ Ready(r, "examine")
  /\ ~TargetEmpty(r)
  /\ Becomes(r, [req[r] EXCEPT !.pc = "alias"])
  /\ UNCHANGED <<cache, loader, failures, alias, epoch, queue, disk, restarts, ghosts>>

CopyBare(r) ==
  /\ Ready(r, "copy")
  /\ Becomes(r, [req[r] EXCEPT !.seen = cache[Bare].snap,
                        !.pc = IF cache[Bare].snap = NoSnap THEN "alias" ELSE "write"])
  /\ UNCHANGED <<cache, loader, failures, alias, epoch, queue, disk, restarts, ghosts>>

\* Under the target's lock: the copy is published unless a state came first.
\* The age of the copy is that of the bare entry.
Migrate(r) ==
  /\ Ready(r, "write")
  /\ LET k == req[r].key IN
     /\ Unlocked(k)
     /\ cache[k].snap = NoSnap /\ ~cache[k].found
     /\ cache' = [cache EXCEPT ![k] = [snap |-> req[r].seen, touched |-> TRUE,
                                       loaded |-> TRUE, found |-> TRUE]]
     /\ Decide(k, req[r].seen)
     /\ Becomes(r, [req[r] EXCEPT !.pc = "alias", !.hold = Holding(k, req[r].seen)])
  /\ UNCHANGED <<loader, failures, alias, epoch, queue, disk, restarts, outcome, explicit>>

MigrateTooLate(r) ==
  /\ Ready(r, "write")
  /\ Unlocked(req[r].key)
  /\ cache[req[r].key].snap # NoSnap \/ cache[req[r].key].found
  /\ Becomes(r, [req[r] EXCEPT !.pc = "alias"])
  /\ UNCHANGED <<cache, loader, failures, alias, epoch, queue, disk, restarts, ghosts>>

\* Reuse, a new branch without state, or a state that must not be reused.
AfterAlias(handler) ==
  IF handler.safe THEN "get" ELSE IF handler.changed THEN "work" ELSE "unsafe"

SetCurrentAlias(r) ==
  /\ Ready(r, "alias")
  /\ alias' = req[r].key
  /\ cache' = Mirrored(cache, req[r].key, req[r].key)
  /\ Becomes(r, [req[r] EXCEPT !.seen = NoSnap, !.load = NoLoad,
                        !.safe = FALSE, !.changed = FALSE,
                        !.pc = AfterAlias(req[r])])
  /\ UNCHANGED <<loader, failures, epoch, queue, disk, restarts, ghosts>>

-----------------------------------------------------------------------------
(* A request: GetWithLoadResult                                            *)

\* A history that must not be reused drops the state of its key unseen.
DropUnsafe(r) ==
  /\ Ready(r, "unsafe")
  /\ Invalidate(req[r].key)
  /\ Becomes(r, [req[r] EXCEPT !.pc = "work", !.hold = Holding(req[r].key, NoSnap)])
  /\ UNCHANGED <<loader, failures, alias, epoch, queue, disk, restarts, outcome, explicit>>

LookInMemory(r) ==
  /\ Ready(r, "get")
  /\ cache[req[r].key].snap # NoSnap
  /\ Becomes(r, [req[r] EXCEPT !.pc = "snapshot", !.load = NoLoad])
  /\ UNCHANGED <<cache, loader, failures, alias, epoch, queue, disk, restarts, ghosts>>

LookOnDisk(r) ==
  /\ Ready(r, "get")
  /\ cache[req[r].key].snap = NoSnap
  /\ StartLoad(r, req[r].key, "snapshot")
  /\ UNCHANGED <<cache, failures, alias, epoch, queue, disk, restarts, ghosts>>

\* The second critical section: the state is copied, to be verified outside.
TakeSnapshot(r) ==
  /\ Ready(r, "snapshot")
  /\ LET s == cache[req[r].key].snap
         failed == req[r].load.pc = "failed" IN
     \/ /\ failed
        /\ Becomes(r, [req[r] EXCEPT !.pc = "work", !.load = NoLoad, !.result = "failed"])
     \/ /\ ~failed /\ s = NoSnap
        /\ Becomes(r, [req[r] EXCEPT !.pc = "work", !.load = NoLoad, !.result = "miss"])
     \/ /\ ~failed /\ s # NoSnap
        /\ Becomes(r, [req[r] EXCEPT !.pc = "verify", !.load = NoLoad, !.seen = s])
  /\ UNCHANGED <<cache, loader, failures, alias, epoch, queue, disk, restarts, ghosts>>

\* Mutated form: only the length and the last message are compared.
CoversBoundary(raw, h) == Len(raw) <= Len(h) /\ h[Len(raw)] = raw[Len(raw)]

\* The cutoff lies within the history and the hash of the whole prefix agrees.
Covers(raw, h) == Len(raw) <= Len(h) /\ \A i \in 1..Len(raw) : h[i] = raw[i]

\* A hit renews lastAccess, also of a state that is gone by now.
Hit(r) ==
  /\ Ready(r, "verify")
  /\ Covers(req[r].seen.raw, req[r].history)
  /\ cache' = [cache EXCEPT ![req[r].key].touched = TRUE]
  /\ Becomes(r, [req[r] EXCEPT !.pc = "work", !.result = "hit"])
  /\ UNCHANGED <<loader, failures, alias, epoch, queue, disk, restarts, ghosts>>

\* The verification failed: the key is invalidated, whatever it holds by now.
DropMismatch(r) ==
  /\ Ready(r, "verify")
  /\ ~Covers(req[r].seen.raw, req[r].history)
  /\ Invalidate(req[r].key)
  /\ Becomes(r, [req[r] EXCEPT !.pc = "work", !.result = "dropped", !.seen = NoSnap,
                        !.hold = Holding(req[r].key, NoSnap)])
  /\ UNCHANGED <<loader, failures, alias, epoch, queue, disk, restarts, outcome, explicit>>

-----------------------------------------------------------------------------
(* A request: what it does with the prefix, and StoreWithResult            *)

\* The prefix does not relieve enough: it is dropped for a new collapse.
DropInsufficient(r) ==
  /\ Ready(r, "work")
  /\ req[r].result = "hit"
  /\ Invalidate(req[r].key)
  /\ Becomes(r, [req[r] EXCEPT !.result = "dropped", !.seen = NoSnap,
                        !.hold = Holding(req[r].key, NoSnap)])
  /\ UNCHANGED <<loader, failures, alias, epoch, queue, disk, restarts, outcome, explicit>>

\* A collapse or its fallback freezes the whole history of the request, if that
\* has a hash.
Store(r) ==
  /\ Ready(r, "work")
  /\ req[r].result # "hit" /\ req[r].history # <<>>
  /\ LET k == req[r].key
         s == [raw |-> req[r].history, by |-> r] IN
     /\ Unlocked(k)
     /\ cache' = Stored(cache, k, s)
     /\ Decide(k, s)
     /\ Becomes(r, [Ended EXCEPT !.hold = Holding(k, s)])
  /\ UNCHANGED <<loader, failures, alias, epoch, queue, disk, restarts, outcome, explicit>>

\* Nothing is frozen: the pressure is low, or the collapse failed.
Finish(r) ==
  /\ Ready(r, "work")
  /\ Becomes(r, Ended)
  /\ UNCHANGED <<cache, loader, failures, alias, epoch, queue, disk, restarts, ghosts>>

-----------------------------------------------------------------------------
(* Beside the requests: the writer, Evict, and a crash                     *)

\* The persistence writer tries the writes of a key in order, each once.
WriteRow(k) ==
  /\ queue[k] # <<>>
  /\ queue' = [queue EXCEPT ![k] = Tail(@)]
  /\ \E ok \in BOOLEAN :
       /\ disk' = IF ok THEN [disk EXCEPT ![k] = Head(queue[k])] ELSE disk
       /\ explicit' = IF ok /\ Head(queue[k]) # NoSnap THEN explicit \cup {k} ELSE explicit
       /\ outcome' = IF Len(queue[k]) = 1 /\ outcome[k] = "pending"
                       THEN [outcome EXCEPT ![k] = IF ok THEN "saved" ELSE "lost"]
                       ELSE outcome
  /\ UNCHANGED <<cache, loader, failures, alias, req, epoch, restarts,
                 known, decided, authority>>

\* A mirror is never accessed after its origin, so it ages first.
MayAgeTogether(old) == alias \in old /\ cache[Bare].touched => Bare \in old

Evict(old) ==
  /\ old # {} /\ \A k \in old : cache[k].touched
  /\ MayAgeTogether(old)
  /\ cache' = [k \in Keys |-> IF k \in old THEN Absent ELSE cache[k]]
  /\ failures' = failures \ old
  /\ authority' = [k \in Keys |-> IF k \in old THEN Unknown ELSE authority[k]]
  /\ UNCHANGED <<loader, alias, req, epoch, queue, disk, restarts,
                 known, decided, outcome, explicit>>

\* The process ends with its queue; the table and the epoch remain.
Crash ==
  /\ restarts < MaxRestarts
  /\ restarts' = restarts + 1
  /\ cache' = [k \in Keys |-> Absent]
  /\ loader' = [k \in Keys |-> NoRequest]
  /\ failures' = {}
  /\ alias' = Bare
  /\ req' = [r \in Requests |-> IF req[r].pc = "idle" THEN Fresh ELSE Ended]
  /\ queue' = [k \in Keys |-> <<>>]
  /\ known' = {}
  /\ decided' = disk
  /\ outcome' = [k \in Keys |-> "saved"]
  /\ authority' = [k \in Keys |-> Unknown]
  /\ UNCHANGED <<epoch, disk, explicit>>

-----------------------------------------------------------------------------

LoadStep(r) ==
  ReadRow(r) \/ LearnRow(r) \/ RejectRow(r) \/ PublishRow(r) \/ FinishLoad(r) \/ ShareResult(r)

MigrateStep(r) ==
  \/ LoadTarget(r) \/ LoadBare(r) \/ KeepTarget(r) \/ CopyBare(r)
  \/ Migrate(r) \/ MigrateTooLate(r) \/ SetCurrentAlias(r)

UseStep(r) ==
  \/ DropUnsafe(r) \/ LookInMemory(r) \/ LookOnDisk(r) \/ TakeSnapshot(r) \/ Hit(r)
  \/ DropMismatch(r) \/ DropInsufficient(r) \/ Store(r) \/ Finish(r)

Handle(r) == Submit(r) \/ LoadStep(r) \/ MigrateStep(r) \/ UseStep(r)

YoungNext ==
  \/ \E r \in Requests : Begin(r) \/ Handle(r)
  \/ \E k \in Keys : WriteRow(k)
  \/ Crash

Next == YoungNext \/ \E old \in SUBSET Keys : Evict(old)

Spec == Init /\ [][Next]_vars

\* The behaviours in which no state gets as old as the time to live.
YoungSpec == Init /\ [][YoungNext]_vars

\* A goroutine runs until it blocks, and mutexes are handed over in turn.
FairSpec == Spec /\ \A r \in Requests : WF_vars(Handle(r))

-----------------------------------------------------------------------------
(* Properties                                                              *)

\* What a request reuses was made from the beginning of its own history, even
\* though the state may be replaced between the copy and its verification
\* (GetWithLoadResult).
ReusedPrefixFits ==
  \A r \in Requests : req[r].result = "hit" =>
    \E n \in 0..Len(req[r].history) : req[r].seen.raw = [i \in 1..n |-> req[r].history[i]]

\* A request concludes that there is no state, and falls back to the bare key or
\* collapses anew, only if this process has read the row or set the state: a
\* failed read is never taken for an absent row, neither by the reader nor by
\* those who waited for it (loadFrozenFromDB, MigrateLegacyState).
AbsenceIsKnown ==
  \A r \in Requests :
    req[r].result = "miss" \/ req[r].pc \in {"copy", "write"} => req[r].key \in known

\* What was stored stays until it is invalidated or evicted: no load that was in
\* flight puts an older row in its place (loadFrozenFromDB).
StoredStays ==
  \A k \in Keys : authority[k] \in Snapshots => cache[k].snap = authority[k]

\* Once a key's writes have been tried, the last of them with success, its row is
\* the last decision of the memory: puts and deletes reach the writer in the
\* order of the memory (frozenPersistLock).
RowIsLastDecision ==
  \A k \in Keys :
    /\ \A r \in Requests : ~(req[r].hold.held /\ req[r].hold.key = k)
    /\ queue[k] = <<>>
    /\ outcome[k] = "saved"
    => disk[k] = decided[k]

\* A state that was invalidated is not seen again until it is stored anew or the
\* key is forgotten (the mark that InvalidateWithResult keeps).
InvalidatedStaysOut ==
  \A k \in Keys : authority[k] = NoSnap => cache[k].snap = NoSnap

Migrates(r) == req[r].pc = "write" /\ req'[r].hold.held

\* The state of the bare key never returns to an epoch key that has had a row of
\* its own, not even when that row was bad and is deleted (MigrateLegacyState).
BareKeyStaysOut ==
  [][\A r \in Requests : Migrates(r) => req[r].key \notin explicit]_vars

\* Every request that has begun ends: nobody waits for ever for a load or a lock
\* (the deferred close of loadFrozenFromDB, persistLock before f.mu).
RequestsEnd == \A r \in Requests : req[r].pc # "idle" ~> req[r].pc = "done" /\ ~req[r].hold.held
=============================================================================
