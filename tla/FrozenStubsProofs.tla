------------------------- MODULE FrozenStubsProofs -------------------------
(***************************************************************************)
(* Theorems of FrozenStubs, for any number of requests, branches and       *)
(* crashes: the types, the counters and the writes, that no prefix is      *)
(* reused for another history, that no load replaces what was stored, and  *)
(* that the row of a key is what the memory decided last.                  *)
(***************************************************************************)
EXTENDS FrozenStubs, TLAPS

-----------------------------------------------------------------------------
(* The operators on the entries                                            *)

\* Keys are numbers, and the bare one is that of no branch.
LEMMA KeysInteger == Keys \subseteq Nat /\ Bare \in Keys /\ (\A k \in EpochKeys : k \in Keys /\ k # Bare)
  BY FrozenAssumption DEF Keys, EpochKeys, Bare

\* Mirroring keeps the type, and changes no entry but the bare one.
LEMMA MirroredType ==
  ASSUME NEW c \in [Keys -> Entries], NEW current \in Keys, NEW k \in Keys
  PROVE  /\ Mirrored(c, current, k) \in [Keys -> Entries]
         /\ \A j \in EpochKeys : Mirrored(c, current, k)[j] = c[j]
  BY KeysInteger DEF Mirrored, Emptied, Entries, Optional

\* An entry that is stored has the type of one.
LEMMA StoredType ==
  ASSUME NEW k \in Keys, NEW s \in Optional, TypeOK
  PROVE  /\ Stored(cache, k, s) \in [Keys -> Entries]
         /\ \A j \in EpochKeys : Stored(cache, k, s)[j] =
              IF j = k THEN [snap |-> s, touched |-> TRUE, loaded |-> TRUE, found |-> TRUE]
                       ELSE cache[j]
  <1> DEFINE c == [cache EXCEPT ![k] = [snap |-> s, touched |-> TRUE,
                                        loaded |-> TRUE, found |-> TRUE]]
  <1>1. c \in [Keys -> Entries] /\ alias \in Keys
    BY DEF TypeOK, Entries
  <1>2. \A j \in EpochKeys : c[j] =
          IF j = k THEN [snap |-> s, touched |-> TRUE, loaded |-> TRUE, found |-> TRUE]
                   ELSE cache[j]
    BY KeysInteger DEF TypeOK
  <1>3. Stored(cache, k, s) = Mirrored(c, alias, k)
    BY DEF Stored
  <1>4. Mirrored(c, alias, k) \in [Keys -> Entries]
        /\ \A j \in EpochKeys : Mirrored(c, alias, k)[j] = c[j]
    <2> HIDE DEF c
    <2> QED BY <1>1, MirroredType
  <1> HIDE DEF c
  <1> QED BY <1>2, <1>3, <1>4

\* So has an entry after a load.
LEMMA PublishedType ==
  ASSUME NEW k \in Keys, NEW s \in Optional, TypeOK
  PROVE  /\ Published(cache, k, s) \in [Keys -> Entries]
         /\ \A j \in EpochKeys : Published(cache, k, s)[j] =
              IF j = k /\ cache[k].snap = NoSnap
                THEN [cache[k] EXCEPT !.snap = s, !.touched = TRUE] ELSE cache[j]
  <1> DEFINE c == [cache EXCEPT ![k].snap = s, ![k].touched = TRUE]
  <1>1. c \in [Keys -> Entries] /\ alias \in Keys
    BY ZenonT(40) DEF TypeOK, Entries
  <1>2. \A j \in EpochKeys : c[j] =
          IF j = k THEN [cache[k] EXCEPT !.snap = s, !.touched = TRUE] ELSE cache[j]
    BY KeysInteger DEF TypeOK, Entries
  <1>3. Published(cache, k, s) = IF cache[k].snap # NoSnap THEN cache ELSE Mirrored(c, alias, k)
    BY DEF Published
  <1>4. cache \in [Keys -> Entries]
    BY DEF TypeOK
  <1> HIDE DEF c
  <1>5. CASE cache[k].snap # NoSnap
    BY <1>3, <1>4, <1>5
  <1>6. CASE cache[k].snap = NoSnap
    BY <1>1, <1>2, <1>3, <1>6, MirroredType
  <1> QED BY <1>5, <1>6

\* So has an entry without its state.
LEMMA InvalidatedType ==
  ASSUME NEW k \in Keys, TypeOK
  PROVE  /\ Invalidated(cache, k) \in [Keys -> Entries]
         /\ \A j \in EpochKeys : Invalidated(cache, k)[j] =
              IF j = k THEN [cache[j] EXCEPT !.snap = NoSnap, !.touched = FALSE, !.loaded = TRUE]
                       ELSE cache[j]
  BY KeysInteger, ZenonT(40) DEF Invalidated, Emptied, TypeOK, Entries, Optional

\* The alias of a key is a key.
LEMMA ResolveType == ASSUME NEW k \in Keys, TypeOK
                     PROVE  Resolve(k) \in Keys /\ (k \in EpochKeys => Resolve(k) = k)
  BY KeysInteger DEF Resolve, TypeOK

-----------------------------------------------------------------------------
(* Type correctness                                                        *)

\* A request at work works for an epoch.
Begun ==
  \A r \in Requests : req[r].pc \notin {"idle", "done"} => req[r].key \in EpochKeys

\* The constant records have their types.
LEMMA RecordTypes ==
  /\ NoLoad \in Loads /\ NoHold \in Holds /\ Fresh \in Handlers /\ Ended \in Handlers
  /\ Absent \in Entries
  /\ \A failed \in BOOLEAN : Loaded(failed) \in Loads
  /\ \A k \in Keys : LoadState("wait", k) \in Loads /\ LoadState("read", k) \in Loads
  /\ \A k \in Keys, value \in Optional : Holding(k, value) \in Holds
  BY KeysInteger DEF NoLoad, NoHold, Fresh, Ended, Absent, Loaded, LoadState, Holding,
     Loads, Holds, Handlers, Entries, Optional

\* One local of a load or a handler is set.
LEMMA AtType ==
  ASSUME NEW l \in Loads,
         NEW pc \in {"none", "read", "learn", "judge", "finish", "fail", "wait", "woken", "failed"}
  PROVE  At(l, pc) \in Loads
  BY DEF At, Loads

\* What the type of a handler says of its load.
LEMMA LoadOfHandler ==
  ASSUME NEW h \in Handlers
  PROVE  /\ h.load \in Loads /\ h.load.key \in Keys /\ h.load.row \in Optional \cup {Corrupt}
         /\ \A l \in Loads : [h EXCEPT !.load = l] \in Handlers
         /\ \A l \in Loads, o \in Holds : [h EXCEPT !.load = l, !.hold = o] \in Handlers
  BY DEF Handlers, Loads

\* The types hold at the start.
LEMMA TypeInit == Init => TypeOK
  <1> SUFFICES ASSUME Init PROVE TypeOK
    OBVIOUS
  <1>1. disk \in [Keys -> Optional \cup {Corrupt}]
    BY FrozenAssumption DEF Init, Optional, Snapshots
  <1>2. epoch \in Keys
    BY KeysInteger DEF Init, Keys, Bare
  <1> QED BY <1>1, <1>2, RecordTypes, KeysInteger, FrozenAssumption DEF Init, TypeOK

\* A step of one request leaves the handlers well typed if its own is.
LEMMA BecomesType ==
  ASSUME TypeOK, NEW r \in Requests, NEW h \in Handlers, Becomes(r, h)
  PROVE  req' \in [Requests -> Handlers]
  BY DEF TypeOK, Becomes

\* The head of a load keeps the types.
LEMMA StartLoadType ==
  ASSUME TypeOK, NEW r \in Requests, NEW k \in Keys, NEW next \in {"examine", "copy", "snapshot"},
         StartLoad(r, k, next)
  PROVE  req' \in [Requests -> Handlers] /\ loader' \in [Keys -> Requests \cup {NoRequest}]
  <1> DEFINE H(l) == [req[r] EXCEPT !.pc = next, !.load = l]
  <1>1. \A l \in Loads : H(l) \in Handlers
    <2> SUFFICES ASSUME NEW l \in Loads PROVE H(l) \in Handlers
      OBVIOUS
    <2>1. req[r] \in Handlers
      BY DEF TypeOK
    <2> QED BY <2>1 DEF Handlers
  <1>2. \E l \in Loads : Becomes(r, H(l))
    BY RecordTypes, ResolveType DEF StartLoad
  <1>3. loader' \in [Keys -> Requests \cup {NoRequest}]
    BY ResolveType DEF TypeOK, StartLoad
  <1> QED BY <1>1, <1>2, <1>3, BecomesType

\* An invalidation keeps the types.
LEMMA InvalidateType ==
  ASSUME TypeOK, NEW k \in Keys, Invalidate(k)
  PROVE  /\ cache' \in [Keys -> Entries]
         /\ decided' \in [Keys -> Optional \cup {Corrupt}]
         /\ authority' \in [Keys -> Optional \cup {Unknown}]
         /\ known' \subseteq Keys
  BY InvalidatedType DEF Invalidate, Decide, TypeOK, Optional

\* What the head of a load does to the locals.
LEMMA StartLoadEffect ==
  ASSUME TypeOK, NEW r \in Requests, NEW k \in Keys, NEW next \in {"examine", "copy", "snapshot"},
         StartLoad(r, k, next)
  PROVE  /\ \A q \in Requests : q # r => req'[q] = req[q]
         /\ req'[r].pc = next /\ req'[r].key = req[r].key /\ req'[r].history = req[r].history
         /\ req'[r].seen = req[r].seen /\ req'[r].result = req[r].result
         /\ req'[r].hold = req[r].hold
         /\ \/ cache[Resolve(k)].loaded /\ req'[r].load.pc = "none"
            \/ req'[r].load.pc \in {"wait", "read"} /\ req'[r].load.key = Resolve(k)
  <1> DEFINE H(l) == [req[r] EXCEPT !.pc = next, !.load = l]
  <1>1. req \in [Requests -> Handlers] /\ req[r] \in Handlers
    BY DEF TypeOK
  <1>2. \A l : Becomes(r, H(l)) =>
          /\ \A q \in Requests : q # r => req'[q] = req[q]
          /\ req'[r].pc = next /\ req'[r].key = req[r].key /\ req'[r].history = req[r].history
          /\ req'[r].seen = req[r].seen /\ req'[r].result = req[r].result
          /\ req'[r].hold = req[r].hold /\ req'[r].load = l
    BY <1>1 DEF Becomes, Handlers
  <1>3. \/ cache[Resolve(k)].loaded /\ Becomes(r, H(NoLoad))
        \/ Becomes(r, H(LoadState("wait", Resolve(k))))
        \/ Becomes(r, H(LoadState("read", Resolve(k))))
    BY DEF StartLoad
  <1>4. /\ NoLoad.pc = "none"
        /\ \A t : LoadState(t, Resolve(k)).pc = t /\ LoadState(t, Resolve(k)).key = Resolve(k)
    BY DEF NoLoad, LoadState
  <1> HIDE DEF H
  <1>5. CASE cache[Resolve(k)].loaded /\ Becomes(r, H(NoLoad))
    BY <1>2, <1>4, <1>5
  <1>6. CASE Becomes(r, H(LoadState("wait", Resolve(k))))
    BY <1>2, <1>4, <1>6
  <1>7. CASE Becomes(r, H(LoadState("read", Resolve(k))))
    BY <1>2, <1>4, <1>7
  <1> QED BY <1>3, <1>5, <1>6, <1>7

\* Taking a copy: how the lookup ends, and that the copy is what the memory holds.
LEMMA SnapshotEffect ==
  ASSUME TypeOK, NEW r \in Requests, TakeSnapshot(r)
  PROVE  /\ \A q \in Requests : q # r => req'[q] = req[q]
         /\ req'[r].key = req[r].key /\ req'[r].history = req[r].history
         /\ req'[r].hold = req[r].hold /\ req'[r].load = NoLoad /\ req'[r].load.pc = "none"
         /\ \/ req'[r].pc = "work" /\ req'[r].result = "failed"
            \/ req'[r].pc = "work" /\ req'[r].result = "miss" /\ req[r].load.pc # "failed"
            \/ /\ req'[r].pc = "verify" /\ req'[r].result = req[r].result
               /\ req[r].load.pc # "failed"
               /\ req'[r].seen = cache[req[r].key].snap /\ cache[req[r].key].snap # NoSnap
  <1> DEFINE W(t) == [req[r] EXCEPT !.pc = "work", !.load = NoLoad, !.result = t]
             V(v) == [req[r] EXCEPT !.pc = "verify", !.load = NoLoad, !.seen = v]
  <1>0. req \in [Requests -> Handlers] /\ req[r] \in Handlers
    BY DEF TypeOK
  <1>1. \A t : Becomes(r, W(t)) =>
          /\ \A q \in Requests : q # r => req'[q] = req[q]
          /\ req'[r].key = req[r].key /\ req'[r].history = req[r].history
          /\ req'[r].hold = req[r].hold /\ req'[r].load = NoLoad
          /\ req'[r].pc = "work" /\ req'[r].result = t
    BY <1>0 DEF Becomes, Handlers
  <1>2. \A v : Becomes(r, V(v)) =>
          /\ \A q \in Requests : q # r => req'[q] = req[q]
          /\ req'[r].key = req[r].key /\ req'[r].history = req[r].history
          /\ req'[r].hold = req[r].hold /\ req'[r].load = NoLoad
          /\ req'[r].pc = "verify" /\ req'[r].result = req[r].result /\ req'[r].seen = v
    BY <1>0 DEF Becomes, Handlers
  <1>3. \/ Becomes(r, W("failed"))
        \/ Becomes(r, W("miss")) /\ req[r].load.pc # "failed"
        \/ /\ Becomes(r, V(cache[req[r].key].snap))
           /\ req[r].load.pc # "failed" /\ cache[req[r].key].snap # NoSnap
    BY DEF TakeSnapshot
  <1>4. NoLoad.pc = "none"
    BY DEF NoLoad
  <1> HIDE DEF W, V
  <1>5. CASE Becomes(r, W("failed"))
    BY <1>1, <1>4, <1>5
  <1>6. CASE Becomes(r, W("miss")) /\ req[r].load.pc # "failed"
    BY <1>1, <1>4, <1>6
  <1>7. CASE /\ Becomes(r, V(cache[req[r].key].snap))
             /\ req[r].load.pc # "failed" /\ cache[req[r].key].snap # NoSnap
    BY <1>2, <1>4, <1>7
  <1> QED BY <1>3, <1>5, <1>6, <1>7

\* The steps of a load keep the types.
LEMMA LoadType ==
  ASSUME TypeOK, NEW r \in Requests, LoadStep(r) PROVE TypeOK'
  <1> DEFINE l == req[r].load
  <1>0. /\ req[r] \in Handlers /\ l \in Loads /\ l.key \in Keys
        /\ l.row \in Optional \cup {Corrupt}
    BY LoadOfHandler DEF TypeOK
  <1>1. CASE ReadRow(r)
    <2>1. /\ [At(l, "learn") EXCEPT !.row = disk[l.key]] \in Loads
          /\ At(l, "fail") \in Loads
      BY <1>0 DEF TypeOK, Loads, At
    <2>2. /\ [req[r] EXCEPT !.load = [At(@, "learn") EXCEPT !.row = disk[l.key]]] \in Handlers
          /\ [req[r] EXCEPT !.load = At(@, "fail")] \in Handlers
      BY <1>0, <2>1, LoadOfHandler
    <2>3. req' \in [Requests -> Handlers]
      BY <1>1, <2>2, BecomesType DEF ReadRow
    <2>4. known' \subseteq Keys
      BY <1>0, <1>1 DEF ReadRow, TypeOK
    <2> QED BY <1>1, <2>3, <2>4 DEF ReadRow, TypeOK
  <1>2. CASE LearnRow(r)
    <2>1. At(l, IF l.row = NoSnap THEN "finish" ELSE "judge") \in Loads
      BY <1>0, AtType
    <2>2. [req[r] EXCEPT !.load = At(@, IF l.row = NoSnap THEN "finish" ELSE "judge")] \in Handlers
      BY <1>0, <2>1, LoadOfHandler
    <2>3. req' \in [Requests -> Handlers]
      BY <1>2, <2>2, BecomesType DEF LearnRow
    <2> DEFINE e == cache[l.key]
    <2>4. e \in Entries /\ (e.found \/ l.row # NoSnap) \in BOOLEAN
      BY <1>0 DEF TypeOK
    <2>5. [e EXCEPT !.loaded = TRUE, !.found = e.found \/ l.row # NoSnap] \in Entries
      BY <2>4 DEF Entries
    <2>6. cache' = [cache EXCEPT ![l.key] =
                      [e EXCEPT !.loaded = TRUE, !.found = e.found \/ l.row # NoSnap]]
      BY <1>0, <1>2 DEF LearnRow, TypeOK
    <2>7. cache' \in [Keys -> Entries]
      <3> HIDE DEF e
      <3> QED BY <1>0, <2>5, <2>6 DEF TypeOK
    <2> QED BY <1>2, <2>3, <2>7 DEF LearnRow, TypeOK, ghosts
  <1>3. CASE RejectRow(r)
    <2> DEFINE k == Resolve(l.key)
    <2>1. k \in Keys /\ At(l, "finish") \in Loads /\ Holding(k, NoSnap) \in Holds
      BY <1>0, ResolveType, AtType, RecordTypes DEF Optional
    <2>2. [req[r] EXCEPT !.load = At(@, "finish"), !.hold = Holding(k, NoSnap)] \in Handlers
      BY <1>0, <2>1, LoadOfHandler
    <2>3. req' \in [Requests -> Handlers]
      BY <1>3, <2>2, BecomesType DEF RejectRow
    <2> QED BY <1>3, <2>1, <2>3, InvalidateType DEF RejectRow, TypeOK
  <1>4. CASE PublishRow(r)
    <2>1. [req[r] EXCEPT !.load = At(@, "finish")] \in Handlers
      BY <1>0, AtType, LoadOfHandler
    <2>2. req' \in [Requests -> Handlers]
      BY <1>4, <2>1, BecomesType DEF PublishRow
    <2>3. cache' \in [Keys -> Entries]
      BY <1>0, <1>4, PublishedType DEF PublishRow, Rejects
    <2> QED BY <1>4, <2>2, <2>3 DEF PublishRow, TypeOK, ghosts
  <1>5. CASE FinishLoad(r)
    <2>1. \A q \in Requests :
            /\ [req[q] EXCEPT !.load = Loaded(l.pc = "fail")] \in Handlers
            /\ [req[q] EXCEPT !.load = At(@, "woken")] \in Handlers
            /\ req[q] \in Handlers
      BY RecordTypes, AtType, LoadOfHandler DEF TypeOK
    <2>2. req' \in [Requests -> Handlers]
      BY <1>5, <2>1 DEF FinishLoad
    <2> QED BY <1>0, <1>5, <2>2 DEF FinishLoad, FailuresAfter, TypeOK, ghosts
  <1>6. CASE ShareResult(r)
    <2>0. Loaded(l.key \in failures) \in Loads
      BY KeysInteger DEF Loaded, NoLoad, Loads, Optional
    <2>1. [req[r] EXCEPT !.load = Loaded(l.key \in failures)] \in Handlers
      BY <1>0, <2>0, LoadOfHandler
    <2>2. req' \in [Requests -> Handlers]
      BY <1>6, <2>1, BecomesType DEF ShareResult
    <2> QED BY <1>6, <2>2 DEF ShareResult, TypeOK, ghosts
  <1> QED BY <1>1, <1>2, <1>3, <1>4, <1>5, <1>6 DEF LoadStep

\* The steps of a migration keep the types.
LEMMA MigrateType ==
  ASSUME TypeOK, NEW r \in Requests, MigrateStep(r) PROVE TypeOK'
  <1>0. req[r] \in Handlers /\ req[r].key \in Keys
    BY DEF TypeOK, Handlers
  <1>1. CASE LoadTarget(r)
    BY <1>0, <1>1, StartLoadType DEF LoadTarget, TypeOK, ghosts
  <1>2. CASE LoadBare(r)
    BY <1>0, <1>2, StartLoadType, KeysInteger DEF LoadBare, TypeOK, ghosts
  <1>3. CASE KeepTarget(r)
    <2>1. req' \in [Requests -> Handlers]
      BY <1>0, <1>3, BecomesType DEF KeepTarget, Handlers
    <2> QED BY <1>3, <2>1 DEF KeepTarget, TypeOK, ghosts
  <1>4. CASE CopyBare(r)
    <2>1. cache[Bare].snap \in Optional
      BY KeysInteger DEF TypeOK, Entries
    <2>2. req' \in [Requests -> Handlers]
      BY <1>0, <1>4, <2>1, BecomesType DEF CopyBare, Handlers
    <2> QED BY <1>4, <2>2 DEF CopyBare, TypeOK, ghosts
  <1>5. CASE Migrate(r)
    <2>1. req[r].seen \in Optional
      BY <1>0 DEF Handlers
    <2>2. req' \in [Requests -> Handlers]
      BY <1>0, <1>5, <2>1, BecomesType, RecordTypes DEF Migrate, Handlers
    <2>3. cache' \in [Keys -> Entries]
      BY <1>0, <1>5, <2>1 DEF Migrate, TypeOK, Entries
    <2> QED BY <1>0, <1>5, <2>1, <2>2, <2>3 DEF Migrate, Decide, TypeOK
  <1>6. CASE MigrateTooLate(r)
    <2>1. req' \in [Requests -> Handlers]
      BY <1>0, <1>6, BecomesType DEF MigrateTooLate, Handlers
    <2> QED BY <1>6, <2>1 DEF MigrateTooLate, TypeOK, ghosts
  <1>7. CASE SetCurrentAlias(r)
    <2> DEFINE h == [req[r] EXCEPT !.seen = NoSnap, !.load = NoLoad, !.safe = FALSE,
                                   !.changed = FALSE, !.pc = AfterAlias(req[r])]
    <2>4. AfterAlias(req[r]) \in {"get", "work", "unsafe"}
      BY DEF AfterAlias
    <2>0. h \in Handlers
      BY <1>0, <2>4, RecordTypes, ZenonT(40) DEF Handlers, Optional
    <2>1. req' \in [Requests -> Handlers]
      BY <1>7, <2>0, BecomesType DEF SetCurrentAlias
    <2>2. cache' \in [Keys -> Entries]
      BY <1>0, <1>7, MirroredType DEF SetCurrentAlias, TypeOK
    <2> QED BY <1>0, <1>7, <2>1, <2>2 DEF SetCurrentAlias, TypeOK, ghosts
  <1> QED BY <1>1, <1>2, <1>3, <1>4, <1>5, <1>6, <1>7 DEF MigrateStep

\* The steps that use and store a prefix keep the types.
LEMMA UseType ==
  ASSUME TypeOK, Begun, NEW r \in Requests, UseStep(r) PROVE TypeOK'
  <1>0. req[r] \in Handlers /\ req[r].key \in Keys
    BY DEF TypeOK, Handlers
  <1>1. CASE DropUnsafe(r)
    <2>1. req' \in [Requests -> Handlers]
      BY <1>0, <1>1, BecomesType, RecordTypes DEF DropUnsafe, Handlers, Optional
    <2> QED BY <1>0, <1>1, <2>1, InvalidateType DEF DropUnsafe, TypeOK
  <1>2. CASE LookInMemory(r)
    <2>1. req' \in [Requests -> Handlers]
      BY <1>0, <1>2, BecomesType, RecordTypes DEF LookInMemory, Handlers
    <2> QED BY <1>2, <2>1 DEF LookInMemory, TypeOK, ghosts
  <1>3. CASE LookOnDisk(r)
    BY <1>0, <1>3, StartLoadType DEF LookOnDisk, TypeOK, ghosts
  <1>4. CASE TakeSnapshot(r)
    <2>1. cache[req[r].key].snap \in Optional /\ NoSnap \in Optional
      BY <1>0 DEF TypeOK, Entries, Optional
    <2>2. /\ [req[r] EXCEPT !.pc = "work", !.load = NoLoad, !.result = "failed"] \in Handlers
          /\ [req[r] EXCEPT !.pc = "work", !.load = NoLoad, !.result = "miss"] \in Handlers
      BY <1>0, RecordTypes DEF Handlers
    <2>3. [req[r] EXCEPT !.pc = "verify", !.load = NoLoad, !.seen = cache[req[r].key].snap] \in Handlers
      BY <1>0, <2>1, RecordTypes DEF Handlers
    <2>4. req' \in [Requests -> Handlers]
      BY <1>4, <2>2, <2>3, BecomesType DEF TakeSnapshot
    <2> QED BY <1>4, <2>4 DEF TakeSnapshot, TypeOK, ghosts
  <1>5. CASE Hit(r)
    <2>1. req' \in [Requests -> Handlers]
      BY <1>0, <1>5, BecomesType DEF Hit, Handlers
    <2>2. cache' \in [Keys -> Entries]
      BY <1>0, <1>5 DEF Hit, TypeOK, Entries
    <2> QED BY <1>5, <2>1, <2>2 DEF Hit, TypeOK, ghosts
  <1>6. CASE DropMismatch(r)
    <2>1. req' \in [Requests -> Handlers]
      BY <1>0, <1>6, BecomesType, RecordTypes DEF DropMismatch, Handlers, Optional
    <2> QED BY <1>0, <1>6, <2>1, InvalidateType DEF DropMismatch, TypeOK
  <1>7. CASE DropInsufficient(r)
    <2>1. req' \in [Requests -> Handlers]
      BY <1>0, <1>7, BecomesType, RecordTypes DEF DropInsufficient, Handlers, Optional
    <2> QED BY <1>0, <1>7, <2>1, InvalidateType DEF DropInsufficient, TypeOK
  <1>8. CASE Store(r)
    <2> DEFINE k == req[r].key
               s == [raw |-> req[r].history, by |-> r]
    <2>1. s \in Optional
      BY <1>0, <1>8 DEF Store, Handlers, Optional, Snapshots
    <2>2. [Ended EXCEPT !.hold = Holding(k, s)] \in Handlers
      BY <1>0, <2>1, RecordTypes DEF Handlers
    <2>3. req' \in [Requests -> Handlers]
      BY <1>8, <2>2, BecomesType DEF Store
    <2>4. cache' \in [Keys -> Entries]
      BY <1>0, <1>8, <2>1, StoredType DEF Store
    <2> HIDE DEF s
    <2>5. /\ decided' = [decided EXCEPT ![k] = s]
          /\ authority' = [authority EXCEPT ![k] = s]
          /\ known' = known \cup {k}
      BY <1>8 DEF Store, Decide, s
    <2> QED BY <1>0, <1>8, <2>1, <2>3, <2>4, <2>5 DEF Store, TypeOK
  <1>9. CASE Finish(r)
    BY <1>9, BecomesType, RecordTypes DEF Finish, TypeOK, ghosts
  <1> QED BY <1>1, <1>2, <1>3, <1>4, <1>5, <1>6, <1>7, <1>8, <1>9 DEF UseStep

\* Every step keeps the types.
LEMMA TypeStep == TypeOK /\ Begun /\ [Next]_vars => TypeOK'
  <1> SUFFICES ASSUME TypeOK, Begun, [Next]_vars PROVE TypeOK'
    OBVIOUS
  <1>1. CASE \E r \in Requests : Begin(r)
    <2> PICK r \in Requests : Begin(r)
      BY <1>1
    <2>1. epoch' \in Keys
      BY FrozenAssumption DEF Begin, TypeOK, Keys, EpochKeys, Bare
    <2>2. req' \in [Requests -> Handlers]
      BY <2>1, BecomesType, RecordTypes, ZenonT(40) DEF Begin, Handlers
    <2> QED BY <2>1, <2>2 DEF Begin, TypeOK, ghosts
  <1>2. CASE \E r \in Requests : Submit(r)
    <2> PICK r \in Requests : Submit(r)
      BY <1>2
    <2>1. req[r].hold.key \in Keys /\ req[r].hold.value \in Optional
      BY DEF TypeOK, Handlers, Holds
    <2>2. [req[r] EXCEPT !.hold = NoHold] \in Handlers
      BY RecordTypes, ZenonT(40) DEF TypeOK, Handlers
    <2>3. req' \in [Requests -> Handlers]
      BY <2>2, BecomesType DEF Submit
    <2>4. Append(queue[req[r].hold.key], req[r].hold.value) \in Seq(Optional)
      BY <2>1 DEF TypeOK
    <2>5. queue' \in [Keys -> Seq(Optional)]
      BY <2>1, <2>4 DEF Submit, TypeOK
    <2> QED BY <2>1, <2>3, <2>5 DEF Submit, TypeOK
  <1>3. CASE \E r \in Requests : LoadStep(r) \/ MigrateStep(r) \/ UseStep(r)
    BY <1>3, LoadType, MigrateType, UseType
  <1>4. CASE \E k \in Keys : WriteRow(k)
    <2> PICK k \in Keys : WriteRow(k)
      BY <1>4
    <2>1. queue[k] \in Seq(Optional) /\ queue[k] # <<>>
      BY DEF WriteRow, TypeOK
    <2>2. Head(queue[k]) \in Optional /\ Tail(queue[k]) \in Seq(Optional)
      BY <2>1
    <2> QED BY <2>2 DEF WriteRow, TypeOK
  <1>5. CASE \E old \in SUBSET Keys : Evict(old)
    BY <1>5, RecordTypes DEF Evict, TypeOK
  <1>6. CASE Crash
    BY <1>6, RecordTypes, KeysInteger, FrozenAssumption DEF Crash, TypeOK
  <1>7. CASE UNCHANGED vars
    BY <1>7 DEF vars, ghosts, TypeOK
  <1> QED BY <1>1, <1>2, <1>3, <1>4, <1>5, <1>6, <1>7 DEF Next, YoungNext, Handle

\* A request that works has the key of a branch.
LEMMA BegunStep == TypeOK /\ Begun /\ [Next]_vars => Begun'
  <1> SUFFICES ASSUME TypeOK, Begun, [Next]_vars PROVE Begun'
    OBVIOUS
  <1> USE DEF Begun, Becomes
  <1>1. ASSUME NEW r \in Requests, Begin(r) PROVE Begun'
    <2>1. epoch' \in EpochKeys
      BY <1>1, FrozenAssumption DEF Begin, TypeOK, Keys, EpochKeys, Bare
    <2> QED BY <1>1, <2>1 DEF Begin, TypeOK, Handlers, Fresh
  <1>2. ASSUME NEW r \in Requests, Submit(r) PROVE Begun'
    BY <1>2 DEF Submit, TypeOK, Handlers
  <1>3. ASSUME NEW r \in Requests, LoadStep(r) PROVE Begun'
    <2>0. req[r] \in Handlers /\ req \in [Requests -> Handlers]
      BY DEF TypeOK
    <2>1. CASE ReadRow(r)
      BY <2>0, <2>1 DEF ReadRow, Handlers
    <2>2. CASE LearnRow(r)
      BY <2>0, <2>2 DEF LearnRow, Handlers
    <2>3. CASE RejectRow(r)
      BY <2>0, <2>3 DEF RejectRow, Handlers
    <2>4. CASE PublishRow(r)
      BY <2>0, <2>4 DEF PublishRow, Handlers
    <2>5. CASE FinishLoad(r)
      BY <2>0, <2>5 DEF FinishLoad, Handlers
    <2>6. CASE ShareResult(r)
      BY <2>0, <2>6 DEF ShareResult, Handlers
    <2> QED BY <1>3, <2>1, <2>2, <2>3, <2>4, <2>5, <2>6 DEF LoadStep
  <1>4. ASSUME NEW r \in Requests, MigrateStep(r) PROVE Begun'
    <2>0. req[r] \in Handlers /\ req \in [Requests -> Handlers]
      BY DEF TypeOK
    <2>1. CASE LoadTarget(r)
      <3>1. req[r].key \in Keys
        BY <2>0 DEF Handlers
      <3> QED BY <2>1, <3>1, StartLoadEffect DEF LoadTarget, Ready
    <2>2. CASE LoadBare(r)
      BY <2>0, <2>2, StartLoadEffect, KeysInteger DEF LoadBare, Ready, Handlers
    <2>3. CASE KeepTarget(r)
      BY <2>0, <2>3 DEF KeepTarget, Ready, Handlers
    <2>4. CASE CopyBare(r)
      BY <2>0, <2>4 DEF CopyBare, Ready, Handlers
    <2>5. CASE Migrate(r)
      BY <2>0, <2>5 DEF Migrate, Ready, Handlers
    <2>6. CASE MigrateTooLate(r)
      BY <2>0, <2>6 DEF MigrateTooLate, Ready, Handlers
    <2>7. CASE SetCurrentAlias(r)
      BY <2>0, <2>7 DEF SetCurrentAlias, Ready, Handlers
    <2> QED BY <1>4, <2>1, <2>2, <2>3, <2>4, <2>5, <2>6, <2>7 DEF MigrateStep
  <1>5. ASSUME NEW r \in Requests, UseStep(r) PROVE Begun'
    <2>0. req[r] \in Handlers /\ req \in [Requests -> Handlers]
      BY DEF TypeOK
    <2>1. CASE DropUnsafe(r)
      BY <2>0, <2>1 DEF DropUnsafe, Ready, Handlers
    <2>2. CASE LookInMemory(r)
      BY <2>0, <2>2 DEF LookInMemory, Ready, Handlers
    <2>3. CASE LookOnDisk(r)
      <3>1. req[r].key \in Keys
        BY <2>0 DEF Handlers
      <3> QED BY <2>3, <3>1, StartLoadEffect DEF LookOnDisk, Ready
    <2>4. CASE TakeSnapshot(r)
      BY <2>0, <2>4, SnapshotEffect DEF TakeSnapshot, Ready
    <2>5. CASE Hit(r)
      BY <2>0, <2>5 DEF Hit, Ready, Handlers
    <2>6. CASE DropMismatch(r)
      BY <2>0, <2>6 DEF DropMismatch, Ready, Handlers
    <2>7. CASE DropInsufficient(r)
      BY <2>0, <2>7 DEF DropInsufficient, Ready, Handlers
    <2>8. CASE Store(r)
      BY <2>0, <2>8 DEF Store, Ended, Fresh, Handlers
    <2>9. CASE Finish(r)
      BY <2>0, <2>9 DEF Finish, Ended, Fresh, Handlers
    <2> QED BY <1>5, <2>1, <2>2, <2>3, <2>4, <2>5, <2>6, <2>7, <2>8, <2>9 DEF UseStep
  <1>6. CASE \/ \E k \in Keys : WriteRow(k)
             \/ \E old \in SUBSET Keys : Evict(old)
             \/ UNCHANGED vars
    BY <1>6 DEF WriteRow, Evict, vars
  <1>7. CASE Crash
    BY <1>7 DEF Crash, Ended, Fresh, TypeOK
  <1> QED BY <1>1, <1>2, <1>3, <1>4, <1>5, <1>6, <1>7 DEF Next, YoungNext, Handle

\* The types and the branches of the requests, of every reachable state.
LEMMA TypeInvariant == Spec => [](TypeOK /\ Begun)
  <1>1. Init => Begun
    BY DEF Init, Begun, Fresh
  <1> QED BY <1>1, TypeInit, TypeStep, BegunStep, PTL DEF Spec

\* Every variable keeps its type.
THEOREM TypeCorrect == Spec => []TypeOK
  BY TypeInvariant, PTL

-----------------------------------------------------------------------------
(* A failed read is never taken for an absent row                          *)

\* What is in memory, and what a load learnt, was read or set by this process.
MemoryIsKnown ==
  \A k \in EpochKeys : cache[k].loaded \/ cache[k].touched \/ cache[k].snap # NoSnap => k \in known

LoadIsKnown(r) ==
  LET l == req[r].load IN
  /\ l.pc \in {"learn", "judge", "finish"} => l.key \in known
  /\ l.pc = "woken" /\ l.key \in EpochKeys /\ l.key \notin failures => l.key \in known

\* A request whose load of its own key has not failed knows the key.
ResultIsKnown(r) ==
  /\ req[r].pc \in {"examine", "snapshot"} =>
       /\ req[r].load.pc = "none" => req[r].key \in known
       /\ req[r].load.pc \notin {"none", "failed"} => req[r].load.key = req[r].key
  /\ req[r].pc \in {"copy", "write", "verify"} => req[r].key \in known
  /\ req[r].result = "miss" => req[r].pc = "work" /\ req[r].key \in known

KnownInv == MemoryIsKnown /\ \A r \in Requests : LoadIsKnown(r) /\ ResultIsKnown(r)

\* What is known at the start: nothing is in memory.
LEMMA KnownInit == Init => KnownInv
  BY KeysInteger DEF Init, KnownInv, MemoryIsKnown, LoadIsKnown, ResultIsKnown, Absent, Fresh, NoLoad

\* A step of r that keeps the failures and forgets nothing need only be examined for r.
LEMMA KnownLocal ==
  ASSUME TypeOK, KnownInv, NEW r \in Requests,
         \A q \in Requests : q # r => req'[q] = req[q],
         failures' = failures, known \subseteq known',
         MemoryIsKnown', LoadIsKnown(r)', ResultIsKnown(r)'
  PROVE  KnownInv'
  BY DEF KnownInv, LoadIsKnown, ResultIsKnown

\* A submission changes neither the memory nor what is known.
LEMMA KnownSubmit ==
  ASSUME TypeOK, Begun, KnownInv, NEW r \in Requests, Submit(r) PROVE KnownInv'
  <1>1. /\ req \in [Requests -> Handlers]
        /\ req' = [req EXCEPT ![r] = [req[r] EXCEPT !.hold = NoHold]]
        /\ UNCHANGED <<cache, failures, known>>
    BY DEF Submit, Becomes, TypeOK
  <1>2. \A q \in Requests : q # r => req'[q] = req[q]
    BY <1>1
  <1>3. req'[r] = [req[r] EXCEPT !.hold = NoHold]
    BY <1>1
  <1>4. /\ req'[r].pc = req[r].pc /\ req'[r].key = req[r].key
        /\ req'[r].load = req[r].load /\ req'[r].result = req[r].result
    BY <1>1, <1>3 DEF Handlers
  <1>5. MemoryIsKnown' /\ LoadIsKnown(r)' /\ ResultIsKnown(r)'
    BY <1>1, <1>4 DEF KnownInv, MemoryIsKnown, LoadIsKnown, ResultIsKnown
  <1>6. QED
    BY <1>1, <1>2, <1>5, KnownLocal

\* A load that is past its read knows its key; a failed one publishes nothing.
LEMMA KnownLoad ==
  ASSUME TypeOK, Begun, KnownInv, NEW r \in Requests, LoadStep(r) PROVE KnownInv'
  <1> USE DEF KnownInv
  <1>0. /\ req \in [Requests -> Handlers] /\ req[r] \in Handlers /\ req[r].load \in Loads
        /\ LoadIsKnown(r) /\ ResultIsKnown(r)
    BY LoadOfHandler DEF TypeOK
  <1>1. CASE ReadRow(r)
    <2>1. /\ \A q \in Requests : q # r => req'[q] = req[q]
          /\ req'[r].pc = req[r].pc /\ req'[r].key = req[r].key /\ req'[r].result = req[r].result
          /\ req'[r].load.key = req[r].load.key
          /\ \/ req'[r].load.pc = "learn" /\ known' = known \cup {req[r].load.key}
             \/ req'[r].load.pc = "fail" /\ known' = known
      <3>1. CASE Becomes(r, [req[r] EXCEPT !.load = At(@, "fail")]) /\ known' = known
        BY <1>0, <3>1 DEF Becomes, At, Handlers, Loads
      <3>2. CASE /\ Becomes(r, [req[r] EXCEPT !.load = [At(@, "learn") EXCEPT
                                                          !.row = disk[req[r].load.key]]])
                 /\ known' = known \cup {req[r].load.key}
        BY <1>0, <3>2 DEF Becomes, At, Handlers, Loads
      <3> QED BY <1>1, <3>1, <3>2 DEF ReadRow
    <2>2. MemoryIsKnown' /\ LoadIsKnown(r)' /\ ResultIsKnown(r)'
      BY <1>0, <1>1, <2>1 DEF ReadRow, MemoryIsKnown, LoadIsKnown, ResultIsKnown
    <2> QED BY <1>1, <2>1, <2>2, KnownLocal DEF ReadRow
  <1>2. CASE LearnRow(r)
    <2>1. /\ \A q \in Requests : q # r => req'[q] = req[q]
          /\ req'[r].pc = req[r].pc /\ req'[r].key = req[r].key /\ req'[r].result = req[r].result
          /\ req'[r].load.key = req[r].load.key /\ req'[r].load.pc \in {"judge", "finish"}
      BY <1>0, <1>2 DEF LearnRow, Becomes, At, Handlers, Loads
    <2>2. known' = known /\ failures' = failures /\ req[r].load.pc = "learn"
      BY <1>2 DEF LearnRow, ghosts
    <2>3. MemoryIsKnown'
      <3>1. \A j \in Keys : j # req[r].load.key => cache'[j] = cache[j]
        BY <1>2 DEF LearnRow, TypeOK
      <3>2. req[r].load.key \in known
        BY <1>0, <2>2 DEF LoadIsKnown
      <3> QED BY <2>2, <3>1, <3>2, KeysInteger DEF MemoryIsKnown
    <2>4. LoadIsKnown(r)' /\ ResultIsKnown(r)'
      BY <1>0, <2>1, <2>2 DEF LoadIsKnown, ResultIsKnown
    <2> QED BY <2>1, <2>2, <2>3, <2>4, KnownLocal
  <1>3. CASE RejectRow(r)
    <2>1. /\ \A q \in Requests : q # r => req'[q] = req[q]
          /\ req'[r].pc = req[r].pc /\ req'[r].key = req[r].key /\ req'[r].result = req[r].result
          /\ req'[r].load.key = req[r].load.key /\ req'[r].load.pc = "finish"
      BY <1>0, <1>3 DEF RejectRow, Becomes, At, Handlers, Loads
    <2>2. known \subseteq known' /\ failures' = failures
      BY <1>3 DEF RejectRow, Invalidate, Decide
    <2>3. MemoryIsKnown'
      <3> DEFINE k == Resolve(req[r].load.key)
      <3>1. k \in Keys /\ cache' = Invalidated(cache, k) /\ k \in known'
        BY <1>0, <1>3, ResolveType DEF RejectRow, Invalidate, Decide, Loads
      <3> QED BY <2>2, <3>1, InvalidatedType DEF MemoryIsKnown
    <2>4. LoadIsKnown(r)' /\ ResultIsKnown(r)'
      BY <1>0, <1>3, <2>1, <2>2 DEF RejectRow, LoadIsKnown, ResultIsKnown
    <2> QED BY <2>1, <2>2, <2>3, <2>4, KnownLocal
  <1>4. CASE PublishRow(r)
    <2>1. /\ \A q \in Requests : q # r => req'[q] = req[q]
          /\ req'[r].pc = req[r].pc /\ req'[r].key = req[r].key /\ req'[r].result = req[r].result
          /\ req'[r].load.key = req[r].load.key /\ req'[r].load.pc = "finish"
      BY <1>0, <1>4 DEF PublishRow, Becomes, At, Handlers, Loads
    <2>2. known' = known /\ failures' = failures
      BY <1>4 DEF PublishRow, ghosts
    <2>3. MemoryIsKnown'
      <3> DEFINE k == req[r].load.key
                 row == req[r].load.row
      <3>1. /\ k \in Keys /\ row \in Optional /\ cache' = Published(cache, k, row)
            /\ k \in known'
        BY <1>0, <1>4, <2>2 DEF PublishRow, Rejects, Loads, LoadIsKnown
      <3>2. \A j \in EpochKeys : j = k \/ cache'[j] = cache[j]
        BY <3>1, PublishedType
      <3> QED BY <2>2, <3>1, <3>2 DEF MemoryIsKnown
    <2>4. LoadIsKnown(r)' /\ ResultIsKnown(r)'
      BY <1>0, <1>4, <2>1, <2>2 DEF PublishRow, LoadIsKnown, ResultIsKnown
    <2> QED BY <2>1, <2>2, <2>3, <2>4, KnownLocal
  <1>5. CASE FinishLoad(r)
    <2> DEFINE k == req[r].load.key
               failed == req[r].load.pc = "fail"
    <2>1. /\ req[r].load.pc \in {"finish", "fail"} /\ known' = known /\ cache' = cache
          /\ failures' = IF failed THEN failures \cup {k} ELSE failures \ {k}
          /\ ~failed => k \in known
      BY <1>0, <1>5 DEF FinishLoad, FailuresAfter, LoadIsKnown, ghosts
    <2>2. /\ req'[r].pc = req[r].pc /\ req'[r].key = req[r].key /\ req'[r].result = req[r].result
          /\ req'[r].load.pc = IF failed THEN "failed" ELSE "none"
      <3>1. req'[r] = [req[r] EXCEPT !.load = Loaded(failed)]
        BY <1>5, <2>1 DEF FinishLoad, Wakes
      <3>2. Loaded(failed).pc = IF failed THEN "failed" ELSE "none"
        BY DEF Loaded, NoLoad
      <3> HIDE DEF failed
      <3> QED BY <1>0, <3>1, <3>2 DEF Handlers
    <2>3. ASSUME NEW q \in Requests, q # r
          PROVE  /\ req'[q].pc = req[q].pc /\ req'[q].key = req[q].key
                 /\ req'[q].result = req[q].result /\ req'[q].load.key = req[q].load.key
                 /\ \/ req'[q].load.pc = req[q].load.pc
                    \/ /\ req[q].load.pc = "wait" /\ req'[q].load.pc = "woken"
                       /\ req[q].load.key = k
      <3>1. req[q] \in Handlers /\ req[q].load \in Loads
        BY <1>0, LoadOfHandler
      <3>2. req'[q] = IF q \in Wakes(k, r) THEN [req[q] EXCEPT !.load = At(@, "woken")] ELSE req[q]
        BY <1>5, <2>3 DEF FinishLoad
      <3>3. CASE q \in Wakes(k, r)
        BY <3>1, <3>2, <3>3 DEF Wakes, At, Handlers, Loads
      <3> QED BY <3>2, <3>3
    <2> HIDE DEF k, failed
    <2>4. MemoryIsKnown'
      BY <2>1 DEF MemoryIsKnown
    <2>5. LoadIsKnown(r)' /\ ResultIsKnown(r)'
      BY <1>0, <2>1, <2>2 DEF LoadIsKnown, ResultIsKnown, k, failed
    <2>6. ASSUME NEW q \in Requests, q # r PROVE LoadIsKnown(q)' /\ ResultIsKnown(q)'
      BY <2>1, <2>3, <2>6 DEF LoadIsKnown, ResultIsKnown
    <2> QED BY <2>4, <2>5, <2>6
  <1>6. CASE ShareResult(r)
    BY <1>0, <1>6
    DEF ShareResult, Becomes, Loaded, NoLoad, Handlers, Loads, MemoryIsKnown,
        LoadIsKnown, ResultIsKnown, Begun, ghosts
  <1> QED BY <1>1, <1>2, <1>3, <1>4, <1>5, <1>6 DEF LoadStep

\* A migration looks at the bare key only after its own was read.
LEMMA KnownMigrate ==
  ASSUME TypeOK, Begun, KnownInv, NEW r \in Requests, MigrateStep(r) PROVE KnownInv'
  <1> USE DEF KnownInv
  <1>a. /\ req \in [Requests -> Handlers] /\ req[r] \in Handlers /\ req[r].load \in Loads
        /\ req[r].key \in Keys
    BY DEF TypeOK, Handlers
  <1>b. LoadIsKnown(r) /\ ResultIsKnown(r) /\ MemoryIsKnown
    OBVIOUS
  <1>0. /\ req \in [Requests -> Handlers] /\ req[r] \in Handlers /\ req[r].load \in Loads
        /\ req[r].key \in Keys /\ LoadIsKnown(r) /\ ResultIsKnown(r) /\ MemoryIsKnown
    BY <1>a, <1>b
  <1>1. CASE LoadTarget(r)
    <2>1. req[r].key \in EpochKeys /\ Resolve(req[r].key) = req[r].key
      BY <1>0, <1>1, ResolveType DEF LoadTarget, Ready, Begun
    <2>2. failures' = failures /\ known' = known /\ cache' = cache
      BY <1>1 DEF LoadTarget, ghosts
    <2>3. LoadIsKnown(r)' /\ ResultIsKnown(r)' /\ \A q \in Requests : q # r => req'[q] = req[q]
      BY <1>0, <1>1, <2>1, <2>2, StartLoadEffect
      DEF LoadTarget, Ready, LoadIsKnown, ResultIsKnown, MemoryIsKnown
    <2> QED BY <2>2, <2>3, KnownLocal DEF MemoryIsKnown
  <1>2. CASE LoadBare(r)
    <2>1. req[r].key \in known
      BY <1>0, <1>2 DEF LoadBare, TargetEmpty, Ready, ResultIsKnown
    <2>2. failures' = failures /\ known' = known /\ cache' = cache
      BY <1>2 DEF LoadBare, ghosts
    <2>3. LoadIsKnown(r)' /\ ResultIsKnown(r)' /\ \A q \in Requests : q # r => req'[q] = req[q]
      BY <1>0, <1>2, <2>1, <2>2, StartLoadEffect, KeysInteger
      DEF LoadBare, Ready, LoadIsKnown, ResultIsKnown
    <2> QED BY <2>2, <2>3, KnownLocal DEF MemoryIsKnown
  <1>3. CASE KeepTarget(r)
    BY <1>0, <1>3 DEF KeepTarget, Becomes, Ready, Handlers, MemoryIsKnown, LoadIsKnown, ResultIsKnown, ghosts
  <1>4. CASE CopyBare(r)
    BY <1>0, <1>4 DEF CopyBare, Becomes, Ready, Handlers, MemoryIsKnown, LoadIsKnown, ResultIsKnown, ghosts
  <1>5. CASE Migrate(r)
    <2>1. known' = known \cup {req[r].key} /\ failures' = failures
      BY <1>5 DEF Migrate, Decide
    <2>2. MemoryIsKnown'
      BY <1>0, <1>5, <2>1, KeysInteger DEF Migrate, MemoryIsKnown, TypeOK
    <2>3. LoadIsKnown(r)' /\ ResultIsKnown(r)' /\ \A q \in Requests : q # r => req'[q] = req[q]
      BY <1>0, <1>5, <2>1 DEF Migrate, Becomes, Ready, Handlers, LoadIsKnown, ResultIsKnown
    <2> QED BY <2>1, <2>2, <2>3, KnownLocal
  <1>6. CASE MigrateTooLate(r)
    BY <1>0, <1>6 DEF MigrateTooLate, Becomes, Ready, Handlers, MemoryIsKnown, LoadIsKnown, ResultIsKnown, ghosts
  <1>7. CASE SetCurrentAlias(r)
    <2>1. known' = known /\ failures' = failures
      BY <1>7 DEF SetCurrentAlias, ghosts
    <2>2. MemoryIsKnown'
      <3>1. cache' = Mirrored(cache, req[r].key, req[r].key) /\ cache \in [Keys -> Entries]
        BY <1>7 DEF SetCurrentAlias, TypeOK
      <3>2. \A k \in EpochKeys : cache'[k] = cache[k]
        BY <1>0, <3>1, MirroredType
      <3> QED BY <1>0, <2>1, <3>2 DEF MemoryIsKnown
    <2>3. LoadIsKnown(r)' /\ ResultIsKnown(r)' /\ \A q \in Requests : q # r => req'[q] = req[q]
      BY <1>0, <1>7, <2>1
      DEF SetCurrentAlias, AfterAlias, Becomes, NoLoad, Ready, Handlers, LoadIsKnown, ResultIsKnown
    <2> QED BY <2>1, <2>2, <2>3, KnownLocal
  <1> QED BY <1>1, <1>2, <1>3, <1>4, <1>5, <1>6, <1>7 DEF MigrateStep

\* Invalidating a key only forgets its state.
LEMMA KnownInvalidate ==
  ASSUME TypeOK, KnownInv, NEW k \in Keys, Invalidate(k)
  PROVE  MemoryIsKnown' /\ known \subseteq known'
  BY InvalidatedType DEF Invalidate, Decide, KnownInv, MemoryIsKnown

\* What is stored or invalidated is known.
LEMMA KnownUse ==
  ASSUME TypeOK, Begun, KnownInv, NEW r \in Requests, UseStep(r) PROVE KnownInv'
  <1> USE DEF KnownInv
  <1>a. /\ req \in [Requests -> Handlers] /\ req[r] \in Handlers /\ req[r].load \in Loads
        /\ req[r].key \in Keys
    BY DEF TypeOK, Handlers
  <1>b. LoadIsKnown(r) /\ ResultIsKnown(r) /\ MemoryIsKnown
    OBVIOUS
  <1>0. /\ req \in [Requests -> Handlers] /\ req[r] \in Handlers /\ req[r].load \in Loads
        /\ req[r].key \in Keys /\ LoadIsKnown(r) /\ ResultIsKnown(r) /\ MemoryIsKnown
    BY <1>a, <1>b
  <1> DEFINE Local == LoadIsKnown(r)' /\ ResultIsKnown(r)' /\ \A q \in Requests : q # r => req'[q] = req[q]
  <1>1. CASE DropUnsafe(r)
    <2>1. MemoryIsKnown' /\ known \subseteq known' /\ failures' = failures
      BY <1>0, <1>1, KnownInvalidate DEF DropUnsafe
    <2>2. Local
      BY <1>0, <1>1, <2>1 DEF DropUnsafe, Becomes, Ready, Handlers, LoadIsKnown, ResultIsKnown
    <2> QED BY <2>1, <2>2, KnownLocal
  <1>2. CASE LookInMemory(r)
    <2>1. known' = known /\ failures' = failures /\ cache' = cache
      BY <1>2 DEF LookInMemory, ghosts
    <2>2. req[r].key \in known
      BY <1>0, <1>2 DEF LookInMemory, Ready, Begun, MemoryIsKnown
    <2>3. Local
      BY <1>0, <1>2, <2>1, <2>2 DEF LookInMemory, Becomes, Ready, NoLoad, Handlers, LoadIsKnown, ResultIsKnown
    <2> QED BY <1>0, <2>1, <2>3, KnownLocal DEF MemoryIsKnown
  <1>3. CASE LookOnDisk(r)
    <2>1. req[r].key \in EpochKeys /\ Resolve(req[r].key) = req[r].key
      BY <1>0, <1>3, ResolveType DEF LookOnDisk, Ready, Begun
    <2>2. failures' = failures /\ known' = known /\ cache' = cache
      BY <1>3 DEF LookOnDisk, ghosts
    <2>3. Local
      BY <1>0, <1>3, <2>1, <2>2, StartLoadEffect
      DEF LookOnDisk, Ready, LoadIsKnown, ResultIsKnown, MemoryIsKnown
    <2> QED BY <1>0, <2>2, <2>3, KnownLocal DEF MemoryIsKnown
  <1>4. CASE TakeSnapshot(r)
    <2>1. known' = known /\ failures' = failures /\ cache' = cache
      BY <1>4 DEF TakeSnapshot, ghosts
    <2>2. req[r].pc = "snapshot" /\ req[r].load.pc \in {"none", "failed"}
      BY <1>4 DEF TakeSnapshot, Ready
    <2>3. Local
      <3>1. req[r].result # "miss" /\ (req[r].load.pc # "failed" => req[r].key \in known)
        BY <1>0, <2>2 DEF ResultIsKnown
      <3>2. CASE req'[r].pc = "work"
        BY <1>4, <2>1, <3>1, <3>2, SnapshotEffect DEF LoadIsKnown, ResultIsKnown
      <3>3. CASE req'[r].pc = "verify" /\ req'[r].result = req[r].result
        BY <1>0, <1>4, <2>1, <2>2, <3>1, <3>3, SnapshotEffect DEF LoadIsKnown, ResultIsKnown, TakeSnapshot
      <3> QED BY <1>4, <3>2, <3>3, SnapshotEffect
    <2> QED BY <1>0, <2>1, <2>3, KnownLocal DEF MemoryIsKnown
  <1>5. CASE Hit(r)
    <2>1. known' = known /\ failures' = failures
      BY <1>5 DEF Hit, ghosts
    <2>2. \A k \in EpochKeys : k = req[r].key \/ cache'[k] = cache[k]
      BY <1>0, <1>5, KeysInteger DEF Hit, TypeOK
    <2>3. req[r].key \in known
      BY <1>0, <1>5 DEF Hit, Ready, ResultIsKnown
    <2>4. Local
      BY <1>0, <1>5, <2>1 DEF Hit, Becomes, Ready, Handlers, LoadIsKnown, ResultIsKnown
    <2> QED BY <1>0, <2>1, <2>2, <2>3, <2>4, KnownLocal DEF MemoryIsKnown
  <1>6. CASE DropMismatch(r)
    <2>1. MemoryIsKnown' /\ known \subseteq known' /\ failures' = failures
      BY <1>0, <1>6, KnownInvalidate DEF DropMismatch
    <2>2. Local
      BY <1>0, <1>6, <2>1 DEF DropMismatch, Becomes, Ready, Handlers, LoadIsKnown, ResultIsKnown
    <2> QED BY <2>1, <2>2, KnownLocal
  <1>7. CASE DropInsufficient(r)
    <2>1. MemoryIsKnown' /\ known \subseteq known' /\ failures' = failures
      BY <1>0, <1>7, KnownInvalidate DEF DropInsufficient
    <2>2. Local
      BY <1>0, <1>7, <2>1 DEF DropInsufficient, Becomes, Ready, Handlers, LoadIsKnown, ResultIsKnown
    <2> QED BY <2>1, <2>2, KnownLocal
  <1>8. CASE Store(r)
    <2> DEFINE s == [raw |-> req[r].history, by |-> r]
    <2>1. s \in Optional
      BY <1>0, <1>8 DEF Store, Handlers, Optional, Snapshots
    <2>2. /\ known' = known \cup {req[r].key} /\ failures' = failures
          /\ cache' = Stored(cache, req[r].key, s)
      BY <1>8 DEF Store, Decide
    <2> HIDE DEF s
    <2>3. \A k \in EpochKeys : k = req[r].key \/ cache'[k] = cache[k]
      BY <1>0, <2>1, <2>2, StoredType
    <2>4. Local
      BY <1>0, <1>8, <2>2 DEF Store, Becomes, Ended, Fresh, NoLoad, Handlers, LoadIsKnown, ResultIsKnown
    <2> QED BY <1>0, <2>2, <2>3, <2>4, KnownLocal DEF MemoryIsKnown
  <1>9. CASE Finish(r)
    BY <1>0, <1>9 DEF Finish, Becomes, Ended, Fresh, NoLoad, Handlers, MemoryIsKnown, LoadIsKnown, ResultIsKnown, ghosts
  <1> QED BY <1>1, <1>2, <1>3, <1>4, <1>5, <1>6, <1>7, <1>8, <1>9 DEF UseStep

\* Every step keeps what is known.
LEMMA KnownStep == TypeOK /\ Begun /\ KnownInv /\ [Next]_vars => KnownInv'
  <1> SUFFICES ASSUME TypeOK, Begun, KnownInv, [Next]_vars PROVE KnownInv'
    OBVIOUS
  <1>1. ASSUME NEW r \in Requests, Begin(r) PROVE KnownInv'
    <2>1. known' = known /\ failures' = failures /\ cache' = cache
      BY <1>1 DEF Begin, ghosts
    <2>2. /\ \A q \in Requests : q # r => req'[q] = req[q]
          /\ req'[r].pc \in {"migrate", "alias"} /\ req'[r].load = NoLoad
          /\ req'[r].result = "none"
      BY <1>1 DEF Begin, Becomes, Fresh, TypeOK
    <2>3. LoadIsKnown(r)' /\ ResultIsKnown(r)'
      BY <2>2 DEF LoadIsKnown, ResultIsKnown, NoLoad
    <2> QED BY <2>1, <2>2, <2>3, KnownLocal DEF KnownInv, MemoryIsKnown
  <1>2. ASSUME NEW r \in Requests, Handle(r) PROVE KnownInv'
    BY <1>2, KnownSubmit, KnownLoad, KnownMigrate, KnownUse DEF Handle
  <1>3. ASSUME NEW k \in Keys, WriteRow(k) PROVE KnownInv'
    BY <1>3 DEF WriteRow, KnownInv, MemoryIsKnown, LoadIsKnown, ResultIsKnown
  <1>4. ASSUME NEW old \in SUBSET Keys, Evict(old) PROVE KnownInv'
    <2>1. known' = known /\ req' = req
      BY <1>4 DEF Evict
    <2>2. MemoryIsKnown'
      BY <1>4, <2>1, KeysInteger DEF Evict, KnownInv, MemoryIsKnown, Absent
    <2>3. \A k \in EpochKeys : k \notin failures' => k \notin failures \/ k \in known
      BY <1>4, KeysInteger DEF Evict, KnownInv, MemoryIsKnown
    <2> QED BY <2>1, <2>2, <2>3 DEF KnownInv, LoadIsKnown, ResultIsKnown
  <1>5. CASE Crash
    <2>1. \A r \in Requests : /\ req'[r].pc \in {"idle", "done"} /\ req'[r].load = NoLoad
                              /\ req'[r].result = "none"
      BY <1>5 DEF Crash, Ended, Fresh
    <2>2. MemoryIsKnown'
      BY <1>5, KeysInteger DEF Crash, MemoryIsKnown, Absent
    <2> QED BY <2>1, <2>2 DEF KnownInv, LoadIsKnown, ResultIsKnown, NoLoad
  <1>6. CASE UNCHANGED vars
    BY <1>6 DEF vars, ghosts, KnownInv, MemoryIsKnown, LoadIsKnown, ResultIsKnown
  <1> QED BY <1>1, <1>2, <1>3, <1>4, <1>5, <1>6 DEF Next, YoungNext

\* For any number of requests that share loads: who concludes that a key has no
\* state does so from a row that was read, or a state that was set, since the
\* process began.
THEOREM FailedReadIsNoAbsence == Spec => []AbsenceIsKnown
  <1>1. KnownInv => AbsenceIsKnown
    BY DEF KnownInv, ResultIsKnown, AbsenceIsKnown
  <1> QED BY <1>1, KnownInit, KnownStep, TypeInvariant, PTL DEF Spec

-----------------------------------------------------------------------------
(* A reused prefix is one of the request's own history                     *)

\* A request that reuses a prefix has verified it; what it verifies is a snapshot.
ReuseVerified(r) ==
  /\ req[r].result = "hit" => /\ req[r].pc = "work" /\ req[r].seen \in Snapshots
                              /\ Covers(req[r].seen.raw, req[r].history)
  /\ req[r].pc = "verify" => req[r].seen \in Snapshots

ReuseInv == \A r \in Requests : ReuseVerified(r)

\* A step that keeps what these facts are about, or ends the request, keeps them.
LEMMA ReuseKept ==
  ASSUME NEW r \in Requests, ReuseVerified(r),
         \/ /\ req'[r].pc = req[r].pc /\ req'[r].result = req[r].result
            /\ req'[r].seen = req[r].seen /\ req'[r].history = req[r].history
         \/ req'[r].pc # "verify" /\ req'[r].result # "hit"
  PROVE  ReuseVerified(r)'
  BY DEF ReuseVerified, Covers

\* A step of r need only be examined for r.
LEMMA ReuseLocal ==
  ASSUME ReuseInv, NEW r \in Requests, \A q \in Requests : q # r => req'[q] = req[q],
         ReuseVerified(r)'
  PROVE  ReuseInv'
  BY DEF ReuseInv, ReuseVerified, Covers

\* A load changes no copy.
LEMMA ReuseLoad ==
  ASSUME TypeOK, ReuseInv, NEW r \in Requests, LoadStep(r) \/ Submit(r) PROVE ReuseInv'
  <1>0. req \in [Requests -> Handlers] /\ \A q \in Requests : req[q] \in Handlers
    BY DEF TypeOK
  <1> SUFFICES ASSUME NEW q \in Requests
               PROVE  /\ req'[q].pc = req[q].pc /\ req'[q].result = req[q].result
                      /\ req'[q].seen = req[q].seen /\ req'[q].history = req[q].history
    BY ReuseKept DEF ReuseInv
  <1>1. CASE ReadRow(r)
    BY <1>0, <1>1 DEF ReadRow, Becomes, Handlers
  <1>2. CASE LearnRow(r)
    BY <1>0, <1>2 DEF LearnRow, Becomes, Handlers
  <1>3. CASE RejectRow(r)
    BY <1>0, <1>3 DEF RejectRow, Becomes, Handlers
  <1>4. CASE PublishRow(r)
    BY <1>0, <1>4 DEF PublishRow, Becomes, Handlers
  <1>5. CASE FinishLoad(r)
    BY <1>0, <1>5 DEF FinishLoad, Handlers
  <1>6. CASE ShareResult(r)
    BY <1>0, <1>6 DEF ShareResult, Becomes, Handlers
  <1>7. CASE Submit(r)
    BY <1>0, <1>7 DEF Submit, Becomes, Handlers
  <1> QED BY <1>1, <1>2, <1>3, <1>4, <1>5, <1>6, <1>7 DEF LoadStep

\* A migration changes no copy.
LEMMA ReuseMigrate ==
  ASSUME TypeOK, ReuseInv, NEW r \in Requests, MigrateStep(r) PROVE ReuseInv'
  <1>0. /\ req \in [Requests -> Handlers] /\ req[r] \in Handlers /\ req[r].key \in Keys
        /\ ReuseVerified(r) /\ Bare \in Keys
    BY KeysInteger DEF TypeOK, Handlers, ReuseInv
  <1> SUFFICES /\ \A q \in Requests : q # r => req'[q] = req[q]
               /\ req'[r].pc # "verify" /\ req'[r].result # "hit"
    BY <1>0, ReuseKept, ReuseLocal
  <1>1. CASE LoadTarget(r)
    BY <1>0, <1>1, StartLoadEffect DEF LoadTarget, Ready, ReuseVerified
  <1>2. CASE LoadBare(r)
    BY <1>0, <1>2, StartLoadEffect DEF LoadBare, Ready, ReuseVerified
  <1>3. CASE KeepTarget(r)
    BY <1>0, <1>3 DEF KeepTarget, Ready, Becomes, Handlers, ReuseVerified
  <1>4. CASE CopyBare(r)
    BY <1>0, <1>4 DEF CopyBare, Ready, Becomes, Handlers, ReuseVerified
  <1>5. CASE Migrate(r)
    BY <1>0, <1>5 DEF Migrate, Ready, Becomes, Handlers, ReuseVerified
  <1>6. CASE MigrateTooLate(r)
    BY <1>0, <1>6 DEF MigrateTooLate, Ready, Becomes, Handlers, ReuseVerified
  <1>7. CASE SetCurrentAlias(r)
    BY <1>0, <1>7 DEF SetCurrentAlias, AfterAlias, Ready, Becomes, Handlers, ReuseVerified
  <1> QED BY <1>1, <1>2, <1>3, <1>4, <1>5, <1>6, <1>7 DEF MigrateStep

\* A copy is verified before the request says it reuses it.
LEMMA ReuseUse ==
  ASSUME TypeOK, ReuseInv, NEW r \in Requests, UseStep(r) PROVE ReuseInv'
  <1>0. /\ req \in [Requests -> Handlers] /\ req[r] \in Handlers /\ req[r].key \in Keys
        /\ ReuseVerified(r) /\ req[r].seen \in Optional
    BY DEF TypeOK, Handlers, ReuseInv
  <1> DEFINE Local == \A q \in Requests : q # r => req'[q] = req[q]
             Plain == Local /\ req'[r].pc # "verify" /\ req'[r].result # "hit"
  <1>p. ASSUME Plain PROVE ReuseInv'
    BY <1>0, <1>p, ReuseKept, ReuseLocal
  <1>1. CASE DropUnsafe(r)
    <2>1. Plain
      BY <1>0, <1>1 DEF DropUnsafe, Ready, Becomes, Handlers, ReuseVerified
    <2> QED BY <2>1, <1>p
  <1>2. CASE LookInMemory(r)
    <2>1. Plain
      BY <1>0, <1>2 DEF LookInMemory, Ready, Becomes, Handlers, ReuseVerified
    <2> QED BY <2>1, <1>p
  <1>3. CASE LookOnDisk(r)
    <2>1. Plain
      BY <1>0, <1>3, StartLoadEffect DEF LookOnDisk, Ready, ReuseVerified
    <2> QED BY <2>1, <1>p
  <1>4. CASE TakeSnapshot(r)
    <2>1. Local
      BY <1>4, SnapshotEffect
    <2>2. req[r].result # "hit" /\ cache[req[r].key].snap \in Optional
      BY <1>0, <1>4 DEF TakeSnapshot, Ready, ReuseVerified, TypeOK, Entries
    <2>3. ReuseVerified(r)'
      BY <1>4, <2>2, SnapshotEffect DEF ReuseVerified, Optional
    <2> QED BY <2>1, <2>3, ReuseLocal
  <1>5. CASE Hit(r)
    <2>1. /\ Local /\ req'[r].pc = "work" /\ req'[r].seen = req[r].seen
          /\ req'[r].history = req[r].history
      BY <1>0, <1>5 DEF Hit, Becomes, Handlers
    <2>2. ReuseVerified(r)'
      BY <1>0, <1>5, <2>1 DEF Hit, Ready, ReuseVerified, Covers
    <2> QED BY <2>1, <2>2, ReuseLocal
  <1>6. CASE DropMismatch(r)
    <2>1. Plain
      BY <1>0, <1>6 DEF DropMismatch, Ready, Becomes, Handlers
    <2> QED BY <2>1, <1>p
  <1>7. CASE DropInsufficient(r)
    <2>1. Plain
      BY <1>0, <1>7 DEF DropInsufficient, Ready, Becomes, Handlers
    <2> QED BY <2>1, <1>p
  <1>8. CASE Store(r)
    <2>1. Plain
      BY <1>0, <1>8 DEF Store, Ended, Fresh, Becomes, Handlers
    <2> QED BY <2>1, <1>p
  <1>9. CASE Finish(r)
    <2>1. Plain
      BY <1>0, <1>9 DEF Finish, Ended, Fresh, Becomes, Handlers
    <2> QED BY <2>1, <1>p
  <1> QED BY <1>1, <1>2, <1>3, <1>4, <1>5, <1>6, <1>7, <1>8, <1>9 DEF UseStep

\* Every step keeps the copy that was verified.
LEMMA ReuseStep == TypeOK /\ ReuseInv /\ [Next]_vars => ReuseInv'
  <1> SUFFICES ASSUME TypeOK, ReuseInv, [Next]_vars PROVE ReuseInv'
    OBVIOUS
  <1>1. ASSUME NEW r \in Requests, Begin(r) PROVE ReuseInv'
    <2>1. /\ \A q \in Requests : q # r => req'[q] = req[q]
          /\ req'[r].pc # "verify" /\ req'[r].result # "hit"
      BY <1>1 DEF Begin, Becomes, Fresh, TypeOK
    <2> QED BY <2>1, ReuseKept, ReuseLocal DEF ReuseInv
  <1>2. ASSUME NEW r \in Requests, Handle(r) PROVE ReuseInv'
    BY <1>2, ReuseLoad, ReuseMigrate, ReuseUse DEF Handle
  <1>3. CASE \/ \E k \in Keys : WriteRow(k)
             \/ \E old \in SUBSET Keys : Evict(old)
             \/ UNCHANGED vars
    BY <1>3 DEF WriteRow, Evict, vars, ReuseInv, ReuseVerified, Covers
  <1>4. CASE Crash
    BY <1>4 DEF Crash, Ended, Fresh, ReuseInv, ReuseVerified
  <1> QED BY <1>1, <1>2, <1>3, <1>4 DEF Next, YoungNext

\* For any histories and any interleaving of copies, verifications, stores and
\* evictions: what a request reuses is a prefix of its own history
\* (GetWithLoadResult).
THEOREM OnlyOwnPrefixReused == Spec => []ReusedPrefixFits
  <1>1. Init => ReuseInv
    <2> SUFFICES ASSUME Init, NEW r \in Requests PROVE ReuseVerified(r)
      BY DEF ReuseInv
    <2>1. req[r].pc = "idle" /\ req[r].result = "none"
      BY DEF Init, Fresh
    <2> QED BY <2>1 DEF ReuseVerified
  <1>2. ReuseInv => ReusedPrefixFits
    <2> SUFFICES ASSUME ReuseInv, NEW r \in Requests, req[r].result = "hit"
                 PROVE  \E n \in 0..Len(req[r].history) :
                          req[r].seen.raw = [i \in 1..n |-> req[r].history[i]]
      BY DEF ReusedPrefixFits
    <2> DEFINE raw == req[r].seen.raw
               h == req[r].history
    <2>1. raw \in Histories /\ Covers(raw, h)
      BY DEF ReuseInv, ReuseVerified, Snapshots
    <2>2. PICK S : raw \in Seq(S)
      BY <2>1, FrozenAssumption
    <2>3. Len(raw) \in Nat /\ raw = [i \in 1..Len(raw) |-> raw[i]]
      BY <2>2
    <2>4. Len(raw) \in 0..Len(h) /\ raw = [i \in 1..Len(raw) |-> h[i]]
      BY <2>1, <2>3 DEF Covers
    <2> QED BY <2>4
  <1> QED BY <1>1, <1>2, ReuseStep, TypeInvariant, PTL DEF Spec

-----------------------------------------------------------------------------
(* What was stored stays                                                   *)

\* Only the keys of epochs are stored, and they show what was stored.
StoredInv ==
  /\ authority[Bare] \notin Snapshots
  /\ \A k \in EpochKeys : authority[k] \in Snapshots => cache[k].snap = authority[k]

\* A step that decides nothing may only fill keys without a state.
LEMMA StoredKept ==
  ASSUME StoredInv, authority' = authority,
         \A k \in EpochKeys : cache'[k].snap = cache[k].snap \/ cache[k].snap = NoSnap
  PROVE  StoredInv'
  BY NoSnapshot DEF StoredInv

\* A step that decides about k leaves the states of the other keys.
LEMMA StoredDecided ==
  ASSUME TypeOK, StoredInv, NEW k \in Keys, NEW value, Decide(k, value),
         value \in Snapshots => k \in EpochKeys /\ cache'[k].snap = value,
         \A j \in EpochKeys : j # k => cache'[j].snap = cache[j].snap
  PROVE  StoredInv'
  <1>1. authority' = [authority EXCEPT ![k] = value] /\ authority \in [Keys -> Optional \cup {Unknown}]
    BY DEF Decide, TypeOK
  <1> QED BY <1>1, KeysInteger DEF StoredInv

\* An invalidation decides about its key only.
LEMMA StoredInvalidate ==
  ASSUME TypeOK, StoredInv, NEW k \in Keys, Invalidate(k) PROVE StoredInv'
  <1>1. cache' = Invalidated(cache, k) /\ Decide(k, NoSnap)
    BY DEF Invalidate
  <1>2. \A j \in EpochKeys : j # k => cache'[j].snap = cache[j].snap
    BY <1>1, InvalidatedType
  <1> QED BY <1>1, <1>2, NoSnapshot, StoredDecided

\* A load fills an entry without a state, or invalidates its own key.
LEMMA StoredLoad ==
  ASSUME TypeOK, StoredInv, NEW r \in Requests, LoadStep(r) PROVE StoredInv'
  <1>0. req[r].load.key \in Keys /\ req[r].load.row \in Optional \cup {Corrupt}
    BY LoadOfHandler DEF TypeOK
  <1>1. CASE ReadRow(r) \/ FinishLoad(r) \/ ShareResult(r)
    BY <1>1, StoredKept DEF ReadRow, FinishLoad, ShareResult, ghosts
  <1>2. CASE LearnRow(r)
    <2>1. \A k \in EpochKeys : cache'[k].snap = cache[k].snap
      BY <1>0, <1>2, KeysInteger DEF LearnRow, TypeOK, Entries
    <2> QED BY <1>2, <2>1, StoredKept DEF LearnRow, ghosts
  <1>3. CASE RejectRow(r)
    BY <1>0, <1>3, ResolveType, StoredInvalidate DEF RejectRow
  <1>4. CASE PublishRow(r)
    <2>1. /\ req[r].load.row \in Optional
          /\ cache' = Published(cache, req[r].load.key, req[r].load.row)
      BY <1>0, <1>4 DEF PublishRow, Rejects
    <2>2. \A k \in EpochKeys : cache'[k] = cache[k] \/ cache[k].snap = NoSnap
      BY <1>0, <2>1, PublishedType
    <2> QED BY <1>4, <2>2, StoredKept DEF PublishRow, ghosts
  <1> QED BY <1>1, <1>2, <1>3, <1>4 DEF LoadStep

\* So does a migration.
LEMMA StoredMigrate ==
  ASSUME TypeOK, Begun, StoredInv, NEW r \in Requests, MigrateStep(r) PROVE StoredInv'
  <1>0. req[r].key \in Keys /\ req[r].seen \in Optional
    BY DEF TypeOK, Handlers
  <1>1. CASE \/ LoadTarget(r) \/ LoadBare(r) \/ KeepTarget(r) \/ CopyBare(r) \/ MigrateTooLate(r)
    <2>1. cache' = cache /\ authority' = authority
      BY <1>1 DEF LoadTarget, LoadBare, KeepTarget, CopyBare, MigrateTooLate, ghosts
    <2> QED BY <2>1, StoredKept
  <1>2. CASE Migrate(r)
    <2>1. req[r].key \in EpochKeys /\ Decide(req[r].key, req[r].seen)
      BY <1>2 DEF Migrate, Ready, Begun
    <2>2. /\ cache'[req[r].key].snap = req[r].seen
          /\ \A j \in EpochKeys : j # req[r].key => cache'[j].snap = cache[j].snap
      BY <1>0, <1>2, KeysInteger DEF Migrate, TypeOK
    <2> QED BY <1>0, <2>1, <2>2, StoredDecided
  <1>3. CASE SetCurrentAlias(r)
    <2>1. cache' = Mirrored(cache, req[r].key, req[r].key) /\ cache \in [Keys -> Entries]
      BY <1>3 DEF SetCurrentAlias, TypeOK
    <2>2. \A k \in EpochKeys : cache'[k] = cache[k]
      BY <1>0, <2>1, MirroredType
    <2> QED BY <1>3, <2>2, StoredKept DEF SetCurrentAlias, ghosts
  <1> QED BY <1>1, <1>2, <1>3 DEF MigrateStep

\* A store decides about its key, and what it stores is there.
LEMMA StoredStore ==
  ASSUME TypeOK, StoredInv, NEW k \in EpochKeys, NEW s \in Optional,
         Decide(k, s), cache' = Stored(cache, k, s)
  PROVE  StoredInv'
  <1>1. \A j \in EpochKeys : cache'[j] =
          IF j = k THEN [snap |-> s, touched |-> TRUE, loaded |-> TRUE, found |-> TRUE]
                   ELSE cache[j]
    <2>1. k \in Keys
      BY KeysInteger
    <2> QED BY <2>1, StoredType
  <1>2. cache'[k].snap = s
    BY <1>1
  <1>3. \A j \in EpochKeys : j # k => cache'[j].snap = cache[j].snap
    BY <1>1
  <1> QED BY <1>2, <1>3, KeysInteger, StoredDecided

\* The other steps of a request decide about one key at most.
LEMMA StoredUse ==
  ASSUME TypeOK, Begun, StoredInv, NEW r \in Requests, UseStep(r) PROVE StoredInv'
  <1>0. req[r].key \in Keys /\ req[r].history \in Histories \cup {<<>>}
    BY DEF TypeOK, Handlers
  <1>1. CASE LookInMemory(r) \/ LookOnDisk(r) \/ TakeSnapshot(r) \/ Finish(r)
    <2>1. cache' = cache /\ authority' = authority
      BY <1>1 DEF LookInMemory, LookOnDisk, TakeSnapshot, Finish, ghosts
    <2> QED BY <2>1, StoredKept
  <1>2. CASE DropUnsafe(r) \/ DropMismatch(r) \/ DropInsufficient(r)
    BY <1>0, <1>2, StoredInvalidate DEF DropUnsafe, DropMismatch, DropInsufficient
  <1>3. CASE Hit(r)
    <2>1. \A k \in EpochKeys : cache'[k].snap = cache[k].snap
      BY <1>0, <1>3, KeysInteger DEF Hit, TypeOK, Entries
    <2> QED BY <1>3, <2>1, StoredKept DEF Hit, ghosts
  <1>4. CASE Store(r)
    <2>1. /\ req[r].key \in EpochKeys
          /\ [raw |-> req[r].history, by |-> r] \in Optional
      BY <1>0, <1>4 DEF Store, Ready, Begun, Optional, Snapshots
    <2> QED BY <1>4, <2>1, StoredStore DEF Store
  <1> QED BY <1>1, <1>2, <1>3, <1>4 DEF UseStep

\* Every step keeps what was stored, until it is invalidated or evicted.
LEMMA StoredStep == TypeOK /\ Begun /\ StoredInv /\ [Next]_vars => StoredInv'
  <1> SUFFICES ASSUME TypeOK, Begun, StoredInv, [Next]_vars PROVE StoredInv'
    OBVIOUS
  <1>1. ASSUME NEW r \in Requests, Begin(r) \/ Submit(r) PROVE StoredInv'
    BY <1>1, StoredKept DEF Begin, Submit, ghosts
  <1>2. ASSUME NEW r \in Requests, Handle(r) PROVE StoredInv'
    BY <1>1, <1>2, StoredLoad, StoredMigrate, StoredUse DEF Handle
  <1>3. ASSUME NEW k \in Keys, WriteRow(k) PROVE StoredInv'
    BY <1>3, StoredKept DEF WriteRow
  <1>4. ASSUME NEW old \in SUBSET Keys, Evict(old) PROVE StoredInv'
    BY <1>4, NoSnapshot, KeysInteger DEF Evict, StoredInv
  <1>5. CASE Crash
    BY <1>5, NoSnapshot, KeysInteger DEF Crash, StoredInv
  <1>6. CASE UNCHANGED vars
    BY <1>6, StoredKept DEF vars, ghosts
  <1> QED BY <1>1, <1>2, <1>3, <1>4, <1>5, <1>6 DEF Next, YoungNext

\* However long a load is in flight, and whoever migrates meanwhile: what was
\* stored is in memory until it is invalidated or evicted (loadFrozenFromDB).
THEOREM StoredIsNotOverwritten == Spec => []StoredStays
  <1>1. TypeOK => (Init => StoredInv)
    BY NoSnapshot, KeysInteger DEF Init, StoredInv
  <1>2. StoredInv => StoredStays
    BY KeysInteger DEF StoredInv, StoredStays, Keys
  <1> QED BY <1>1, <1>2, TypeInit, StoredStep, TypeInvariant, PTL DEF Spec

-----------------------------------------------------------------------------
(* The lock of a key: rows in the order of the memory                      *)

Has(r, k) == req[r].hold.held /\ req[r].hold.key = k
Others(r) == \A q \in Requests : q # r => req'[q] = req[q]

\* Where a load may stand while its request holds a lock: it takes one last.
Idle == {"none", "failed", "finish"}

\* Who holds a key's lock is alone, and is about to submit the last decision.
LockOf(r) ==
  /\ req[r].pc = "idle" => ~req[r].hold.held /\ req[r].load.pc = "none"
  /\ req[r].hold.held =>
       /\ req[r].load.pc \in Idle
       /\ decided[req[r].hold.key] = req[r].hold.value
       /\ \A q \in Requests : req[q].hold.held /\ req[q].hold.key = req[r].hold.key => q = r

LockInv == \A r \in Requests : LockOf(r)

\* Without a holder, the last decision is the last write in the queue or, if that was
\* tried with success, the row.
KeyWrites(k) ==
  /\ outcome[k] = "pending" => Len(queue[k]) # 0
  /\ outcome[k] = "saved" => Len(queue[k]) = 0
  /\ Unlocked(k) /\ outcome[k] = "pending" => queue[k][Len(queue[k])] = decided[k]
  /\ Unlocked(k) /\ outcome[k] = "saved" => disk[k] = decided[k]

WritesInv == LockInv /\ \A k \in Keys : KeyWrites(k)

\* No lock, queue, row or decision changes.
WritesKept ==
  /\ \A r \in Requests :
       /\ req'[r].hold.held = req[r].hold.held
       /\ req[r].hold.held => req'[r].hold = req[r].hold /\ req'[r].load.pc \in Idle
       /\ req'[r].pc = "idle" => req[r].pc = "idle" /\ req'[r].load = req[r].load
  /\ UNCHANGED <<queue, disk, decided, outcome>>

\* Such a step keeps the order of the writes.
LEMMA WritesFrame == ASSUME WritesInv, WritesKept PROVE WritesInv'
  <1>2. \A k \in Keys : Unlocked(k)' <=> Unlocked(k)
    BY DEF WritesKept, Unlocked
  <1>3. LockInv'
    BY DEF WritesInv, LockInv, LockOf, WritesKept
  <1>4. \A k \in Keys : KeyWrites(k)'
    BY <1>2 DEF WritesInv, KeyWrites, WritesKept
  <1>5. QED
    BY <1>3, <1>4 DEF WritesInv

\* So does a step of a request that holds no lock and takes none.
LEMMA WritesQuiet ==
  ASSUME WritesInv, NEW r \in Requests, Others(r),
         req[r].hold.held = FALSE, req'[r].hold.held = FALSE, req'[r].pc # "idle",
         UNCHANGED <<queue, disk, decided, outcome>>
  PROVE  WritesInv'
  <1>1. \A q \in Requests : req[q].hold.held => req[q].load.pc \in Idle
    BY DEF WritesInv, LockInv, LockOf
  <1>2. WritesKept
    BY <1>1 DEF WritesKept, Others
  <1>3. QED
    BY <1>2, WritesFrame

\* A request takes the lock of a free key and decides about it.
LEMMA WritesTake ==
  ASSUME TypeOK, WritesInv, NEW r \in Requests, NEW k \in Keys, NEW value \in Optional,
         Others(r), Unlocked(k), req[r].hold.held = FALSE, req'[r].hold = Holding(k, value),
         req'[r].pc # "idle", req'[r].load.pc \in Idle,
         decided' = [decided EXCEPT ![k] = value], UNCHANGED <<queue, disk, outcome>>
  PROVE  WritesInv'
  <1>1. decided \in [Keys -> Optional \cup {Corrupt}] /\ decided'[k] = value
        /\ \A j \in Keys : j # k => decided'[j] = decided[j]
    BY DEF TypeOK
  <1>2. req'[r].hold.held /\ req'[r].hold.key = k /\ req'[r].hold.value = value
    BY DEF Holding
  <1>3. LockInv'
    <2> SUFFICES ASSUME NEW q \in Requests PROVE LockOf(q)'
      BY DEF LockInv
    <2>1. CASE q = r
      BY <1>1, <1>2, <2>1 DEF Others, Unlocked, LockOf
    <2>2. CASE q # r
      <3>1. req'[q] = req[q] /\ (req[q].hold.held => req[q].hold.key # k)
        BY <2>2 DEF Others, Unlocked
      <3>2. req[q].hold.key \in Keys
        BY DEF TypeOK, Handlers, Holds
      <3>3. ASSUME req[q].hold.held, NEW p \in Requests,
                   req'[p].hold.held, req'[p].hold.key = req[q].hold.key
            PROVE  p = q
        <4>1. p # r
          BY <1>2, <3>1, <3>3
        <4>2. req'[p] = req[p]
          BY <4>1 DEF Others
        <4>3. QED
          BY <3>3, <4>2 DEF WritesInv, LockInv, LockOf
      <3>4. QED
        BY <1>1, <3>1, <3>2, <3>3 DEF WritesInv, LockInv, LockOf
    <2>3. QED
      BY <2>1, <2>2
  <1>4. ~Unlocked(k)'
    BY <1>2 DEF Unlocked
  <1>5. \A j \in Keys : j # k => (Unlocked(j)' <=> Unlocked(j))
    BY <1>2 DEF Unlocked, Others
  <1>6. \A j \in Keys : KeyWrites(j)'
    BY <1>1, <1>4, <1>5 DEF WritesInv, KeyWrites
  <1>7. QED
    BY <1>3, <1>6 DEF WritesInv

\* The last element of a queue stays the last when another is taken from its head.
LEMMA LastFacts ==
  ASSUME NEW s \in Seq(Optional)
  PROVE  /\ \A v \in Optional : Len(Append(s, v)) # 0 /\ Append(s, v)[Len(Append(s, v))] = v
         /\ s # <<>> => Len(s) # 0
         /\ s # <<>> /\ Len(s) = 1 => Len(Tail(s)) = 0 /\ Head(s) = s[Len(s)]
         /\ s # <<>> /\ Len(s) # 1 => Len(Tail(s)) # 0 /\ Tail(s)[Len(Tail(s))] = s[Len(s)]
  <1>1. ASSUME NEW v \in Optional
        PROVE  Len(Append(s, v)) # 0 /\ Append(s, v)[Len(Append(s, v))] = v
    <2>1. Len(Append(s, v)) = Len(s) + 1 /\ Len(s) \in Nat /\ Append(s, v)[Len(s) + 1] = v
      OBVIOUS
    <2>2. QED
      BY <2>1
  <1>2. s # <<>> => Len(s) # 0
    OBVIOUS
  <1>3. s # <<>> /\ Len(s) = 1 => Len(Tail(s)) = 0 /\ Head(s) = s[Len(s)]
    OBVIOUS
  <1>4. ASSUME s # <<>>, Len(s) # 1 PROVE Len(Tail(s)) # 0 /\ Tail(s)[Len(Tail(s))] = s[Len(s)]
    <2>1. PICK n \in Nat : n = Len(s)
      OBVIOUS
    <2>2. n > 1
      BY <1>4, <2>1
    <2>3. Len(Tail(s)) = n - 1 /\ Tail(s)[n - 1] = s[n]
      BY <1>4, <2>1, <2>2
    <2>4. QED
      BY <2>1, <2>2, <2>3
  <1>5. QED
    BY <1>1, <1>2, <1>3, <1>4

\* Who submits has decided last: the accepted write is the last in the queue.
LEMMA WritesSubmit ==
  ASSUME TypeOK, WritesInv, NEW r \in Requests, Submit(r) PROVE WritesInv'
  <1>0. PICK k \in Keys, v \in Optional : k = req[r].hold.key /\ v = req[r].hold.value
    BY DEF TypeOK, Handlers, Holds
  <1>1. /\ req[r].hold.held
        /\ Others(r) /\ req'[r].hold.held = FALSE /\ req'[r].pc = req[r].pc
        /\ req'[r].load = req[r].load
        /\ disk' = disk /\ decided' = decided
        /\ \/ /\ queue' = [queue EXCEPT ![k] = Append(@, v)]
              /\ outcome' = [outcome EXCEPT ![k] = "pending"]
           \/ /\ outcome' = [outcome EXCEPT ![k] = "lost"]
              /\ queue' = queue
    <2>1. /\ req[r] \in Handlers /\ req \in [Requests -> Handlers] /\ NoHold.held = FALSE
      BY DEF TypeOK, NoHold
    <2>2. QED
      BY <1>0, <2>1 DEF Submit, Becomes, Others, Handlers
  <1>2. decided[k] = v /\ \A q \in Requests : Has(q, k) => q = r
    BY <1>0, <1>1 DEF WritesInv, LockInv, LockOf, Has
  <1>3. /\ queue \in [Keys -> Seq(Optional)] /\ queue[k] \in Seq(Optional)
        /\ outcome \in [Keys -> {"pending", "saved", "lost"}]
    BY <1>1 DEF TypeOK
  <1>4. LockInv'
    <2> SUFFICES ASSUME NEW q \in Requests PROVE LockOf(q)'
      BY DEF LockInv
    <2>1. CASE q = r
      BY <1>1, <2>1 DEF WritesInv, LockInv, LockOf
    <2>2. CASE q # r
      <3>1. req'[q] = req[q] /\ decided' = decided
        BY <1>1, <2>2 DEF Others
      <3>2. ASSUME req[q].hold.held, NEW p \in Requests,
                   req'[p].hold.held, req'[p].hold.key = req[q].hold.key
            PROVE  p = q
        <4>1. p # r
          BY <1>1, <3>2
        <4>2. req'[p] = req[p]
          BY <1>1, <4>1 DEF Others
        <4>3. QED
          BY <3>2, <4>2 DEF WritesInv, LockInv, LockOf
      <3>3. QED
        BY <3>1, <3>2 DEF WritesInv, LockInv, LockOf
    <2>3. QED
      BY <2>1, <2>2
  <1>5. ASSUME NEW j \in Keys, j # k PROVE KeyWrites(j)'
    <2>1. queue'[j] = queue[j] /\ outcome'[j] = outcome[j]
      BY <1>1, <1>3, <1>5
    <2>2. Unlocked(j)' <=> Unlocked(j)
      <3>1. \A q \in Requests : Has(q, j)' <=> Has(q, j)
        BY <1>0, <1>1, <1>5 DEF Others, Has
      <3>2. QED
        BY <3>1 DEF Unlocked, Has
    <2>3. QED
      BY <1>1, <2>1, <2>2 DEF WritesInv, KeyWrites
  <1>6. KeyWrites(k)'
    <2>1. CASE /\ queue' = [queue EXCEPT ![k] = Append(@, v)]
               /\ outcome' = [outcome EXCEPT ![k] = "pending"]
      <3>1. /\ queue'[k] = Append(queue[k], v) /\ outcome'[k] = "pending"
        BY <1>1, <1>3, <2>1
      <3>2. /\ Len(Append(queue[k], v)) # 0
            /\ Append(queue[k], v)[Len(Append(queue[k], v))] = v
        BY <1>3, LastFacts
      <3>3. QED
        BY <1>1, <1>2, <3>1, <3>2 DEF KeyWrites
    <2>2. CASE outcome' = [outcome EXCEPT ![k] = "lost"]
      BY <1>1, <1>3, <2>2 DEF KeyWrites
    <2>3. QED
      BY <1>1, <2>1, <2>2
  <1>7. QED
    BY <1>4, <1>5, <1>6 DEF WritesInv

\* The writer takes the oldest write; with the last one the row follows or it is lost.
LEMMA WritesWritten ==
  ASSUME TypeOK, WritesInv, NEW k \in Keys, WriteRow(k) PROVE WritesInv'
  <1>1. /\ req' = req /\ decided' = decided /\ queue[k] # <<>>
        /\ queue' = [queue EXCEPT ![k] = Tail(@)]
        /\ \/ /\ disk' = [disk EXCEPT ![k] = Head(queue[k])]
              /\ outcome' = IF Len(queue[k]) = 1 /\ outcome[k] = "pending"
                              THEN [outcome EXCEPT ![k] = "saved"] ELSE outcome
           \/ /\ disk' = disk
              /\ outcome' = IF Len(queue[k]) = 1 /\ outcome[k] = "pending"
                              THEN [outcome EXCEPT ![k] = "lost"] ELSE outcome
    BY DEF WriteRow
  <1>2. /\ queue \in [Keys -> Seq(Optional)] /\ queue[k] \in Seq(Optional)
        /\ disk \in [Keys -> Optional \cup {Corrupt}] /\ outcome \in [Keys -> {"pending", "saved", "lost"}]
    BY DEF TypeOK
  <1>3. LockInv'
    BY <1>1 DEF WritesInv, LockInv, LockOf
  <1>4. \A j \in Keys : Unlocked(j)' <=> Unlocked(j)
    BY <1>1 DEF Unlocked
  <1>5. ASSUME NEW j \in Keys, j # k PROVE KeyWrites(j)'
    <2>1. queue'[j] = queue[j] /\ outcome'[j] = outcome[j] /\ disk'[j] = disk[j]
      BY <1>1, <1>2, <1>5
    <2>2. QED
      BY <1>1, <1>4, <2>1 DEF WritesInv, KeyWrites
  <1>6. KeyWrites(k)'
    <2>0. KeyWrites(k) /\ outcome[k] # "saved" /\ queue'[k] = Tail(queue[k])
      BY <1>1, <1>2, LastFacts DEF WritesInv, KeyWrites
    <2>1. CASE Len(queue[k]) = 1 /\ outcome[k] = "pending"
      <3>1. Len(queue'[k]) = 0 /\ Head(queue[k]) = queue[k][Len(queue[k])]
        BY <1>1, <1>2, <2>0, <2>1, LastFacts
      <3>2. (outcome'[k] = "saved" /\ disk'[k] = Head(queue[k])) \/ outcome'[k] = "lost"
        BY <1>1, <1>2, <2>1
      <3>3. QED
        BY <1>1, <1>4, <2>0, <2>1, <3>1, <3>2 DEF KeyWrites
    <2>2. CASE Len(queue[k]) # 1 /\ outcome[k] = "pending"
      <3>1. /\ Len(Tail(queue[k])) # 0
            /\ Tail(queue[k])[Len(Tail(queue[k]))] = queue[k][Len(queue[k])]
        BY <1>1, <1>2, <2>2, LastFacts
      <3>2. outcome'[k] = "pending"
        BY <1>1, <2>2
      <3>3. QED
        BY <1>1, <1>4, <2>0, <2>2, <3>1, <3>2 DEF KeyWrites
    <2>3. CASE outcome[k] = "lost"
      BY <1>1, <2>3 DEF KeyWrites
    <2>4. QED
      BY <1>2, <2>0, <2>1, <2>2, <2>3
  <1>7. QED
    BY <1>3, <1>5, <1>6 DEF WritesInv

\* An invalidation takes the lock of its key.
LEMMA WritesInvalidate ==
  ASSUME TypeOK, WritesInv, NEW r \in Requests, NEW k \in Keys, Invalidate(k),
         Others(r), req[r].hold.held = FALSE, req'[r].hold = Holding(k, NoSnap),
         req'[r].pc # "idle", req'[r].load.pc \in Idle,
         UNCHANGED <<queue, disk, outcome>>
  PROVE  WritesInv'
  BY WritesTake DEF Invalidate, Decide, Optional

\* A load takes the lock of a key when it rejects a row, and else none.
LEMMA WritesLoad ==
  ASSUME TypeOK, WritesInv, NEW r \in Requests, LoadStep(r) PROVE WritesInv'
  <1>0. /\ req \in [Requests -> Handlers] /\ req[r] \in Handlers /\ req[r].load \in Loads
        /\ req[r].load.key \in Keys /\ LockOf(r)
    BY LoadOfHandler DEF TypeOK, WritesInv, LockInv
  <1>1. CASE ReadRow(r) \/ LearnRow(r) \/ PublishRow(r) \/ ShareResult(r)
    <2>1. /\ req[r].load.pc \in {"read", "learn", "judge", "woken"}
          /\ UNCHANGED <<queue, disk, decided, outcome>>
          /\ \E l : Becomes(r, [req[r] EXCEPT !.load = l])
      BY <1>1 DEF ReadRow, LearnRow, PublishRow, ShareResult, ghosts
    <2>2. req[r].hold.held = FALSE /\ req[r].pc # "idle"
      BY <1>0, <2>1 DEF LockOf, Idle, Handlers, Holds
    <2>3. Others(r) /\ req'[r].hold = req[r].hold /\ req'[r].pc = req[r].pc
      BY <1>0, <2>1 DEF Becomes, Others, Handlers
    <2>4. QED
      BY <2>1, <2>2, <2>3, WritesQuiet
  <1>2. CASE RejectRow(r)
    <2> DEFINE k == Resolve(req[r].load.key)
    <2>1. k \in Keys
      BY <1>0, ResolveType
    <2>2. /\ req[r].load.pc = "judge" /\ Invalidate(k)
          /\ Becomes(r, [req[r] EXCEPT !.load = At(@, "finish"), !.hold = Holding(k, NoSnap)])
          /\ UNCHANGED <<queue, disk, outcome>>
      BY <1>2 DEF RejectRow
    <2> HIDE DEF k
    <2>3. req[r].hold.held = FALSE /\ req[r].pc # "idle"
      BY <1>0, <2>2 DEF LockOf, Idle, Handlers, Holds
    <2>4. At(req[r].load, "finish").pc = "finish"
      BY <1>0 DEF At, Loads
    <2>5. /\ Others(r) /\ req'[r].hold = Holding(k, NoSnap) /\ req'[r].pc = req[r].pc
          /\ req'[r].load = At(req[r].load, "finish")
      BY <1>0, <2>2 DEF Becomes, Others, Handlers
    <2>6. QED
      BY <2>1, <2>2, <2>3, <2>4, <2>5, WritesInvalidate DEF Idle
  <1>3. CASE FinishLoad(r)
    <2>1. /\ req[r].load.pc \in {"finish", "fail"} /\ req[r].hold.held = FALSE
          /\ UNCHANGED <<queue, disk, decided, outcome>>
      BY <1>0, <1>3 DEF FinishLoad, ghosts, Handlers, Holds
    <2>2. ASSUME NEW q \in Requests
          PROVE  /\ req'[q].hold = req[q].hold /\ req'[q].pc = req[q].pc
                 /\ \/ req'[q].load = req[q].load
                    \/ req[q].load.pc \in {"finish", "fail", "wait"} /\ (q = r \/ req[q].load.pc = "wait")
      <3>1. req[q] \in Handlers
        BY <1>0
      <3>2. CASE q = r
        BY <1>3, <2>1, <3>1, <3>2 DEF FinishLoad, Handlers
      <3>3. CASE q # r /\ q \in Wakes(req[r].load.key, r)
        BY <1>3, <3>1, <3>3 DEF FinishLoad, Handlers, Wakes
      <3>4. CASE q # r /\ q \notin Wakes(req[r].load.key, r)
        BY <1>3, <3>4 DEF FinishLoad
      <3>5. QED
        BY <3>2, <3>3, <3>4
    <2>3. \A q \in Requests :
            /\ req[q].hold.held => req[q].load.pc \in Idle
            /\ req[q].pc = "idle" => req[q].load.pc = "none"
      BY DEF WritesInv, LockInv, LockOf
    <2>4. WritesKept
      BY <2>1, <2>2, <2>3 DEF WritesKept, Idle
    <2>5. QED
      BY <2>4, WritesFrame
  <1>4. QED
    BY <1>1, <1>2, <1>3 DEF LoadStep

\* A migration that copies a state takes the lock of its key.
LEMMA WritesMigrate ==
  ASSUME TypeOK, WritesInv, NEW r \in Requests, MigrateStep(r) PROVE WritesInv'
  <1>0. /\ req \in [Requests -> Handlers] /\ req[r] \in Handlers /\ req[r].key \in Keys
        /\ req[r].seen \in Optional /\ Bare \in Keys /\ req[r].hold \in Holds
    BY KeysInteger DEF TypeOK, Handlers
  <1>1. CASE LoadTarget(r) \/ LoadBare(r)
    <2>1. /\ UNCHANGED <<queue, disk, decided, outcome>> /\ req[r].hold.held = FALSE
          /\ \E k \in Keys, next \in {"examine", "copy", "snapshot"} : StartLoad(r, k, next)
      BY <1>0, <1>1 DEF LoadTarget, LoadBare, Ready, ghosts, Holds
    <2>2. Others(r) /\ req'[r].hold = req[r].hold /\ req'[r].pc # "idle"
      BY <2>1, StartLoadEffect DEF Others
    <2>3. QED
      BY <2>1, <2>2, WritesQuiet
  <1>2. CASE KeepTarget(r) \/ CopyBare(r) \/ MigrateTooLate(r) \/ SetCurrentAlias(r)
    <2>1. UNCHANGED <<queue, disk, decided, outcome>> /\ req[r].hold.held = FALSE
      BY <1>0, <1>2 DEF KeepTarget, CopyBare, MigrateTooLate, SetCurrentAlias, Ready, ghosts, Holds
    <2>2. Others(r) /\ req'[r].hold = req[r].hold /\ req'[r].pc # "idle"
      <3>1. CASE KeepTarget(r) \/ MigrateTooLate(r)
        BY <1>0, <3>1 DEF KeepTarget, MigrateTooLate, Becomes, Others, Handlers
      <3>2. CASE CopyBare(r)
        BY <1>0, <3>2 DEF CopyBare, Becomes, Others, Handlers
      <3>3. CASE SetCurrentAlias(r)
        BY <1>0, <3>3 DEF SetCurrentAlias, AfterAlias, Becomes, Others, Handlers
      <3>4. QED
        BY <1>2, <3>1, <3>2, <3>3
    <2>3. QED
      BY <2>1, <2>2, WritesQuiet
  <1>3. CASE Migrate(r)
    <2> DEFINE k == req[r].key
               value == req[r].seen
    <2>1. /\ Unlocked(k) /\ decided' = [decided EXCEPT ![k] = value]
          /\ UNCHANGED <<queue, disk, outcome>>
          /\ req[r].load.pc \in {"none", "failed"} /\ req[r].hold.held = FALSE
          /\ Becomes(r, [req[r] EXCEPT !.pc = "alias", !.hold = Holding(k, value)])
      BY <1>0, <1>3 DEF Migrate, Ready, Decide, Holds
    <2>2. k \in Keys /\ value \in Optional
      BY <1>0
    <2> HIDE DEF k, value
    <2>3. /\ Others(r) /\ req'[r].hold = Holding(k, value) /\ req'[r].pc = "alias"
          /\ req'[r].load = req[r].load
      BY <1>0, <2>1 DEF Becomes, Others, Handlers
    <2>4. QED
      BY <2>1, <2>2, <2>3, WritesTake DEF Idle
  <1>4. QED
    BY <1>1, <1>2, <1>3 DEF MigrateStep

\* A drop or a store takes the lock of the request's key.
LEMMA WritesUse ==
  ASSUME TypeOK, Begun, WritesInv, NEW r \in Requests, UseStep(r) PROVE WritesInv'
  <1>0. /\ req \in [Requests -> Handlers] /\ req[r] \in Handlers /\ req[r].key \in Keys
        /\ req[r].hold \in Holds /\ NoHold.held = FALSE /\ NoLoad.pc = "none"
    BY DEF TypeOK, Handlers, NoHold, NoLoad
  <1>1. CASE LookOnDisk(r)
    <2>1. /\ UNCHANGED <<queue, disk, decided, outcome>> /\ req[r].hold.held = FALSE
          /\ StartLoad(r, req[r].key, "snapshot")
      BY <1>0, <1>1 DEF LookOnDisk, Ready, ghosts, Holds
    <2>2. Others(r) /\ req'[r].hold = req[r].hold /\ req'[r].pc # "idle"
      BY <1>0, <2>1, StartLoadEffect DEF Others
    <2>3. QED
      BY <2>1, <2>2, WritesQuiet
  <1>2. CASE LookInMemory(r) \/ TakeSnapshot(r) \/ Hit(r) \/ Finish(r)
    <2>1. UNCHANGED <<queue, disk, decided, outcome>> /\ req[r].hold.held = FALSE
      BY <1>0, <1>2 DEF LookInMemory, TakeSnapshot, Hit, Finish, Ready, ghosts, Holds
    <2>2. CASE TakeSnapshot(r)
      <3>1. Others(r) /\ req'[r].hold = req[r].hold /\ req'[r].pc # "idle"
        BY <2>2, SnapshotEffect DEF Others
      <3>2. QED
        BY <2>1, <3>1, WritesQuiet
    <2>3. CASE LookInMemory(r) \/ Hit(r) \/ Finish(r)
      <3>1. Others(r) /\ req'[r].hold.held = FALSE /\ req'[r].pc # "idle"
        <4>1. CASE LookInMemory(r)
          BY <1>0, <2>1, <4>1 DEF LookInMemory, Becomes, Others, Handlers
        <4>2. CASE Hit(r)
          BY <1>0, <2>1, <4>2 DEF Hit, Becomes, Others, Handlers
        <4>3. CASE Finish(r)
          BY <1>0, <4>3 DEF Finish, Becomes, Others, Ended, Fresh
        <4>4. QED
          BY <2>3, <4>1, <4>2, <4>3
      <3>2. QED
        BY <2>1, <3>1, WritesQuiet
    <2>4. QED
      BY <1>2, <2>2, <2>3
  <1>3. CASE DropUnsafe(r) \/ DropMismatch(r) \/ DropInsufficient(r)
    <2> DEFINE k == req[r].key
    <2>1. /\ Invalidate(k) /\ UNCHANGED <<queue, disk, outcome>>
          /\ req[r].load.pc \in {"none", "failed"} /\ req[r].hold.held = FALSE
      BY <1>0, <1>3 DEF DropUnsafe, DropMismatch, DropInsufficient, Ready, Holds
    <2>2. /\ Others(r) /\ req'[r].hold = Holding(k, NoSnap) /\ req'[r].pc # "idle"
          /\ req'[r].load = req[r].load
      <3>1. CASE DropUnsafe(r)
        BY <1>0, <3>1 DEF DropUnsafe, Becomes, Others, Handlers
      <3>2. CASE DropMismatch(r)
        BY <1>0, <3>2 DEF DropMismatch, Becomes, Others, Handlers
      <3>3. CASE DropInsufficient(r)
        BY <1>0, <3>3 DEF DropInsufficient, Ready, Becomes, Others, Handlers
      <3>4. QED
        BY <1>3, <3>1, <3>2, <3>3
    <2>3. k \in Keys
      BY <1>0
    <2> HIDE DEF k
    <2>4. QED
      BY <2>1, <2>2, <2>3, WritesInvalidate DEF Idle
  <1>4. CASE Store(r)
    <2> DEFINE k == req[r].key
               s == [raw |-> req[r].history, by |-> r]
    <2>1. /\ Unlocked(k) /\ decided' = [decided EXCEPT ![k] = s]
          /\ UNCHANGED <<queue, disk, outcome>> /\ req[r].hold.held = FALSE
          /\ Becomes(r, [Ended EXCEPT !.hold = Holding(k, s)])
      BY <1>0, <1>4 DEF Store, Ready, Decide, Holds
    <2>2. k \in Keys /\ s \in Optional
      BY <1>0, <1>4 DEF Store, Handlers, Optional, Snapshots
    <2> HIDE DEF k, s
    <2>3. /\ Others(r) /\ req'[r].hold = Holding(k, s) /\ req'[r].pc = "done"
          /\ req'[r].load.pc = "none"
      BY <1>0, <2>1 DEF Becomes, Others, Ended, Fresh
    <2>4. QED
      BY <2>1, <2>2, <2>3, WritesTake DEF Idle
  <1>5. QED
    BY <1>1, <1>2, <1>3, <1>4 DEF UseStep

\* Every step keeps the order of the writes.
LEMMA WritesStep == TypeOK /\ Begun /\ WritesInv /\ [Next]_vars => WritesInv'
  <1> SUFFICES ASSUME TypeOK, Begun, WritesInv, [Next]_vars PROVE WritesInv'
    OBVIOUS
  <1>1. ASSUME NEW r \in Requests, Begin(r) PROVE WritesInv'
    <2>1. /\ req[r].hold.held = FALSE
          /\ UNCHANGED <<queue, disk, decided, outcome>>
      BY <1>1 DEF Begin, ghosts, WritesInv, LockInv, LockOf, TypeOK, Handlers, Holds
    <2>2. /\ Others(r) /\ req'[r].hold.held = FALSE /\ req'[r].pc # "idle"
      BY <1>1 DEF Begin, Becomes, Others, Fresh, NoHold, TypeOK
    <2>3. QED
      BY <2>1, <2>2, WritesQuiet
  <1>2. ASSUME NEW r \in Requests, Handle(r) PROVE WritesInv'
    BY <1>2, WritesSubmit, WritesLoad, WritesMigrate, WritesUse DEF Handle
  <1>3. CASE Crash
    <2>1. /\ queue' = [k \in Keys |-> <<>>] /\ outcome' = [k \in Keys |-> "saved"]
          /\ disk' = disk /\ decided' = disk
          /\ \A r \in Requests : req'[r].hold.held = FALSE /\ req'[r].load.pc = "none"
      BY <1>3 DEF Crash, Fresh, Ended, NoHold, NoLoad
    <2>2. LockInv'
      BY <2>1 DEF LockInv, LockOf
    <2>3. \A k \in Keys : KeyWrites(k)'
      BY <2>1 DEF KeyWrites
    <2>4. QED
      BY <2>2, <2>3 DEF WritesInv
  <1>4. CASE (\E old \in SUBSET Keys : Evict(old)) \/ UNCHANGED vars
    <2>1. UNCHANGED <<req, queue, disk, decided, outcome>>
      BY <1>4 DEF Evict, vars, ghosts
    <2>2. WritesKept
      BY <2>1 DEF WritesKept, WritesInv, LockInv, LockOf
    <2>3. QED
      BY <2>2, WritesFrame
  <1>5. QED
    BY <1>1, <1>2, <1>3, <1>4, WritesWritten DEF Next, YoungNext

\* Puts and deletes of one key by any number of requests reach the writer in the order
\* of the memory: once they were tried, the last with success, the row is the last
\* decision (frozenPersistLock).
THEOREM RowIsLastDecisionCorrect == Spec => []RowIsLastDecision
  <1>1. Init => WritesInv
    BY DEF Init, WritesInv, LockInv, LockOf, KeyWrites, Fresh, NoHold, NoLoad
  <1>2. WritesInv => RowIsLastDecision
    BY DEF WritesInv, KeyWrites, RowIsLastDecision, Unlocked
  <1>3. QED
    BY <1>1, <1>2, WritesStep, TypeInvariant, PTL DEF Spec

=============================================================================
