----------------------- MODULE SawtoothTriggerProofs -----------------------
(***************************************************************************)
(* Theorems of SawtoothTrigger, for any number of requests, branches and   *)
(* crashes.                                                                *)
(***************************************************************************)
EXTENDS SawtoothTrigger, TLAPS

-----------------------------------------------------------------------------
(* The operators on the entries                                            *)

\* Keys are numbers, and the bare one is that of no branch.
LEMMA KeyFacts ==
  /\ Keys \subseteq Nat /\ EpochKeys \subseteq Keys /\ Bare \in Keys /\ Bare \notin EpochKeys
  /\ \A k \in Keys : k # Bare => k \in EpochKeys
  BY TriggerAssumption DEF Keys, EpochKeys, Bare

\* The marks of a missing value are no values.
LEMMA ValueFacts ==
  /\ NoRequest \notin Requests /\ NoBase \notin Baselines /\ NoRow \notin Optional /\ Unread \notin Rows
  BY TriggerAssumption DEF Baselines, Optional, Rows

\* Mirroring keeps the type, and changes no entry but the bare one.
LEMMA MirroredFacts ==
  ASSUME NEW s \in [Keys -> Entries], NEW current \in Keys, NEW k \in Keys
  PROVE  /\ Mirrored(s, current, k) \in [Keys -> Entries]
         /\ \A j \in EpochKeys : Mirrored(s, current, k)[j] = s[j]
  BY KeyFacts, ZenonT(40) DEF Mirrored, Copied, Entries

\* The same of an entry that is replaced first.
Replaced(s, current, k, entry) == Mirrored([s EXCEPT ![k] = entry], current, k)

\* Replacing an entry keeps the type of the memory.
LEMMA ReplacedType ==
  ASSUME NEW s \in [Keys -> Entries], NEW current \in Keys, NEW k \in Keys, NEW entry \in Entries
  PROVE  Replaced(s, current, k, entry) \in [Keys -> Entries]
  BY MirroredFacts DEF Replaced

\* Of the entries of the branches, the replaced one is the new one and the others stay.
LEMMA ReplacedFacts ==
  ASSUME NEW s \in [Keys -> Entries], NEW current \in Keys, NEW k \in Keys, NEW entry \in Entries,
         NEW j \in EpochKeys
  PROVE  /\ j # k => Replaced(s, current, k, entry)[j] = s[j]
         /\ j = k => Replaced(s, current, k, entry)[j] = entry
  <1> DEFINE t == [s EXCEPT ![k] = entry]
  <1>1. t \in [Keys -> Entries] /\ t[k] = entry /\ (j # k => t[j] = s[j])
    BY KeyFacts
  <1> HIDE DEF t
  <1>2. Mirrored(t, current, k)[j] = t[j]
    BY <1>1, MirroredFacts
  <1>3. QED
    BY <1>1, <1>2, KeyFacts DEF t, Replaced

\* A key of a branch is its own alias.
LEMMA ResolveFacts ==
  ASSUME NEW k \in Keys, alias \in Keys
  PROVE  Resolve(k) \in Keys /\ (k \in EpochKeys => Resolve(k) = k)
  BY KeyFacts DEF Resolve

\* The constant records have their types.
LEMMA RecordFacts ==
  /\ NoLoad \in Loads /\ NoHold \in [held: BOOLEAN, key: Keys, value: Optional]
  /\ Fresh \in Handlers /\ Ended \in Handlers /\ Absent \in Entries
  /\ NoLoad.pc = "none" /\ NoHold.held = FALSE
  /\ \A k \in Keys, value \in Optional :
       /\ Holding(k, value) \in [held: BOOLEAN, key: Keys, value: Optional]
       /\ Holding(k, value).key = k /\ Holding(k, value).value = value
  BY KeyFacts DEF NoLoad, NoHold, Fresh, Ended, Absent, Holding, Loads, Handlers, Entries,
                  Optional, Rows

\* A step of one request changes its own handler only.
LEMMA BecomesFacts ==
  ASSUME req \in [Requests -> Handlers], NEW r \in Requests, NEW h \in Handlers, Becomes(r, h)
  PROVE  /\ req' \in [Requests -> Handlers] /\ req'[r] = h
         /\ \A q \in Requests : q # r => req'[q] = req[q]
  BY DEF Becomes

-----------------------------------------------------------------------------
(* What each step leaves: the effect of the steps on the entries, and on   *)
(* the handler of the request that takes them                              *)

\* Nobody but r moves.
Only(r) == \A q \in Requests : q # r => req'[q] = req[q]

\* What an accepted update leaves of an entry.
UpdatedTo(entry, k, g, value) ==
  /\ entry.base = value /\ entry.committed = g /\ entry.version = state[k].version + 1
  /\ entry.asked = IF g > state[k].asked THEN g ELSE state[k].asked
  /\ entry.loaded <=> loader[k] = NoRequest

\* The fields of an entry after an accepted update.
LEMMA AnsweredFacts ==
  ASSUME NEW entry \in Entries, NEW free \in BOOLEAN, NEW g \in Nat, NEW value \in Optional
  PROVE  /\ Answered(entry, free, g, value) \in Entries
         /\ Answered(entry, free, g, value).base = value
         /\ Answered(entry, free, g, value).committed = g
         /\ Answered(entry, free, g, value).version = entry.version + 1
         /\ Answered(entry, free, g, value).asked = IF g > entry.asked THEN g ELSE entry.asked
         /\ Answered(entry, free, g, value).loaded = free
  <1>1. /\ entry.seq \in Nat /\ entry.asked \in Nat /\ entry.version + 1 \in Nat
        /\ (IF g > entry.asked THEN g ELSE entry.asked) \in Nat
    BY DEF Entries
  <1>2. QED
    BY <1>1 DEF Answered, Entries

\* An accepted update changes the entry of its key, and no other entry of a branch.
LEMMA UpdatedFacts ==
  ASSUME TypeOK, NEW k \in Keys, NEW g \in Nat, NEW value \in Optional
  PROVE  /\ Updated(k, g, value) \in [Keys -> Entries]
         /\ \A j \in EpochKeys : j # k => Updated(k, g, value)[j] = state[j]
         /\ k \in EpochKeys => UpdatedTo(Updated(k, g, value)[k], k, g, value)
  <1> DEFINE free == loader[k] = NoRequest
             entry == Answered(state[k], free, g, value)
  <1>1. state \in [Keys -> Entries] /\ alias \in Keys /\ state[k] \in Entries
    BY DEF TypeOK
  <1>2. free \in BOOLEAN
    OBVIOUS
  <1>3. Updated(k, g, value) = Replaced(state, alias, k, entry)
    BY DEF Updated, Replaced
  <1>4. free <=> loader[k] = NoRequest
    OBVIOUS
  <1> HIDE DEF free
  <1>0. entry \in Entries
    BY <1>1, <1>2, AnsweredFacts
  <1>5. UpdatedTo(entry, k, g, value)
    BY <1>1, <1>2, <1>4, AnsweredFacts DEF UpdatedTo
  <1> HIDE DEF entry
  <1>6. Updated(k, g, value) \in [Keys -> Entries]
    BY <1>0, <1>1, <1>3, ReplacedType
  <1>7. ASSUME NEW j \in EpochKeys
        PROVE  /\ j # k => Updated(k, g, value)[j] = state[j]
               /\ j = k => Updated(k, g, value)[j] = entry
    BY <1>0, <1>1, <1>3, ReplacedFacts
  <1>8. QED
    BY <1>5, <1>6, <1>7 DEF UpdatedTo

-----------------------------------------------------------------------------
(* Type correctness                                                        *)

\* A request at work works for an epoch.
Begun ==
  \A r \in Requests : req[r].pc \notin {"idle", "done"} => req[r].key \in EpochKeys

\* The types hold at the start.
LEMMA TypeInit == Init => TypeOK /\ Begun
  <1> SUFFICES ASSUME Init PROVE TypeOK /\ Begun
    OBVIOUS
  <1>1. disk \in [Keys -> Rows] /\ decided \in [Keys -> Rows]
    BY DEF Init, Rows, Optional, Baselines
  <1>2. epoch \in Keys
    BY KeyFacts DEF Init, Bare
  <1>3. newest \in [Keys -> [gen: Nat, value: Optional]]
    BY DEF Init, Nothing, Optional
  <1>4. queue \in [Keys -> Seq(Optional)] /\ restarts \in 0..MaxRestarts
    BY TriggerAssumption DEF Init
  <1>5. QED
    BY <1>1, <1>2, <1>3, <1>4, RecordFacts, KeyFacts DEF Init, TypeOK, Begun, Fresh

\* What the head of a load does to the locals.
LEMMA StartLoadFacts ==
  ASSUME TypeOK, NEW r \in Requests, NEW k \in Keys, NEW next \in {"examine", "copy", "look"},
         StartLoad(r, k, next)
  PROVE  /\ req' \in [Requests -> Handlers] /\ loader' \in [Keys -> Requests \cup {NoRequest}]
         /\ Only(r)
         /\ req'[r].pc = next /\ req'[r].key = req[r].key /\ req'[r].gen = req[r].gen
         /\ req'[r].hold = req[r].hold /\ req'[r].result = req[r].result
         /\ \/ /\ state[Resolve(k)].loaded /\ req'[r].load.pc = "none" /\ loader' = loader
            \/ /\ ~state[Resolve(k)].loaded /\ loader[Resolve(k)] # NoRequest
               /\ req'[r].load.pc = "wait" /\ req'[r].load.key = Resolve(k) /\ loader' = loader
            \/ /\ ~state[Resolve(k)].loaded /\ loader[Resolve(k)] = NoRequest
               /\ req'[r].load.pc = "read" /\ req'[r].load.key = Resolve(k)
               /\ req'[r].load.version = state[Resolve(k)].version
               /\ loader' = [loader EXCEPT ![Resolve(k)] = r]
  <1> DEFINE H(l) == [req[r] EXCEPT !.pc = next, !.load = l]
             j == Resolve(k)
             wait == [NoLoad EXCEPT !.pc = "wait", !.key = j]
             read == [pc |-> "read", key |-> j, version |-> state[j].version, row |-> NoRow]
  <1>1. req \in [Requests -> Handlers] /\ req[r] \in Handlers /\ j \in Keys
        /\ state[j].version \in Nat /\ loader \in [Keys -> Requests \cup {NoRequest}]
    BY ResolveFacts DEF TypeOK, Entries
  <1>2. /\ wait \in Loads /\ wait.pc = "wait" /\ wait.key = j
        /\ read \in Loads /\ read.pc = "read" /\ read.key = j
        /\ read.version = state[j].version
    BY <1>1 DEF NoLoad, Loads, Rows
  <1>3. ASSUME NEW l \in Loads, Becomes(r, H(l))
        PROVE  /\ req' \in [Requests -> Handlers] /\ Only(r) /\ req'[r].load = l
               /\ req'[r].pc = next /\ req'[r].key = req[r].key /\ req'[r].gen = req[r].gen
               /\ req'[r].hold = req[r].hold /\ req'[r].result = req[r].result
    BY <1>1, <1>3 DEF Handlers, Becomes, Only
  <1>4. \/ state[j].loaded /\ Becomes(r, H(NoLoad)) /\ loader' = loader
        \/ ~state[j].loaded /\ loader[j] # NoRequest /\ Becomes(r, H(wait)) /\ loader' = loader
        \/ /\ ~state[j].loaded /\ loader[j] = NoRequest /\ Becomes(r, H(read))
           /\ loader' = [loader EXCEPT ![j] = r]
    BY DEF StartLoad
  <1> HIDE DEF H, j, wait, read
  <1>5. CASE state[j].loaded /\ Becomes(r, H(NoLoad)) /\ loader' = loader
    BY <1>1, <1>3, <1>5, RecordFacts DEF j
  <1>6. CASE ~state[j].loaded /\ loader[j] # NoRequest /\ Becomes(r, H(wait)) /\ loader' = loader
    BY <1>1, <1>2, <1>3, <1>6 DEF j
  <1>7. CASE /\ ~state[j].loaded /\ loader[j] = NoRequest /\ Becomes(r, H(read))
             /\ loader' = [loader EXCEPT ![j] = r]
    BY <1>1, <1>2, <1>3, <1>7 DEF j
  <1>8. QED
    BY <1>4, <1>5, <1>6, <1>7

\* A step of a load keeps the rest of the handler.
Kept(q) ==
  /\ req'[q].pc = req[q].pc /\ req'[q].key = req[q].key /\ req'[q].gen = req[q].gen
  /\ req'[q].hold = req[q].hold /\ req'[q].result = req[q].result

\* What the type of a handler says of its fields.
LEMMA HandlerFacts ==
  ASSUME TypeOK, NEW r \in Requests
  PROVE  /\ req \in [Requests -> Handlers] /\ req[r] \in Handlers
         /\ req[r].load \in Loads /\ req[r].load.key \in Keys /\ req[r].load.version \in Nat
         /\ req[r].load.row \in Rows \cup {Unread}
         /\ req[r].key \in Keys /\ req[r].gen \in Nat /\ req[r].hold.key \in Keys
         /\ req[r].hold.held \in BOOLEAN /\ req[r].hold.value \in Optional
  BY DEF TypeOK, Handlers, Loads

\* Reading the row: known or unread, and nothing else outside the reader's locals.
LEMMA ReadRowFacts ==
  ASSUME TypeOK, NEW r \in Requests, ReadRow(r)
  PROVE  /\ TypeOK' /\ Only(r) /\ Kept(r)
         /\ req'[r].load.pc = "publish" /\ req'[r].load.key = req[r].load.key
         /\ req'[r].load.version = req[r].load.version
         /\ req'[r].load.row \in {disk[req[r].load.key], Unread}
         /\ IF req'[r].load.row = Unread
              THEN known' = known /\ unread' = unread \cup {req[r].load.key}
              ELSE known' = known \cup {req[r].load.key} /\ unread' = unread
  <1> DEFINE k == req[r].load.key
             H(row) == [req[r] EXCEPT !.load.pc = "publish", !.load.row = row]
  <1>1. req \in [Requests -> Handlers] /\ req[r] \in Handlers /\ k \in Keys /\ disk[k] \in Rows
    BY HandlerFacts DEF TypeOK
  <1>2. ASSUME NEW row \in Rows \cup {Unread}
        PROVE  /\ H(row) \in Handlers
               /\ H(row).pc = req[r].pc /\ H(row).key = req[r].key /\ H(row).gen = req[r].gen
               /\ H(row).hold = req[r].hold /\ H(row).result = req[r].result
               /\ H(row).load.pc = "publish" /\ H(row).load.key = k /\ H(row).load.row = row
               /\ H(row).load.version = req[r].load.version
    BY <1>1 DEF Handlers, Loads
  <1>3. PICK row \in {disk[k], Unread} :
          /\ Becomes(r, H(row))
          /\ known' = IF row = Unread THEN known ELSE known \cup {k}
          /\ unread' = IF row = Unread THEN unread \cup {k} ELSE unread
    BY DEF ReadRow
  <1>4. row \in Rows \cup {Unread}
    BY <1>1
  <1> HIDE DEF H
  <1>5. req' \in [Requests -> Handlers] /\ req'[r] = H(row) /\ Only(r)
    BY <1>1, <1>2, <1>3, <1>4, BecomesFacts DEF Only
  <1>6. known' \subseteq Keys /\ unread' \subseteq Keys
    BY <1>1, <1>3 DEF TypeOK
  <1>7. TypeOK'
    BY <1>5, <1>6 DEF ReadRow, TypeOK
  <1>8. QED
    BY <1>2, <1>3, <1>4, <1>5, <1>7 DEF Kept

\* What a successful read leaves of the entries of the branches.
LEMMA ReadFacts ==
  ASSUME NEW entry \in Entries, NEW load \in Loads
  PROVE  /\ Read(entry, load) \in Entries
         /\ Read(entry, load).base = IF Applies(entry, load) THEN load.row ELSE entry.base
         /\ Read(entry, load).loaded = TRUE
         /\ Read(entry, load).asked = entry.asked
         /\ Read(entry, load).committed = entry.committed
         /\ Read(entry, load).version = entry.version
         /\ Read(entry, load).seq = entry.seq
  <1> DEFINE found == entry.found \/ load.row # NoRow
             base == IF Applies(entry, load) THEN load.row ELSE entry.base
  <1>1. found \in BOOLEAN /\ base \in Optional
    BY DEF Entries, Applies, Optional
  <1>2. Read(entry, load) = [entry EXCEPT !.base = base, !.found = found, !.loaded = TRUE]
    BY DEF Read
  <1>3. QED
    <2> HIDE DEF found, base
    <2>1. /\ Read(entry, load) \in Entries
          /\ Read(entry, load).base = base /\ Read(entry, load).loaded = TRUE
          /\ Read(entry, load).asked = entry.asked
          /\ Read(entry, load).committed = entry.committed
          /\ Read(entry, load).version = entry.version /\ Read(entry, load).seq = entry.seq
      BY <1>1, <1>2 DEF Entries
    <2>2. QED
      BY <2>1 DEF base

\* What a successful read does to the memory.
LEMMA LearnedFacts ==
  ASSUME TypeOK, NEW k \in Keys, NEW load \in Loads
  PROVE  /\ Learned(k, load) \in [Keys -> Entries]
         /\ \A j \in EpochKeys : j # k => Learned(k, load)[j] = state[j]
         /\ k \in EpochKeys => Learned(k, load)[k] = Read(state[k], load)
  <1> DEFINE e == Read(state[k], load)
             s == [state EXCEPT ![k] = e]
  <1>1. state \in [Keys -> Entries] /\ alias \in Keys /\ e \in Entries
    BY ReadFacts DEF TypeOK
  <1>2. Learned(k, load) = s \/ Learned(k, load) = Replaced(state, alias, k, e)
    BY DEF Learned, Replaced
  <1> HIDE DEF e
  <1>3. CASE Learned(k, load) = s
    BY <1>1, <1>3, KeyFacts DEF e
  <1>4. CASE Learned(k, load) = Replaced(state, alias, k, e)
    <2>1. Learned(k, load) \in [Keys -> Entries]
      BY <1>1, <1>4, ReplacedType
    <2>2. ASSUME NEW j \in EpochKeys
          PROVE  /\ j # k => Learned(k, load)[j] = state[j]
                 /\ j = k => Learned(k, load)[j] = e
      BY <1>1, <1>4, ReplacedFacts
    <2>3. QED
      BY <2>1, <2>2 DEF e
  <1>5. QED
    BY <1>2, <1>3, <1>4

\* The same, whether the read was successful or not.
LEMMA AfterLoadFacts ==
  ASSUME TypeOK, NEW k \in Keys, NEW load \in Loads
  PROVE  /\ AfterLoad(k, load) \in [Keys -> Entries]
         /\ \A j \in EpochKeys : j # k => AfterLoad(k, load)[j] = state[j]
         /\ k \in EpochKeys =>
              AfterLoad(k, load)[k] = IF load.row = Unread THEN state[k] ELSE Read(state[k], load)
  BY LearnedFacts DEF AfterLoad, TypeOK

\* What the end of a load leaves of the entry of a branch.
LEMMA LoadedFacts ==
  ASSUME TypeOK, NEW k \in Keys, NEW load \in Loads, NEW j \in EpochKeys
  PROVE  LET new == AfterLoad(k, load)[j] IN
         /\ new.asked = state[j].asked /\ new.committed = state[j].committed
         /\ new.version = state[j].version
         /\ j # k => new = state[j]
         /\ j = k /\ load.row = Unread => new = state[j]
         /\ j = k /\ load.row # Unread =>
              /\ new.loaded = TRUE
              /\ Applies(state[j], load) => new.base = load.row
              /\ ~Applies(state[j], load) => new.base = state[j].base
  <1> DEFINE new == AfterLoad(k, load)[j]
  <1>1. state[j] \in Entries /\ j \in Keys
    BY KeyFacts DEF TypeOK
  <1>2. \/ new = state[j] /\ (j = k => load.row = Unread)
        \/ new = Read(state[j], load) /\ j = k /\ load.row # Unread
    BY AfterLoadFacts
  <1> HIDE DEF new
  <1>3. CASE new = state[j] /\ (j = k => load.row = Unread)
    BY <1>3 DEF new
  <1>4. CASE new = Read(state[j], load) /\ j = k /\ load.row # Unread
    <2>1. /\ new.asked = state[j].asked /\ new.committed = state[j].committed
          /\ new.version = state[j].version /\ new.loaded = TRUE
          /\ new.base = IF Applies(state[j], load) THEN load.row ELSE state[j].base
      BY <1>1, <1>4, ReadFacts
    <2>2. QED
      BY <1>4, <2>1 DEF new
  <1>5. QED
    BY <1>2, <1>3, <1>4

\* The end of a load: the memory, the shared failure, the waiters and the reader.
LEMMA PublishRowFacts ==
  ASSUME TypeOK, NEW r \in Requests, PublishRow(r)
  PROVE  /\ TypeOK' /\ req[r].load.pc = "publish"
         /\ \A q \in Requests : Kept(q)
         /\ req'[r].load.pc \in {"none", "failed"}
         /\ req'[r].load.pc = "none" => req[r].load.row # Unread
         /\ \A q \in Requests \ {r} :
              \/ req'[q].load = req[q].load
              \/ /\ req'[q].load.pc = "woken" /\ req[q].load.pc = "wait"
                 /\ req'[q].load.key = req[q].load.key
                 /\ req[q].load.key = req[r].load.key
         /\ loader' = [loader EXCEPT ![req[r].load.key] = NoRequest]
         /\ state' = AfterLoad(req[r].load.key, req[r].load)
         /\ failures' = IF req[r].load.row = Unread THEN failures \cup {req[r].load.key}
                                                    ELSE failures \ {req[r].load.key}
         /\ known' = known /\ unread' = unread
  <1> DEFINE k == req[r].load.key
             row == req[r].load.row
             end == [NoLoad EXCEPT !.pc = IF row = Unread THEN "failed" ELSE "none"]
             H(q) == CASE q = r -> [req[q] EXCEPT !.load = end]
                       [] q \in Woken(k, row) -> [req[q] EXCEPT !.load.pc = "woken"]
                       [] OTHER -> req[q]
  <1>1. /\ req[r].load.pc = "publish"
        /\ state' = AfterLoad(k, req[r].load)
        /\ failures' = IF row = Unread THEN failures \cup {k} ELSE failures \ {k}
        /\ loader' = [loader EXCEPT ![k] = NoRequest]
        /\ req' = [q \in Requests |-> H(q)]
        /\ UNCHANGED <<alias, epoch, queue, disk, restarts, ghosts>>
    BY DEF PublishRow
  <1>2. k \in Keys /\ req[r].load \in Loads
    BY HandlerFacts
  <1>3. end \in Loads /\ end.pc \in {"none", "failed"} /\ (end.pc = "none" => row # Unread)
    BY RecordFacts DEF NoLoad, Loads
  <1> HIDE DEF end
  <1>4. ASSUME NEW q \in Requests
        PROVE  /\ H(q) \in Handlers
               /\ H(q).pc = req[q].pc /\ H(q).key = req[q].key /\ H(q).gen = req[q].gen
               /\ H(q).hold = req[q].hold /\ H(q).result = req[q].result
               /\ q = r => H(q).load = end
               /\ q # r => \/ H(q).load = req[q].load
                           \/ /\ H(q).load.pc = "woken" /\ req[q].load.pc = "wait"
                              /\ H(q).load.key = req[q].load.key /\ req[q].load.key = k
    <2>1. req[q] \in Handlers
      BY HandlerFacts
    <2>2. CASE q = r
      <3>0. q \notin Woken(k, row)
        BY <1>1, <2>2 DEF Woken
      <3>1. H(q) = [req[q] EXCEPT !.load = end]
        BY <2>2, <3>0
      <3> HIDE DEF H
      <3>2. QED
        BY <1>3, <2>1, <2>2, <3>1 DEF Handlers
    <2>3. CASE q # r /\ q \in Woken(k, row)
      <3>1. req[q].load.pc = "wait" /\ req[q].load.key = k
        BY <2>3 DEF Woken
      <3>2. H(q) = [req[q] EXCEPT !.load.pc = "woken"]
        BY <2>3
      <3> HIDE DEF H, k
      <3>3. QED
        BY <2>1, <2>3, <3>1, <3>2 DEF Handlers, Loads
    <2>4. CASE q # r /\ q \notin Woken(k, row)
      <3>1. H(q) = req[q]
        BY <2>4
      <3> HIDE DEF H
      <3>2. QED
        BY <2>1, <2>4, <3>1
    <2>5. QED
      BY <2>2, <2>3, <2>4
  <1> HIDE DEF H
  <1>5. req' \in [Requests -> Handlers]
    BY <1>1, <1>4
  <1>6. state' \in [Keys -> Entries]
    BY <1>1, <1>2, AfterLoadFacts
  <1>7. failures' \subseteq Keys /\ loader' \in [Keys -> Requests \cup {NoRequest}]
    BY <1>1, <1>2 DEF TypeOK
  <1>8. TypeOK'
    BY <1>1, <1>5, <1>6, <1>7 DEF TypeOK, ghosts
  <1>9. QED
    BY <1>1, <1>3, <1>4, <1>8 DEF Kept, ghosts

\* A waiter takes over the reader's failure, or goes on.
LEMMA ShareResultFacts ==
  ASSUME TypeOK, NEW r \in Requests, ShareResult(r)
  PROVE  /\ TypeOK' /\ Only(r) /\ Kept(r) /\ req[r].load.pc = "woken"
         /\ req'[r].load.pc \in {"none", "failed"}
         /\ req'[r].load.pc = "none" => req[r].load.key \notin failures
  <1> DEFINE end == [NoLoad EXCEPT !.pc = IF req[r].load.key \in failures THEN "failed" ELSE "none"]
             h == [req[r] EXCEPT !.load = end]
  <1>1. /\ end \in Loads /\ end.pc \in {"none", "failed"}
        /\ end.pc = "none" => req[r].load.key \notin failures
    BY RecordFacts DEF NoLoad, Loads
  <1>2. req[r].load.pc = "woken" /\ Becomes(r, h)
    BY DEF ShareResult
  <1> HIDE DEF end
  <1>3. /\ h \in Handlers /\ h.load = end
        /\ h.pc = req[r].pc /\ h.key = req[r].key /\ h.gen = req[r].gen
        /\ h.hold = req[r].hold /\ h.result = req[r].result
    BY <1>1, HandlerFacts DEF Handlers
  <1> HIDE DEF h
  <1>4. req' \in [Requests -> Handlers] /\ Only(r) /\ req'[r] = h
    BY <1>2, <1>3, HandlerFacts, BecomesFacts DEF Only
  <1>5. TypeOK'
    BY <1>4 DEF ShareResult, TypeOK, ghosts
  <1>6. QED
    BY <1>1, <1>2, <1>3, <1>4, <1>5 DEF Kept

\* The steps that move one request and nothing else.
QuietStep(r) ==
  \/ KeepTarget(r) \/ MigrateNothing(r) \/ LookInMemory(r) \/ GiveUp(r) \/ TakeBaseline(r)
  \/ UsageArrives(r) \/ NoUsage(r)

\* Where a request holds a generation.
Numbered == {"reset", "look", "load", "take", "upstream", "update"}

\* Steps that change their own handler only.
LEMMA QuietFacts ==
  ASSUME TypeOK, NEW r \in Requests, QuietStep(r)
  PROVE  /\ TypeOK' /\ Only(r)
         /\ UNCHANGED <<state, loader, failures, alias, epoch, queue, disk, restarts,
                        newest, known, unread, decided, outcome>>
         /\ req[r].pc \in Numbered \cup {"examine", "copy"}
         /\ req'[r].key = req[r].key /\ ~req[r].hold.held /\ req'[r].hold.held = FALSE
         /\ req'[r].load.pc \in {"none", "failed"}
         /\ req'[r].pc \in {"alias", "take", "load", "upstream", "update", "done"}
         /\ req'[r].gen = IF req'[r].pc = "done" THEN 0 ELSE req[r].gen
         /\ req'[r].pc \in Numbered => req[r].pc \in Numbered
         /\ req'[r].pc = "take" => state[Key(r)].base # NoBase \/ state[Key(r)].loaded
         /\ req'[r].result = "empty" => req[r].result = "empty" \/ req[r].pc = "take"
  <1>0. NoLoad \in Loads /\ req[r] \in Handlers
    BY HandlerFacts, RecordFacts
  <1>1. CASE KeepTarget(r)
    <2> DEFINE h == [req[r] EXCEPT !.pc = "alias", !.load = NoLoad]
    <2>1. /\ h \in Handlers /\ h.pc = "alias" /\ h.load = NoLoad /\ h.key = req[r].key
          /\ h.gen = req[r].gen /\ h.hold = req[r].hold /\ h.result = req[r].result
      BY <1>0 DEF Handlers
    <2>2. Becomes(r, h) /\ req[r].pc = "examine" /\ ~req[r].hold.held
          /\ UNCHANGED <<state, loader, failures, alias, epoch, queue, disk, restarts, ghosts>>
      BY <1>1 DEF KeepTarget, Ready
    <2> HIDE DEF h
    <2>3. QED
      BY <2>1, <2>2, BecomesFacts, HandlerFacts, RecordFacts DEF TypeOK, Only, ghosts, Numbered
  <1>2. CASE MigrateNothing(r)
    <2> DEFINE h == [req[r] EXCEPT !.pc = "alias", !.load = NoLoad]
    <2>1. /\ h \in Handlers /\ h.pc = "alias" /\ h.load = NoLoad /\ h.key = req[r].key
          /\ h.gen = req[r].gen /\ h.hold = req[r].hold /\ h.result = req[r].result
      BY <1>0 DEF Handlers
    <2>2. Becomes(r, h) /\ req[r].pc = "copy" /\ ~req[r].hold.held
          /\ UNCHANGED <<state, loader, failures, alias, epoch, queue, disk, restarts, ghosts>>
      BY <1>2 DEF MigrateNothing, Ready
    <2> HIDE DEF h
    <2>3. QED
      BY <2>1, <2>2, BecomesFacts, HandlerFacts, RecordFacts DEF TypeOK, Only, ghosts, Numbered
  <1>3. CASE LookInMemory(r)
    <2> DEFINE there == state[Key(r)].base # NoBase \/ state[Key(r)].loaded
               pc == IF there THEN "take" ELSE "load"
               h == [req[r] EXCEPT !.pc = pc]
    <2>0. pc \in {"take", "load"} /\ (pc = "take" => there)
      OBVIOUS
    <2>2. Becomes(r, h) /\ req[r].pc = "look" /\ ~req[r].hold.held /\ req[r].load.pc = "none"
          /\ UNCHANGED <<state, loader, failures, alias, epoch, queue, disk, restarts, ghosts>>
      BY <1>3 DEF LookInMemory, Ready
    <2> HIDE DEF pc, there
    <2>1. /\ h \in Handlers /\ h.pc = pc /\ h.load = req[r].load /\ h.key = req[r].key
          /\ h.gen = req[r].gen /\ h.hold = req[r].hold /\ h.result = req[r].result
      BY <1>0, <2>0 DEF Handlers
    <2> HIDE DEF h
    <2>3. /\ req' \in [Requests -> Handlers] /\ req'[r] = h /\ Only(r)
      BY <2>1, <2>2, BecomesFacts, HandlerFacts, RecordFacts DEF Only
    <2>4. TypeOK'
      BY <2>2, <2>3 DEF TypeOK, ghosts
    <2>5. req'[r].pc = "take" => state[Key(r)].base # NoBase \/ state[Key(r)].loaded
      BY <2>0, <2>1, <2>3 DEF there
    <2>6. QED
      BY <2>0, <2>1, <2>2, <2>3, <2>4, <2>5 DEF ghosts, Numbered
  <1>4. CASE GiveUp(r)
    <2> DEFINE h == [req[r] EXCEPT !.load = NoLoad, !.pc = "upstream", !.result = "failed"]
    <2>1. /\ h \in Handlers /\ h.pc = "upstream" /\ h.load = NoLoad /\ h.key = req[r].key
          /\ h.gen = req[r].gen /\ h.hold = req[r].hold /\ h.result = "failed"
      BY <1>0 DEF Handlers
    <2>2. Becomes(r, h) /\ req[r].pc = "look" /\ ~req[r].hold.held
          /\ UNCHANGED <<state, loader, failures, alias, epoch, queue, disk, restarts, ghosts>>
      BY <1>4 DEF GiveUp, Ready
    <2> HIDE DEF h
    <2>3. QED
      BY <2>1, <2>2, BecomesFacts, HandlerFacts, RecordFacts DEF TypeOK, Only, ghosts, Numbered
  <1>5. CASE TakeBaseline(r)
    <2> DEFINE base == state[Key(r)].base
               result == IF base = NoBase THEN "empty" ELSE "actual"
               h == [req[r] EXCEPT !.pc = "upstream", !.seen = base, !.result = result]
    <2>0. base \in Optional /\ result \in {"empty", "actual"}
      BY ResolveFacts, HandlerFacts DEF TypeOK, Entries, Key
    <2>2. Becomes(r, h) /\ req[r].pc = "take" /\ ~req[r].hold.held
          /\ req[r].load.pc \in {"none", "failed"}
          /\ UNCHANGED <<state, loader, failures, alias, epoch, queue, disk, restarts, ghosts>>
      BY <1>5 DEF TakeBaseline, Ready
    <2> HIDE DEF base, result
    <2>1. /\ h \in Handlers /\ h.pc = "upstream" /\ h.load = req[r].load /\ h.key = req[r].key
          /\ h.gen = req[r].gen /\ h.hold = req[r].hold
      BY <1>0, <2>0 DEF Handlers
    <2> HIDE DEF h
    <2>3. QED
      BY <2>1, <2>2, BecomesFacts, HandlerFacts, RecordFacts, SMTT(30) DEF TypeOK, Only, ghosts, Numbered
  <1>6. CASE UsageArrives(r)
    <2> DEFINE h == [req[r] EXCEPT !.pc = "update"]
    <2>1. /\ h \in Handlers /\ h.pc = "update" /\ h.load = req[r].load /\ h.key = req[r].key
          /\ h.gen = req[r].gen /\ h.hold = req[r].hold /\ h.result = req[r].result
      BY <1>0 DEF Handlers
    <2>2. Becomes(r, h) /\ req[r].pc = "upstream" /\ ~req[r].hold.held
          /\ req[r].load.pc \in {"none", "failed"}
          /\ UNCHANGED <<state, loader, failures, alias, epoch, queue, disk, restarts, ghosts>>
      BY <1>6 DEF UsageArrives, Ready
    <2> HIDE DEF h
    <2>3. QED
      BY <2>1, <2>2, BecomesFacts, HandlerFacts, RecordFacts DEF TypeOK, Only, ghosts, Numbered
  <1>7. CASE NoUsage(r)
    <2>1. /\ Done(r) \in Handlers /\ Done(r).pc = "done" /\ Done(r).load = NoLoad
          /\ Done(r).key = req[r].key /\ Done(r).gen = 0 /\ Done(r).hold = NoHold
          /\ Done(r).result = "none"
      BY HandlerFacts, RecordFacts DEF Done, Ended, Fresh, Handlers
    <2>2. Becomes(r, Done(r)) /\ req[r].pc = "upstream" /\ ~req[r].hold.held
          /\ UNCHANGED <<state, loader, failures, alias, epoch, queue, disk, restarts, ghosts>>
      BY <1>7 DEF NoUsage, Ready
    <2>3. QED
      BY <2>1, <2>2, BecomesFacts, HandlerFacts, RecordFacts DEF TypeOK, Only, ghosts, Numbered
  <1>8. QED
    BY <1>1, <1>2, <1>3, <1>4, <1>5, <1>6, <1>7 DEF QuietStep

\* A submission: accepted at the end of the key's queue, or lost; the key's lock is free.
LEMMA SubmitFacts ==
  ASSUME TypeOK, NEW r \in Requests, Submit(r)
  PROVE  /\ TypeOK' /\ Only(r) /\ req[r].hold.held /\ req'[r].hold.held = FALSE
         /\ req'[r].pc = req[r].pc /\ req'[r].key = req[r].key /\ req'[r].gen = req[r].gen
         /\ req'[r].load = req[r].load /\ req'[r].result = req[r].result
         /\ \/ /\ queue' = [queue EXCEPT ![req[r].hold.key] = Append(@, req[r].hold.value)]
               /\ outcome' = [outcome EXCEPT ![req[r].hold.key] = "pending"]
            \/ /\ outcome' = [outcome EXCEPT ![req[r].hold.key] = "lost"]
               /\ queue' = queue
         /\ UNCHANGED <<state, loader, failures, alias, epoch, disk, restarts,
                        newest, known, unread, decided>>
  <1> DEFINE h == [req[r] EXCEPT !.hold = NoHold]
             k == req[r].hold.key
             v == req[r].hold.value
  <1>0. NoHold \in [held: BOOLEAN, key: Keys, value: Optional] /\ req[r] \in Handlers
    BY HandlerFacts, RecordFacts
  <1>1. /\ h \in Handlers /\ h.pc = req[r].pc /\ h.key = req[r].key /\ h.gen = req[r].gen
        /\ h.load = req[r].load /\ h.result = req[r].result /\ h.hold = NoHold
    BY <1>0 DEF Handlers
  <1>2. Becomes(r, h)
    BY DEF Submit
  <1> HIDE DEF h
  <1>3. req' \in [Requests -> Handlers] /\ req'[r] = h /\ Only(r)
    BY <1>1, <1>2, HandlerFacts, BecomesFacts DEF Only
  <1>4. k \in Keys /\ v \in Optional
    BY HandlerFacts
  <1>5. \/ queue' = [queue EXCEPT ![k] = Append(@, v)] /\ outcome' = [outcome EXCEPT ![k] = "pending"]
        \/ outcome' = [outcome EXCEPT ![k] = "lost"] /\ queue' = queue
    BY DEF Submit
  <1>6. queue' \in [Keys -> Seq(Optional)]
    <2>1. queue \in [Keys -> Seq(Optional)]
      BY DEF TypeOK
    <2>2. Append(queue[k], v) \in Seq(Optional)
      BY <1>4, <2>1
    <2> HIDE DEF k, v
    <2>3. QED
      BY <1>5, <2>1, <2>2
  <1>7. outcome' \in [Keys -> {"pending", "saved", "lost"}]
    BY <1>4, <1>5 DEF TypeOK
  <1>8. TypeOK'
    BY <1>3, <1>6, <1>7 DEF Submit, TypeOK
  <1>9. QED
    BY <1>1, <1>3, <1>5, <1>8, RecordFacts DEF Submit

\* The steps that look for a row before a load.
LoadHead(r) == LoadTarget(r) \/ LoadBare(r) \/ LookOnDisk(r)

\* The three calls that start a load.
LEMMA LoadHeadFacts ==
  ASSUME TypeOK, NEW r \in Requests, LoadHead(r)
  PROVE  \E k \in Keys :
         /\ TypeOK' /\ Only(r)
         /\ UNCHANGED <<state, failures, alias, epoch, queue, disk, restarts,
                        newest, known, unread, decided, outcome>>
         /\ req'[r].key = req[r].key /\ req'[r].gen = req[r].gen
         /\ req[r].hold.held = FALSE /\ req'[r].hold = req[r].hold /\ req'[r].result = req[r].result
         /\ \/ req[r].pc = "migrate" /\ req'[r].pc = "examine" /\ k = Resolve(req[r].key)
            \/ /\ req[r].pc = "examine" /\ req'[r].pc = "copy" /\ k = Resolve(Bare)
               /\ req[r].load.pc # "failed"
            \/ req[r].pc = "load" /\ req'[r].pc = "look" /\ k = Resolve(req[r].key)
         /\ req[r].load.pc \in {"none", "failed"}
         /\ \/ /\ state[k].loaded /\ req'[r].load.pc = "none" /\ loader' = loader
            \/ /\ ~state[k].loaded /\ loader[k] # NoRequest
               /\ req'[r].load.pc = "wait" /\ req'[r].load.key = k /\ loader' = loader
            \/ /\ ~state[k].loaded /\ loader[k] = NoRequest
               /\ req'[r].load.pc = "read" /\ req'[r].load.key = k
               /\ req'[r].load.version = state[k].version
               /\ loader' = [loader EXCEPT ![k] = r]
  <1>0. req[r].key \in Keys /\ Bare \in Keys /\ req[r].hold.held \in BOOLEAN /\ alias \in Keys
    BY HandlerFacts, KeyFacts DEF TypeOK
  <1>1. CASE LoadTarget(r)
    <2>1. StartLoad(r, req[r].key, "examine") /\ req[r].pc = "migrate" /\ ~req[r].hold.held
          /\ req[r].load.pc \in {"none", "failed"}
          /\ UNCHANGED <<state, failures, alias, epoch, queue, disk, restarts, ghosts>>
      BY <1>1 DEF LoadTarget, Ready
    <2>2. Resolve(req[r].key) \in Keys
      BY <1>0, ResolveFacts
    <2>3. TypeOK'
      BY <1>0, <2>1, StartLoadFacts DEF TypeOK, ghosts
    <2>4. QED
      BY <1>0, <2>1, <2>2, <2>3, StartLoadFacts DEF ghosts
  <1>2. CASE LoadBare(r)
    <2>1. StartLoad(r, Bare, "copy") /\ req[r].pc = "examine" /\ ~req[r].hold.held
          /\ req[r].load.pc \in {"none", "failed"} /\ req[r].load.pc # "failed"
          /\ UNCHANGED <<state, failures, alias, epoch, queue, disk, restarts, ghosts>>
      BY <1>2 DEF LoadBare, Ready, TargetEmpty
    <2>2. Resolve(Bare) \in Keys
      BY <1>0, ResolveFacts
    <2>3. TypeOK'
      BY <1>0, <2>1, StartLoadFacts DEF TypeOK, ghosts
    <2>4. QED
      BY <1>0, <2>1, <2>2, <2>3, StartLoadFacts DEF ghosts
  <1>3. CASE LookOnDisk(r)
    <2>1. StartLoad(r, req[r].key, "look") /\ req[r].pc = "load" /\ ~req[r].hold.held
          /\ req[r].load.pc \in {"none", "failed"}
          /\ UNCHANGED <<state, failures, alias, epoch, queue, disk, restarts, ghosts>>
      BY <1>3 DEF LookOnDisk, Ready
    <2>2. Resolve(req[r].key) \in Keys
      BY <1>0, ResolveFacts
    <2>3. TypeOK'
      BY <1>0, <2>1, StartLoadFacts DEF TypeOK, ghosts
    <2>4. QED
      BY <1>0, <2>1, <2>2, <2>3, StartLoadFacts DEF ghosts
  <1>4. QED
    BY <1>1, <1>2, <1>3 DEF LoadHead

\* The epoch manager keeps the epoch or opens the next.
LEMMA BeginFacts ==
  ASSUME TypeOK, NEW r \in Requests, Begin(r)
  PROVE  /\ TypeOK' /\ Only(r)
         /\ UNCHANGED <<state, loader, failures, alias, queue, disk, restarts,
                        newest, known, unread, decided, outcome>>
         /\ req[r].pc = "idle" /\ req'[r].pc \in {"migrate", "alias"}
         /\ req'[r].key \in EpochKeys /\ (req'[r].pc = "migrate" => req'[r].key = 1)
         /\ req'[r].gen = 0 /\ req'[r].load = NoLoad /\ req'[r].hold = NoHold
         /\ req'[r].result = "none"
  <1>1. PICK safe \in BOOLEAN, changed \in BOOLEAN :
          /\ IF changed THEN epoch < MaxEpoch ELSE epoch > 0
          /\ epoch' = IF changed THEN epoch + 1 ELSE epoch
          /\ Becomes(r, [Fresh EXCEPT !.pc = IF epoch' = 1 THEN "migrate" ELSE "alias",
                           !.key = epoch', !.safe = safe, !.changed = changed])
    BY DEF Begin
  <1>2. epoch' \in EpochKeys
    BY <1>1, TriggerAssumption DEF TypeOK, Keys, EpochKeys, Bare
  <1> DEFINE pc == IF epoch' = 1 THEN "migrate" ELSE "alias"
             h == [Fresh EXCEPT !.pc = pc, !.key = epoch', !.safe = safe, !.changed = changed]
  <1>3. pc \in {"migrate", "alias"} /\ (pc = "migrate" => epoch' = 1)
    OBVIOUS
  <1>4. Becomes(r, h)
    BY <1>1
  <1> HIDE DEF pc
  <1>5. /\ h \in Handlers /\ h.pc = pc /\ h.key = epoch' /\ h.gen = 0 /\ h.load = NoLoad
        /\ h.hold = NoHold /\ h.result = "none"
    BY <1>2, <1>3, KeyFacts, RecordFacts DEF Fresh, Handlers
  <1> HIDE DEF h
  <1>6. req' \in [Requests -> Handlers] /\ req'[r] = h /\ Only(r)
    BY <1>4, <1>5, HandlerFacts, BecomesFacts DEF Only
  <1>7. TypeOK'
    BY <1>2, <1>6, KeyFacts DEF Begin, TypeOK, ghosts
  <1>8. QED
    BY <1>2, <1>3, <1>5, <1>6, <1>7 DEF Begin, ghosts

\* The bare key shows the branch of the request; no entry of a branch changes.
LEMMA SetCurrentAliasFacts ==
  ASSUME TypeOK, NEW r \in Requests, SetCurrentAlias(r)
  PROVE  /\ TypeOK' /\ Only(r)
         /\ \A j \in EpochKeys : state'[j] = state[j]
         /\ UNCHANGED <<loader, failures, epoch, queue, disk, restarts,
                        newest, known, unread, decided, outcome>>
         /\ req[r].pc = "alias" /\ req'[r].pc \in {"count", "unsafe"}
         /\ req'[r].key = req[r].key /\ req'[r].gen = req[r].gen /\ req'[r].load = req[r].load
         /\ req'[r].hold = req[r].hold /\ req'[r].result = req[r].result
         /\ req[r].hold.held = FALSE /\ req[r].load.pc \in {"none", "failed"}
  <1> DEFINE pc == IF req[r].safe \/ req[r].changed THEN "count" ELSE "unsafe"
             h == [req[r] EXCEPT !.pc = pc]
  <1>1. pc \in {"count", "unsafe"}
    OBVIOUS
  <1>2. /\ Becomes(r, h) /\ req[r].pc = "alias" /\ ~req[r].hold.held
        /\ req[r].load.pc \in {"none", "failed"}
        /\ alias' = req[r].key /\ state' = Mirrored(state, req[r].key, req[r].key)
        /\ UNCHANGED <<loader, failures, epoch, queue, disk, restarts, ghosts>>
    BY DEF SetCurrentAlias, Ready
  <1> HIDE DEF pc
  <1>3. /\ h \in Handlers /\ h.pc = pc /\ h.key = req[r].key /\ h.gen = req[r].gen
        /\ h.load = req[r].load /\ h.hold = req[r].hold /\ h.result = req[r].result
    BY <1>1, HandlerFacts DEF Handlers
  <1> HIDE DEF h
  <1>4. req' \in [Requests -> Handlers] /\ req'[r] = h /\ Only(r)
    BY <1>2, <1>3, HandlerFacts, BecomesFacts DEF Only
  <1>5. /\ state \in [Keys -> Entries] /\ req[r].key \in Keys
    BY HandlerFacts DEF TypeOK
  <1>6. state' \in [Keys -> Entries] /\ \A j \in EpochKeys : state'[j] = state[j]
    BY <1>2, <1>5, MirroredFacts
  <1>7. TypeOK'
    BY <1>2, <1>4, <1>5, <1>6 DEF TypeOK, ghosts
  <1>8. QED
    BY <1>1, <1>2, <1>3, <1>4, <1>6, <1>7, HandlerFacts DEF ghosts

\* Taking a number and counting a request touch one entry and none of its baseline.
LEMMA NumberFacts ==
  ASSUME TypeOK, NEW r \in Requests, BeginPressureRequest(r) \/ IncrementRequestSeq(r)
  PROVE  /\ TypeOK' /\ Only(r)
         /\ \A j \in EpochKeys : j # Key(r) => state'[j] = state[j]
         /\ Key(r) \in EpochKeys =>
              LET old == state[Key(r)]
                  new == state'[Key(r)]
              IN /\ new.base = old.base /\ new.committed = old.committed
                 /\ new.version = old.version /\ new.loaded = old.loaded
                 /\ \/ /\ req[r].pc = "count" /\ req'[r].pc = "begin" /\ new.asked = old.asked
                       /\ req'[r].gen = req[r].gen
                    \/ /\ req[r].pc \in {"unsafe", "begin"}
                       /\ req'[r].pc \in {"reset", "look", "upstream"}
                       /\ new.asked = old.asked + 1 /\ req'[r].gen = new.asked
         /\ UNCHANGED <<loader, failures, alias, epoch, queue, disk, restarts,
                        newest, known, unread, decided, outcome>>
         /\ req'[r].key = req[r].key /\ req'[r].load = req[r].load
         /\ req'[r].hold = req[r].hold /\ req'[r].result = req[r].result
         /\ req[r].hold.held = FALSE /\ req[r].load.pc \in {"none", "failed"}
         /\ req[r].pc \in {"count", "unsafe", "begin"}
         /\ req'[r].pc \in {"begin", "reset", "look", "upstream"}
  <1> DEFINE k == Key(r)
  <1>1. /\ state \in [Keys -> Entries] /\ alias \in Keys /\ k \in Keys /\ state[k] \in Entries
        /\ req[r] \in Handlers /\ req[r].hold.held \in BOOLEAN /\ req \in [Requests -> Handlers]
    BY ResolveFacts, HandlerFacts DEF TypeOK, Key
  <1>2. ASSUME NEW e \in Entries, state' = Replaced(state, alias, k, e)
        PROVE  /\ state' \in [Keys -> Entries]
               /\ \A j \in EpochKeys : j # k => state'[j] = state[j]
               /\ k \in EpochKeys => state'[k] = e
    <2>1. state' \in [Keys -> Entries]
      BY <1>1, <1>2, ReplacedType
    <2>2. ASSUME NEW j \in EpochKeys PROVE (j # k => state'[j] = state[j]) /\ (j = k => state'[j] = e)
      BY <1>1, <1>2, ReplacedFacts
    <2>3. QED
      BY <2>1, <2>2
  <1>3. CASE BeginPressureRequest(r)
    <2> DEFINE g == state[k].asked + 1
               e == [state[k] EXCEPT !.asked = g]
               pc == CASE req[r].pc = "unsafe" -> "reset" [] req[r].safe -> "look"
                       [] OTHER -> "upstream"
               h == [req[r] EXCEPT !.gen = g, !.pc = pc]
    <2>1. g \in Nat /\ pc \in {"reset", "look", "upstream"}
      BY <1>1 DEF Entries
    <2>2. /\ Becomes(r, h) /\ req[r].pc \in {"unsafe", "begin"} /\ ~req[r].hold.held
          /\ req[r].load.pc \in {"none", "failed"}
          /\ state' = Replaced(state, alias, k, e)
          /\ UNCHANGED <<loader, failures, alias, epoch, queue, disk, restarts, ghosts>>
      BY <1>1, <1>3 DEF BeginPressureRequest, Ready, NextGeneration, Replaced, Entries
    <2>3. /\ e \in Entries /\ e.base = state[k].base /\ e.committed = state[k].committed
          /\ e.version = state[k].version /\ e.loaded = state[k].loaded /\ e.asked = g
      BY <1>1, <2>1 DEF Entries
    <2>4. g = state[k].asked + 1
      OBVIOUS
    <2> HIDE DEF g, pc, e
    <2>5. /\ h \in Handlers /\ h.pc = pc /\ h.gen = g /\ h.key = req[r].key /\ h.load = req[r].load
          /\ h.hold = req[r].hold /\ h.result = req[r].result
      BY <1>1, <2>1 DEF Handlers
    <2> HIDE DEF h
    <2>6. req' \in [Requests -> Handlers] /\ req'[r] = h /\ Only(r)
      BY <1>1, <2>2, <2>5, BecomesFacts DEF Only
    <2>7. /\ state' \in [Keys -> Entries]
          /\ \A j \in EpochKeys : j # k => state'[j] = state[j]
          /\ k \in EpochKeys => state'[k] = e
      BY <1>2, <2>2, <2>3
    <2>8. TypeOK'
      BY <2>2, <2>6, <2>7 DEF TypeOK, ghosts
    <2>9. QED
      BY <1>1, <2>1, <2>2, <2>3, <2>4, <2>5, <2>6, <2>7, <2>8 DEF ghosts
  <1>4. CASE IncrementRequestSeq(r)
    <2> DEFINE e == [state[k] EXCEPT !.seq = state[k].seq + 1]
               h == [req[r] EXCEPT !.pc = "begin"]
    <2>2. /\ Becomes(r, h) /\ req[r].pc = "count" /\ ~req[r].hold.held
          /\ req[r].load.pc \in {"none", "failed"}
          /\ state' = Replaced(state, alias, k, e)
          /\ UNCHANGED <<loader, failures, alias, epoch, queue, disk, restarts, ghosts>>
      BY <1>1, <1>4 DEF IncrementRequestSeq, Ready, Replaced, Entries
    <2>3. /\ e \in Entries /\ e.base = state[k].base /\ e.committed = state[k].committed
          /\ e.version = state[k].version /\ e.loaded = state[k].loaded
          /\ e.asked = state[k].asked
      BY <1>1 DEF Entries
    <2> HIDE DEF e
    <2>5. /\ h \in Handlers /\ h.pc = "begin" /\ h.gen = req[r].gen /\ h.key = req[r].key
          /\ h.load = req[r].load /\ h.hold = req[r].hold /\ h.result = req[r].result
      BY <1>1 DEF Handlers
    <2> HIDE DEF h
    <2>6. req' \in [Requests -> Handlers] /\ req'[r] = h /\ Only(r)
      BY <1>1, <2>2, <2>5, BecomesFacts DEF Only
    <2>7. /\ state' \in [Keys -> Entries]
          /\ \A j \in EpochKeys : j # k => state'[j] = state[j]
          /\ k \in EpochKeys => state'[k] = e
      BY <1>2, <2>2, <2>3
    <2>8. TypeOK'
      BY <2>2, <2>6, <2>7 DEF TypeOK, ghosts
    <2>9. QED
      BY <1>1, <2>2, <2>3, <2>5, <2>6, <2>7, <2>8 DEF ghosts
  <1>5. QED
    BY <1>3, <1>4

\* The migration fills the empty entry of the first branch from the bare one.
LEMMA MigrateFacts ==
  ASSUME TypeOK, NEW r \in Requests, Migrate(r)
  PROVE  LET k == req[r].key IN
         /\ TypeOK' /\ Only(r)
         /\ \A j \in EpochKeys : j # k => state'[j] = state[j]
         /\ k \in EpochKeys =>
              /\ state'[k].base = state[Bare].base
              /\ state'[k].committed = state[Bare].committed
              /\ state'[k].asked = state[Bare].asked
              /\ state'[k].version = state[Bare].version
              /\ state'[k].loaded = TRUE
         /\ ~HasState(state[k])
         /\ UNCHANGED <<loader, failures, alias, epoch, queue, disk, restarts,
                        newest, unread, outcome>>
         /\ Unlocked(k)
         /\ \/ /\ state[Bare].base = NoBase /\ known' = known /\ decided' = decided
               /\ req'[r].hold.held = FALSE
            \/ /\ state[Bare].base # NoBase /\ known' = known \cup {k}
               /\ decided' = [decided EXCEPT ![k] = state[Bare].base]
               /\ req'[r].hold = Holding(k, state[Bare].base)
         /\ req[r].pc = "copy" /\ req'[r].pc = "alias"
         /\ req'[r].key = req[r].key /\ req'[r].gen = req[r].gen /\ req'[r].load = NoLoad
         /\ req[r].hold.held = FALSE /\ req'[r].result = req[r].result
         /\ req[r].load.pc \in {"none", "failed"}
  <1> DEFINE k == req[r].key
             base == state[Bare].base
             e == Migrated(state[Bare], state[k])
             hold == IF base = NoBase THEN NoHold ELSE Holding(k, base)
             h == [req[r] EXCEPT !.pc = "alias", !.load = NoLoad, !.hold = hold]
  <1>1. /\ state \in [Keys -> Entries] /\ k \in Keys /\ state[k] \in Entries
        /\ state[Bare] \in Entries /\ base \in Optional
        /\ req[r] \in Handlers /\ req[r].hold.held \in BOOLEAN /\ req \in [Requests -> Handlers]
    BY KeyFacts, HandlerFacts DEF TypeOK, Entries
  <1>2. /\ Becomes(r, h) /\ req[r].pc = "copy" /\ ~req[r].hold.held
        /\ req[r].load.pc \in {"none", "failed"}
        /\ Unlocked(k) /\ ~HasState(state[k])
        /\ state' = [state EXCEPT ![k] = e]
        /\ known' = IF base = NoBase THEN known ELSE known \cup {k}
        /\ decided' = IF base = NoBase THEN decided ELSE [decided EXCEPT ![k] = base]
        /\ UNCHANGED <<loader, failures, alias, epoch, queue, disk, restarts,
                       newest, unread, outcome>>
    BY DEF Migrate, MayCopy, Ready
  <1>3. /\ e \in Entries /\ e.base = base /\ e.committed = state[Bare].committed
        /\ e.asked = state[Bare].asked /\ e.version = state[Bare].version /\ e.loaded = TRUE
    <2> DEFINE found == state[k].found \/ base # NoBase
               c == Copied(state[Bare], state[k])
    <2>1. found \in BOOLEAN
      BY <1>1 DEF Entries
    <2>2. /\ c \in Entries /\ c.base = base /\ c.committed = state[Bare].committed
          /\ c.asked = state[Bare].asked /\ c.version = state[Bare].version
      BY <1>1 DEF Copied, Entries
    <2>3. e = [c EXCEPT !.loaded = TRUE, !.found = found]
      BY DEF Migrated
    <2> HIDE DEF found, c, e, base
    <2>4. QED
      BY <2>1, <2>2, <2>3 DEF Entries
  <1>4. hold \in [held: BOOLEAN, key: Keys, value: Optional]
    BY <1>1, RecordFacts
  <1>5. /\ base = NoBase => hold.held = FALSE
        /\ base # NoBase => hold = Holding(k, base)
    BY RecordFacts
  <1> HIDE DEF e, hold
  <1>6. /\ h \in Handlers /\ h.pc = "alias" /\ h.gen = req[r].gen /\ h.key = req[r].key
        /\ h.load = NoLoad /\ h.hold = hold /\ h.result = req[r].result
    BY <1>1, <1>4, RecordFacts DEF Handlers
  <1> HIDE DEF h
  <1>7. req' \in [Requests -> Handlers] /\ req'[r] = h /\ Only(r)
    BY <1>1, <1>2, <1>6, BecomesFacts DEF Only
  <1>8. /\ state' \in [Keys -> Entries]
        /\ \A j \in EpochKeys : j # k => state'[j] = state[j]
        /\ state'[k] = e
    BY <1>1, <1>2, <1>3, KeyFacts
  <1>9. known' \subseteq Keys /\ decided' \in [Keys -> Rows]
    BY <1>1, <1>2 DEF TypeOK, Rows
  <1>10. TypeOK'
    BY <1>2, <1>7, <1>8, <1>9 DEF TypeOK
  <1>11. QED
    BY <1>1, <1>2, <1>3, <1>5, <1>6, <1>7, <1>8, <1>10

\* An update by r, of the entry of its key.
UpdateStep(r) == ResetPressureBaseline(r) \/ WriteBack(r)

\* An update is accepted, and holds the key's lock, or is refused; both end its call.
LEMMA UpdateFacts ==
  ASSUME TypeOK, NEW r \in Requests, UpdateStep(r)
  PROVE  \E value \in Optional :
         LET k == Key(r)
             g == req[r].gen
         IN
         /\ TypeOK' /\ Only(r) /\ k \in Keys /\ Unlocked(k)
         /\ value = NoBase \/ value = r
         /\ newest' = IF g >= newest[k].gen THEN [newest EXCEPT ![k] = [gen |-> g, value |-> value]]
                                            ELSE newest
         /\ \/ /\ g >= state[k].committed
               /\ \A j \in EpochKeys : j # k => state'[j] = state[j]
               /\ k \in EpochKeys => UpdatedTo(state'[k], k, g, value)
               /\ known' = known \cup {k}
               /\ decided' = [decided EXCEPT ![k] = value]
               /\ req'[r].hold = Holding(k, value)
            \/ /\ ~(g >= state[k].committed)
               /\ UNCHANGED <<state, known, decided>>
               /\ req'[r].hold.held = FALSE
         /\ UNCHANGED <<loader, failures, alias, epoch, queue, disk, restarts, unread, outcome>>
         /\ req[r].pc \in {"reset", "update"} /\ req'[r].pc \in {"count", "done"}
         /\ req'[r].key = req[r].key /\ req'[r].gen = 0
         /\ req'[r].load.pc \in {"none", "failed"} /\ req[r].load.pc \in {"none", "failed"}
         /\ req[r].hold.held = FALSE
         /\ req'[r].result = req[r].result \/ req'[r].result = "none"
  <1>0. req[r] \in Handlers /\ req[r].gen \in Nat /\ req[r].key \in Keys
    BY HandlerFacts
  <1>1. PICK value \in Optional, h \in Handlers :
          /\ Update(r, Key(r), value, h)
          /\ value = NoBase \/ value = r
          /\ req[r].pc \in {"reset", "update"} /\ ~req[r].hold.held
          /\ req[r].load.pc \in {"none", "failed"}
          /\ h.pc \in {"count", "done"} /\ h.key = req[r].key /\ h.gen = 0
          /\ h.load.pc \in {"none", "failed"} /\ h.hold.held = FALSE
          /\ h.result = req[r].result \/ h.result = "none"
    <2>1. CASE ResetPressureBaseline(r)
      <3> DEFINE h == [req[r] EXCEPT !.pc = "count", !.gen = 0]
      <3>1. /\ Update(r, Key(r), NoBase, h) /\ req[r].pc = "reset" /\ ~req[r].hold.held
            /\ req[r].load.pc \in {"none", "failed"}
        BY <2>1 DEF ResetPressureBaseline, Ready
      <3>2. /\ h \in Handlers /\ h.pc = "count" /\ h.gen = 0 /\ h.key = req[r].key
            /\ h.load = req[r].load /\ h.hold = req[r].hold /\ h.result = req[r].result
        BY <1>0 DEF Handlers
      <3>3. req[r].hold.held = FALSE /\ NoBase \in Optional
        BY <3>1, HandlerFacts DEF Optional
      <3> HIDE DEF h
      <3>4. QED
        BY <3>1, <3>2, <3>3
    <2>2. CASE WriteBack(r)
      <3>1. /\ Update(r, Key(r), r, Done(r)) /\ req[r].pc = "update" /\ ~req[r].hold.held
            /\ req[r].load.pc \in {"none", "failed"}
        BY <2>2 DEF WriteBack, Ready, UsageKey
      <3>2. /\ Done(r) \in Handlers /\ Done(r).pc = "done" /\ Done(r).load = NoLoad
            /\ Done(r).key = req[r].key /\ Done(r).gen = 0 /\ Done(r).hold = NoHold
            /\ Done(r).result = "none"
        BY <1>0, HandlerFacts, RecordFacts, ZenonT(40) DEF Done, Ended, Fresh, Handlers
      <3>3. r \in Optional
        BY DEF Optional, Baselines
      <3>4. QED
        BY <3>1, <3>2, <3>3, RecordFacts
    <2>3. QED
      BY <2>1, <2>2 DEF UpdateStep
  <1> DEFINE k == Key(r)
             g == req[r].gen
             h2 == [h EXCEPT !.hold = Holding(k, value)]
  <1>2. k \in Keys /\ alias \in Keys /\ req \in [Requests -> Handlers]
    BY <1>0, ResolveFacts, HandlerFacts DEF Key, TypeOK
  <1>3. /\ Unlocked(k)
        /\ newest' = IF g >= newest[k].gen THEN [newest EXCEPT ![k] = [gen |-> g, value |-> value]]
                                           ELSE newest
        /\ UNCHANGED <<loader, failures, alias, epoch, queue, disk, restarts, unread, outcome>>
    BY <1>1 DEF Update
  <1>4. \/ /\ g >= state[k].committed /\ state' = Updated(k, g, value)
           /\ known' = known \cup {k} /\ decided' = [decided EXCEPT ![k] = value]
           /\ Becomes(r, h2)
        \/ /\ ~(g >= state[k].committed) /\ UNCHANGED <<state, known, decided>>
           /\ Becomes(r, h)
    BY <1>1 DEF Update, Accepts
  <1>5. Holding(k, value) \in [held: BOOLEAN, key: Keys, value: Optional]
    BY <1>2, RecordFacts
  <1>6. /\ h2 \in Handlers /\ h2.pc = h.pc /\ h2.key = h.key /\ h2.gen = h.gen /\ h2.load = h.load
        /\ h2.result = h.result /\ h2.hold = Holding(k, value)
    BY <1>5 DEF Handlers
  <1> HIDE DEF h2, k
  <1>7. newest' \in [Keys -> [gen: Nat, value: Optional]]
    BY <1>0, <1>2, <1>3 DEF TypeOK
  <1>8. CASE /\ g >= state[k].committed /\ state' = Updated(k, g, value)
             /\ known' = known \cup {k} /\ decided' = [decided EXCEPT ![k] = value]
             /\ Becomes(r, h2)
    <2>1. /\ state' \in [Keys -> Entries]
          /\ \A j \in EpochKeys : j # k => state'[j] = state[j]
          /\ k \in EpochKeys => UpdatedTo(state'[k], k, g, value)
      BY <1>0, <1>2, <1>8, UpdatedFacts
    <2>2. req' \in [Requests -> Handlers] /\ req'[r] = h2 /\ Only(r)
      BY <1>2, <1>6, <1>8, BecomesFacts DEF Only
    <2>3. known' \subseteq Keys /\ decided' \in [Keys -> Rows]
      BY <1>2, <1>8 DEF TypeOK, Rows
    <2>4. TypeOK'
      BY <1>3, <1>7, <2>1, <2>2, <2>3 DEF TypeOK
    <2>5. req[r].hold.held = FALSE
      BY <1>1, HandlerFacts
    <2>6. QED
      BY <1>1, <1>2, <1>3, <1>6, <1>8, <2>1, <2>2, <2>4, <2>5 DEF k
  <1>9. CASE /\ ~(g >= state[k].committed) /\ UNCHANGED <<state, known, decided>>
             /\ Becomes(r, h)
    <2>1. req' \in [Requests -> Handlers] /\ req'[r] = h /\ Only(r)
      BY <1>1, <1>2, <1>9, BecomesFacts DEF Only
    <2>2. TypeOK'
      BY <1>3, <1>7, <1>9, <2>1 DEF TypeOK
    <2>3. req[r].hold.held = FALSE
      BY <1>1, HandlerFacts
    <2>4. QED
      BY <1>1, <1>2, <1>3, <1>9, <2>1, <2>2, <2>3 DEF k
  <1>10. QED
    BY <1>4, <1>8, <1>9 DEF k

\* The writer takes the head of a queue, and the row is the head or stays.
LEMMA WriteRowFacts ==
  ASSUME TypeOK, NEW k \in Keys, WriteRow(k)
  PROVE  /\ TypeOK' /\ req' = req /\ queue[k] # <<>>
         /\ queue' = [queue EXCEPT ![k] = Tail(@)]
         /\ \/ /\ disk' = [disk EXCEPT ![k] = Head(queue[k])]
               /\ outcome' = IF Len(queue[k]) = 1 /\ outcome[k] = "pending"
                               THEN [outcome EXCEPT ![k] = "saved"] ELSE outcome
            \/ /\ disk' = disk
               /\ outcome' = IF Len(queue[k]) = 1 /\ outcome[k] = "pending"
                               THEN [outcome EXCEPT ![k] = "lost"] ELSE outcome
         /\ UNCHANGED <<state, loader, failures, alias, epoch, restarts,
                        newest, known, unread, decided>>
  <1>1. /\ queue \in [Keys -> Seq(Optional)] /\ disk \in [Keys -> Rows]
        /\ outcome \in [Keys -> {"pending", "saved", "lost"}]
    BY DEF TypeOK
  <1>2. queue[k] # <<>> /\ Tail(queue[k]) \in Seq(Optional) /\ Head(queue[k]) \in Optional
    BY <1>1 DEF WriteRow
  <1>3. /\ queue' = [queue EXCEPT ![k] = Tail(@)]
        /\ \/ /\ disk' = [disk EXCEPT ![k] = Head(queue[k])]
              /\ outcome' = IF Len(queue[k]) = 1 /\ outcome[k] = "pending"
                              THEN [outcome EXCEPT ![k] = "saved"] ELSE outcome
           \/ /\ disk' = disk
              /\ outcome' = IF Len(queue[k]) = 1 /\ outcome[k] = "pending"
                              THEN [outcome EXCEPT ![k] = "lost"] ELSE outcome
    BY DEF WriteRow
  <1>4. queue' \in [Keys -> Seq(Optional)]
    BY <1>1, <1>2, <1>3
  <1>5. disk' \in [Keys -> Rows] /\ outcome' \in [Keys -> {"pending", "saved", "lost"}]
    BY <1>1, <1>2, <1>3 DEF Rows
  <1>6. TypeOK'
    BY <1>4, <1>5 DEF WriteRow, TypeOK
  <1>7. QED
    BY <1>2, <1>3, <1>6 DEF WriteRow

\* After a crash, no state, no load, no lock and no queue is left.
LEMMA CrashFacts ==
  ASSUME TypeOK, Crash
  PROVE  /\ TypeOK'
         /\ \A r \in Requests :
              /\ req'[r].pc = IF req[r].pc = "idle" THEN "idle" ELSE "done"
              /\ req'[r].key = IF req[r].pc = "idle" THEN Bare ELSE req[r].key
              /\ req'[r].gen = 0 /\ req'[r].load = NoLoad /\ req'[r].hold = NoHold
              /\ req'[r].result = "none"
         /\ state' = [k \in Keys |-> Absent] /\ loader' = [k \in Keys |-> NoRequest]
         /\ queue' = [k \in Keys |-> <<>>] /\ newest' = [k \in Keys |-> Nothing]
         /\ known' = {} /\ unread' = {} /\ failures' = {} /\ disk' = disk /\ decided' = disk
         /\ outcome' = [k \in Keys |-> "saved"]
  <1> DEFINE H(r) == IF req[r].pc = "idle" THEN Fresh ELSE Done(r)
  <1>1. ASSUME NEW r \in Requests
        PROVE  /\ H(r) \in Handlers
               /\ H(r).pc = IF req[r].pc = "idle" THEN "idle" ELSE "done"
               /\ H(r).key = IF req[r].pc = "idle" THEN Bare ELSE req[r].key
               /\ H(r).gen = 0 /\ H(r).load = NoLoad /\ H(r).hold = NoHold
               /\ H(r).result = "none"
    <2>1. /\ Done(r) \in Handlers /\ Done(r).pc = "done" /\ Done(r).load = NoLoad
          /\ Done(r).key = req[r].key /\ Done(r).gen = 0 /\ Done(r).hold = NoHold
          /\ Done(r).result = "none"
      BY HandlerFacts, RecordFacts, ZenonT(40) DEF Done, Ended, Fresh, Handlers
    <2>2. /\ Fresh \in Handlers /\ Fresh.pc = "idle" /\ Fresh.load = NoLoad
          /\ Fresh.key = Bare /\ Fresh.gen = 0 /\ Fresh.hold = NoHold
          /\ Fresh.result = "none"
      BY RecordFacts DEF Fresh
    <2>3. QED
      BY <2>1, <2>2
  <1>2. req' = [r \in Requests |-> H(r)]
    BY DEF Crash
  <1> HIDE DEF H
  <1>3. req' \in [Requests -> Handlers]
    BY <1>1, <1>2
  <1>4. /\ newest' \in [Keys -> [gen: Nat, value: Optional]]
        /\ decided' \in [Keys -> Rows] /\ restarts' \in 0..MaxRestarts
        /\ queue' \in [Keys -> Seq(Optional)]
    BY TriggerAssumption DEF Crash, Nothing, Optional, TypeOK
  <1>5. TypeOK'
    BY <1>3, <1>4, RecordFacts, KeyFacts DEF Crash, TypeOK
  <1>6. QED
    BY <1>1, <1>2, <1>5 DEF Crash

\* The kinds of steps that are examined below.
LEMMA StepCases ==
  ASSUME [Next]_vars
  PROVE  \/ \E r \in Requests :
              \/ Begin(r) \/ Submit(r) \/ ReadRow(r) \/ PublishRow(r) \/ ShareResult(r)
              \/ LoadHead(r) \/ QuietStep(r) \/ Migrate(r) \/ SetCurrentAlias(r)
              \/ BeginPressureRequest(r) \/ IncrementRequestSeq(r) \/ UpdateStep(r)
         \/ \E k \in Keys : WriteRow(k)
         \/ Crash
         \/ UNCHANGED vars
  BY DEF Next, Handle, LoadStep, MigrateStep, BaselineStep, LoadHead, QuietStep, UpdateStep

\* Every step keeps the types: the effect lemmas, one per action.
LEMMA TypeStep == TypeOK /\ [Next]_vars => TypeOK'
  <1> SUFFICES ASSUME TypeOK, [Next]_vars PROVE TypeOK'
    OBVIOUS
  <1>1. ASSUME NEW r \in Requests,
               \/ Begin(r) \/ Submit(r) \/ ReadRow(r) \/ PublishRow(r) \/ ShareResult(r)
               \/ LoadHead(r) \/ QuietStep(r) \/ Migrate(r) \/ SetCurrentAlias(r)
               \/ BeginPressureRequest(r) \/ IncrementRequestSeq(r) \/ UpdateStep(r)
        PROVE  TypeOK'
    BY <1>1, BeginFacts, SubmitFacts, ReadRowFacts, PublishRowFacts, ShareResultFacts,
       LoadHeadFacts, QuietFacts, MigrateFacts, SetCurrentAliasFacts, NumberFacts, UpdateFacts, Zenon
  <1>2. ASSUME NEW k \in Keys, WriteRow(k) PROVE TypeOK'
    BY <1>2, WriteRowFacts
  <1>3. CASE Crash
    BY <1>3, CrashFacts
  <1>4. CASE UNCHANGED vars
    BY <1>4 DEF vars, ghosts, TypeOK
  <1>5. QED
    BY <1>1, <1>2, <1>3, <1>4, StepCases

\* A request gets its branch when it begins, and keeps it while it works.
LEMMA BegunStep == TypeOK /\ Begun /\ [Next]_vars => Begun'
  <1> SUFFICES ASSUME TypeOK, Begun, [Next]_vars PROVE Begun'
    OBVIOUS
  <1>1. ASSUME NEW r \in Requests, Begin(r) PROVE Begun'
    BY <1>1, BeginFacts DEF Begun, Only
  <1>2. ASSUME NEW r \in Requests, Submit(r) PROVE Begun'
    BY <1>2, SubmitFacts DEF Begun, Only
  <1>3. ASSUME NEW r \in Requests, ReadRow(r) \/ ShareResult(r) PROVE Begun'
    BY <1>3, ReadRowFacts, ShareResultFacts DEF Begun, Only, Kept
  <1>4. ASSUME NEW r \in Requests, PublishRow(r) PROVE Begun'
    BY <1>4, PublishRowFacts DEF Begun, Kept
  <1>5. ASSUME NEW r \in Requests, LoadHead(r) PROVE Begun'
    BY <1>5, LoadHeadFacts DEF Begun, Only
  <1>6. ASSUME NEW r \in Requests, QuietStep(r) PROVE Begun'
    BY <1>6, QuietFacts DEF Begun, Only, Numbered
  <1>7. ASSUME NEW r \in Requests, Migrate(r) PROVE Begun'
    BY <1>7, MigrateFacts DEF Begun, Only
  <1>8. ASSUME NEW r \in Requests, SetCurrentAlias(r) PROVE Begun'
    BY <1>8, SetCurrentAliasFacts DEF Begun, Only
  <1>9. ASSUME NEW r \in Requests, BeginPressureRequest(r) \/ IncrementRequestSeq(r) PROVE Begun'
    <2>1. /\ Only(r) /\ req'[r].key = req[r].key /\ req[r].pc \in {"count", "unsafe", "begin"}
      BY <1>9, NumberFacts
    <2>2. QED
      BY <2>1 DEF Begun, Only
  <1>10. ASSUME NEW r \in Requests, UpdateStep(r) PROVE Begun'
    <2>1. Only(r) /\ req'[r].key = req[r].key /\ req[r].pc \in {"reset", "update"}
      BY <1>10, UpdateFacts
    <2>2. QED
      BY <2>1 DEF Begun, Only
  <1>11. ASSUME NEW k \in Keys, WriteRow(k) PROVE Begun'
    BY <1>11, WriteRowFacts DEF Begun
  <1>12. CASE Crash
    BY <1>12, CrashFacts DEF Begun
  <1>13. CASE UNCHANGED vars
    BY <1>13 DEF vars, Begun
  <1>14. QED
    BY <1>1, <1>2, <1>3, <1>4, <1>5, <1>6, <1>7, <1>8, <1>9, <1>10, <1>11, <1>12, <1>13, StepCases

\* The types and the branches of the requests, of every reachable state.
LEMMA TypeInvariant == Spec => [](TypeOK /\ Begun)
  BY TypeInit, TypeStep, BegunStep, PTL DEF Spec

\* Every variable keeps its type.
THEOREM TypeCorrect == Spec => []TypeOK
  BY TypeInvariant, PTL

-----------------------------------------------------------------------------
(* Generations in their order: the newest answer stays                     *)

\* No key has committed a generation it has not given out.
Ordered == \A k \in Keys : state[k].committed <= state[k].asked

\* Mirroring keeps the order of the generations of an entry.
LEMMA MirroredOrder ==
  ASSUME NEW s \in [Keys -> Entries], NEW current \in Keys, NEW k \in Keys,
         \A j \in Keys : s[j].committed <= s[j].asked
  PROVE  \A j \in Keys : Mirrored(s, current, k)[j].committed <= Mirrored(s, current, k)[j].asked
  <1>1. CASE current # k \/ k = Bare
    BY <1>1 DEF Mirrored
  <1>2. CASE ~(current # k \/ k = Bare)
    <2> DEFINE e == [Copied(s[k], s[Bare]) EXCEPT !.loaded = TRUE, !.found = s[k].found]
    <2>1. s[k] \in Entries /\ s[Bare] \in Entries /\ s[k].committed <= s[k].asked
      BY KeyFacts
    <2>2. e.committed = s[k].committed /\ e.asked = s[k].asked
      BY <2>1 DEF Copied, Entries
    <2>3. Mirrored(s, current, k) = [s EXCEPT ![Bare] = e]
      BY <1>2 DEF Mirrored
    <2> HIDE DEF e
    <2>4. QED
      BY <2>1, <2>2, <2>3
  <1>3. QED
    BY <1>1, <1>2

\* So does replacing an entry by one whose generations are in order.
LEMMA ReplacedOrder ==
  ASSUME NEW s \in [Keys -> Entries], NEW current \in Keys, NEW k \in Keys, NEW entry \in Entries,
         \A j \in Keys : s[j].committed <= s[j].asked,
         entry.committed <= entry.asked
  PROVE  \A j \in Keys : Replaced(s, current, k, entry)[j].committed
                         <= Replaced(s, current, k, entry)[j].asked
  <1> DEFINE t == [s EXCEPT ![k] = entry]
  <1>1. t \in [Keys -> Entries] /\ \A j \in Keys : t[j].committed <= t[j].asked
    OBVIOUS
  <1>2. Replaced(s, current, k, entry) = Mirrored(t, current, k)
    BY DEF Replaced
  <1> HIDE DEF t
  <1>3. QED
    BY <1>1, <1>2, MirroredOrder

\* No generation was written back that was not asked for.
LEMMA OrderedStep == TypeOK /\ Ordered /\ [Next]_vars => Ordered'
  <1> SUFFICES ASSUME TypeOK, Ordered, [Next]_vars PROVE Ordered'
    OBVIOUS
  <1>0. /\ state \in [Keys -> Entries] /\ alias \in Keys
        /\ \A j \in Keys : state[j].committed <= state[j].asked
    BY DEF TypeOK, Ordered
  <1>1. ASSUME state' = state PROVE Ordered'
    BY <1>1 DEF Ordered
  <1>2. ASSUME NEW k \in Keys, NEW e \in Entries, state' = Replaced(state, alias, k, e),
               e.committed <= e.asked
        PROVE  Ordered'
    BY <1>0, <1>2, ReplacedOrder DEF Ordered
  <1>3. ASSUME NEW r \in Requests, PublishRow(r) PROVE Ordered'
    <2> DEFINE k == req[r].load.key
               load == req[r].load
               e == Read(state[k], load)
    <2>1. k \in Keys /\ load \in Loads /\ state' = AfterLoad(k, load)
      BY <1>3, HandlerFacts DEF PublishRow
    <2>2. e \in Entries /\ e.committed = state[k].committed /\ e.asked = state[k].asked
      BY <1>0, <2>1, ReadFacts
    <2>3. \/ state' = state \/ state' = [state EXCEPT ![k] = e]
          \/ state' = Replaced(state, alias, k, e)
      BY <2>1 DEF AfterLoad, Learned, Replaced
    <2>4. e.committed <= e.asked
      BY <1>0, <2>1, <2>2
    <2> HIDE DEF e, k
    <2>5. CASE state' = [state EXCEPT ![k] = e]
      BY <1>0, <2>1, <2>4, <2>5 DEF Ordered
    <2>6. QED
      BY <1>1, <1>2, <2>1, <2>2, <2>3, <2>4, <2>5
  <1>4. ASSUME NEW r \in Requests, Migrate(r) PROVE Ordered'
    <2> DEFINE k == req[r].key
               e == Migrated(state[Bare], state[k])
               found == state[k].found \/ state[Bare].base # NoBase
    <2>1. k \in Keys /\ state[k] \in Entries /\ state[Bare] \in Entries /\ found \in BOOLEAN
      BY <1>0, HandlerFacts, KeyFacts DEF Entries
    <2>2. e = [Copied(state[Bare], state[k]) EXCEPT !.loaded = TRUE, !.found = found]
      BY DEF Migrated
    <2> HIDE DEF found
    <2>3. e.committed = state[Bare].committed /\ e.asked = state[Bare].asked
      BY <2>1, <2>2 DEF Copied, Entries
    <2>4. state' = [state EXCEPT ![k] = e]
      BY <1>4 DEF Migrate
    <2> HIDE DEF e, k
    <2>5. QED
      BY <1>0, <2>1, <2>3, <2>4, KeyFacts DEF Ordered
  <1>5. ASSUME NEW r \in Requests, SetCurrentAlias(r) PROVE Ordered'
    <2>1. state' = Mirrored(state, req[r].key, req[r].key) /\ req[r].key \in Keys
      BY <1>5, HandlerFacts DEF SetCurrentAlias
    <2>2. QED
      BY <1>0, <2>1, MirroredOrder DEF Ordered
  <1>6. ASSUME NEW r \in Requests, BeginPressureRequest(r) \/ IncrementRequestSeq(r) PROVE Ordered'
    <2> DEFINE k == Key(r)
    <2>1. k \in Keys /\ state[k] \in Entries /\ state[k].committed <= state[k].asked
      BY <1>0, HandlerFacts, ResolveFacts DEF Key
    <2>2. CASE BeginPressureRequest(r)
      <3> DEFINE e == [state[k] EXCEPT !.asked = state[k].asked + 1]
      <3>1. state' = Replaced(state, alias, k, e)
        BY <1>0, <2>1, <2>2 DEF BeginPressureRequest, NextGeneration, Replaced, Entries
      <3>2. e \in Entries /\ e.committed <= e.asked
        BY <2>1 DEF Entries
      <3> HIDE DEF e, k
      <3>3. QED
        BY <1>2, <2>1, <3>1, <3>2
    <2>3. CASE IncrementRequestSeq(r)
      <3> DEFINE e == [state[k] EXCEPT !.seq = state[k].seq + 1]
      <3>1. state' = Replaced(state, alias, k, e)
        BY <1>0, <2>1, <2>3 DEF IncrementRequestSeq, Replaced, Entries
      <3>2. e \in Entries /\ e.committed <= e.asked
        BY <2>1 DEF Entries
      <3> HIDE DEF e, k
      <3>3. QED
        BY <1>2, <2>1, <3>1, <3>2
    <2>4. QED
      BY <1>6, <2>2, <2>3
  <1>7. ASSUME NEW r \in Requests, UpdateStep(r) PROVE Ordered'
    <2> DEFINE k == Key(r)
               g == req[r].gen
               free == loader[k] = NoRequest
    <2>1. k \in Keys /\ state[k] \in Entries /\ g \in Nat
      BY <1>0, HandlerFacts, ResolveFacts DEF Key
    <2>2. free \in BOOLEAN
      OBVIOUS
    <2>3. PICK value \in Optional : state' = state \/ state' = Updated(k, g, value)
      BY <1>7 DEF UpdateStep, ResetPressureBaseline, WriteBack, Update, UsageKey, Optional, Baselines
    <2> DEFINE e == Answered(state[k], free, g, value)
    <2>4. Updated(k, g, value) = Replaced(state, alias, k, e)
      BY DEF Updated, Replaced
    <2> HIDE DEF free, k, g
    <2>5. /\ e \in Entries /\ e.committed = g
          /\ e.asked = IF g > state[k].asked THEN g ELSE state[k].asked
      BY <2>1, <2>2, AnsweredFacts
    <2>6. e.committed <= e.asked
      BY <2>1, <2>5 DEF Entries
    <2> HIDE DEF e
    <2>7. QED
      BY <1>1, <1>2, <2>1, <2>3, <2>4, <2>5, <2>6
  <1>8. CASE Crash
    BY <1>8, CrashFacts DEF Ordered, Absent
  <1>9. ASSUME NEW r \in Requests,
               Begin(r) \/ Submit(r) \/ ReadRow(r) \/ ShareResult(r) \/ LoadHead(r) \/ QuietStep(r)
        PROVE  state' = state
    BY <1>9, BeginFacts, SubmitFacts, LoadHeadFacts, QuietFacts DEF ReadRow, ShareResult
  <1>10. ASSUME NEW k \in Keys, WriteRow(k) PROVE state' = state
    BY <1>10 DEF WriteRow
  <1>11. CASE UNCHANGED vars
    BY <1>1, <1>11 DEF vars
  <1>12. QED
    BY <1>1, <1>3, <1>4, <1>5, <1>6, <1>7, <1>8, <1>9, <1>10, <1>11, StepCases

\* The entry of a branch follows the newest generation that was written back.
KeyNumbers(k) ==
  /\ newest[k].gen > 0 => state[k].committed = newest[k].gen
  /\ newest[k].gen = 0 => newest[k].value = NoBase
  /\ newest[k].value \in Requests => state[k].base = newest[k].value
  /\ newest[k].gen > 0 /\ k \notin unread =>
       /\ state[k].base = newest[k].value
       /\ loader[k] = NoRequest => state[k].loaded

\* A number in flight was given out, and no migration has copied a newer one.
NumberOf(r) ==
  req[r].pc \in Numbered =>
    /\ req[r].gen > 0
    /\ req[r].gen <= state[req[r].key].asked
    /\ newest[req[r].key].gen = 0 => req[r].gen > state[req[r].key].committed

\* A load in flight belongs to its loader; an answer that came meanwhile has changed
\* the version, unless a read has failed before.
LoadVersion(r) ==
  LET l == req[r].load IN
  l.pc \in {"read", "publish"} /\ l.key \in EpochKeys =>
    /\ loader[l.key] = r
    /\ l.version <= state[l.key].version
    /\ newest[l.key].gen > 0 /\ l.key \notin unread => l.version < state[l.key].version
    /\ l.pc = "publish" /\ l.row = Unread => l.key \in unread

NumbersInv ==
  /\ \A k \in EpochKeys : KeyNumbers(k)
  /\ \A r \in Requests : NumberOf(r) /\ LoadVersion(r)

\* What the types say of the entry of a branch.
LEMMA EpochFacts ==
  ASSUME TypeOK, NEW k \in EpochKeys
  PROVE  /\ k \in Keys /\ state[k] \in Entries /\ state[k].base \in Optional
         /\ state[k].asked \in Nat /\ state[k].committed \in Nat /\ state[k].version \in Nat
         /\ state[k].loaded \in BOOLEAN /\ state[k].seq \in Nat
         /\ newest[k].gen \in Nat /\ newest[k].value \in Optional
         /\ loader[k] \in Requests \cup {NoRequest}
  BY KeyFacts DEF TypeOK, Entries

\* A step of r that leaves the baselines and the generations of the branches alone
\* need only be examined for r.
LEMMA NumbersLocal ==
  ASSUME TypeOK, NumbersInv, NEW r \in Requests, Only(r),
         \A k \in EpochKeys : state'[k] = state[k],
         newest' = newest, unread' = unread, loader' = loader,
         NumberOf(r)', LoadVersion(r)',
         Begun
  PROVE  NumbersInv'
  <1>1. \A k \in EpochKeys : KeyNumbers(k)'
    BY DEF NumbersInv, KeyNumbers
  <1>2. ASSUME NEW q \in Requests PROVE NumberOf(q)' /\ LoadVersion(q)'
    <2>1. CASE q = r
      BY <2>1
    <2>2. CASE q # r
      <3>1. req'[q] = req[q] /\ (req[q].pc \in Numbered => req[q].key \in EpochKeys)
        BY <2>2 DEF Only, Begun, Numbered
      <3>2. NumberOf(q)'
        BY <3>1 DEF NumbersInv, NumberOf
      <3>3. LoadVersion(q)'
        BY <3>1 DEF NumbersInv, LoadVersion
      <3>4. QED
        BY <3>2, <3>3
    <2>3. QED
      BY <2>1, <2>2
  <1>3. QED
    BY <1>1, <1>2 DEF NumbersInv

\* The bookkeeping of the generations holds at the start.
LEMMA NumbersInit == Init => NumbersInv
  BY KeyFacts, TriggerAssumption DEF Init, NumbersInv, KeyNumbers, NumberOf, LoadVersion, Nothing, Fresh, NoLoad,
                  Numbered

\* The steps that leave the entries of the branches alone.
LEMMA NumbersMove ==
  ASSUME TypeOK, Begun, NumbersInv, NEW r \in Requests,
         Begin(r) \/ Submit(r) \/ ShareResult(r) \/ QuietStep(r) \/ SetCurrentAlias(r)
  PROVE  NumbersInv'
  <1>0. NumberOf(r) /\ LoadVersion(r)
    BY DEF NumbersInv
  <1>1. CASE Begin(r)
    <2>1. NumberOf(r)' /\ LoadVersion(r)'
      BY <1>0, <1>1, BeginFacts, RecordFacts DEF NumberOf, LoadVersion, Numbered
    <2>2. QED
      BY <1>1, <2>1, BeginFacts, NumbersLocal
  <1>2. CASE Submit(r)
    <2>0. /\ req'[r].pc = req[r].pc /\ req'[r].key = req[r].key /\ req'[r].gen = req[r].gen
          /\ req'[r].load = req[r].load
          /\ UNCHANGED <<state, newest, unread, loader>>
      BY <1>2, SubmitFacts
    <2>1. NumberOf(r)' /\ LoadVersion(r)'
      BY <1>0, <2>0 DEF NumberOf, LoadVersion
    <2>2. QED
      BY <1>2, <2>1, SubmitFacts, NumbersLocal
  <1>3. CASE ShareResult(r)
    <2>0. UNCHANGED <<state, newest, unread, loader>>
      BY <1>3 DEF ShareResult, ghosts
    <2>1. /\ req'[r].pc = req[r].pc /\ req'[r].key = req[r].key /\ req'[r].gen = req[r].gen
          /\ req'[r].load.pc \in {"none", "failed"}
      BY <1>3, ShareResultFacts DEF Kept
    <2>3. NumberOf(r)' /\ LoadVersion(r)'
      BY <1>0, <2>0, <2>1 DEF NumberOf, LoadVersion
    <2>2. QED
      BY <1>3, <2>0, <2>3, ShareResultFacts, NumbersLocal
  <1>4. CASE QuietStep(r)
    <2>1. /\ UNCHANGED <<state, newest, unread, loader>> /\ Only(r) /\ req'[r].key = req[r].key
          /\ req'[r].load.pc \in {"none", "failed"}
          /\ req'[r].gen = IF req'[r].pc = "done" THEN 0 ELSE req[r].gen
          /\ req'[r].pc \in Numbered => req[r].pc \in Numbered
      BY <1>4, QuietFacts
    <2>0. req'[r].pc \in Numbered => req[r].pc \in Numbered /\ req'[r].gen = req[r].gen
      BY <2>1 DEF Numbered
    <2>2. NumberOf(r)' /\ LoadVersion(r)'
      <3>1. NumberOf(r)'
        BY <1>0, <2>0, <2>1 DEF NumberOf
      <3>2. LoadVersion(r)'
        BY <2>1 DEF LoadVersion
      <3>3. QED
        BY <3>1, <3>2
    <2>3. QED
      BY <2>1, <2>2, NumbersLocal
  <1>5. CASE SetCurrentAlias(r)
    <2>1. NumberOf(r)' /\ LoadVersion(r)'
      BY <1>0, <1>5, SetCurrentAliasFacts DEF NumberOf, LoadVersion, Numbered
    <2>2. QED
      BY <1>5, <2>1, SetCurrentAliasFacts, NumbersLocal
  <1>6. QED
    BY <1>1, <1>2, <1>3, <1>4, <1>5

\* The steps of a load keep it: a row is not applied over an answer.
LEMMA NumbersLoad ==
  ASSUME TypeOK, Begun, NumbersInv, NEW r \in Requests,
         ReadRow(r) \/ PublishRow(r) \/ LoadHead(r)
  PROVE  NumbersInv'
  <1>0. /\ \A k \in EpochKeys : KeyNumbers(k)
        /\ \A q \in Requests : NumberOf(q) /\ LoadVersion(q)
    BY DEF NumbersInv
  <1>1. CASE ReadRow(r)
    <2>1. UNCHANGED <<state, newest, loader>> /\ req[r].load.pc = "read" /\ unread \subseteq unread'
      BY <1>1, ReadRowFacts DEF ReadRow
    <2>2. \A k \in EpochKeys : KeyNumbers(k)'
      BY <1>0, <2>1 DEF KeyNumbers
    <2>3. ASSUME NEW q \in Requests PROVE NumberOf(q)'
      <3>1. req'[q].pc = req[q].pc /\ req'[q].gen = req[q].gen /\ req'[q].key = req[q].key
        BY <1>1, ReadRowFacts DEF Only, Kept
      <3>2. QED
        BY <1>0, <2>1, <3>1 DEF NumberOf
    <2>4. ASSUME NEW q \in Requests, q # r PROVE LoadVersion(q)'
      <3>1. req'[q] = req[q]
        BY <1>1, <2>4, ReadRowFacts DEF Only
      <3>2. QED
        BY <1>0, <2>1, <3>1 DEF LoadVersion
    <2>5. LoadVersion(r)'
      <3>1. /\ req'[r].load.key = req[r].load.key /\ req'[r].load.version = req[r].load.version
            /\ req'[r].load.row = Unread => req[r].load.key \in unread'
        BY <1>1, ReadRowFacts
      <3>2. QED
        BY <1>0, <2>1, <3>1 DEF LoadVersion
    <2>6. QED
      BY <2>2, <2>3, <2>4, <2>5 DEF NumbersInv
  <1>2. CASE PublishRow(r)
    <2>0. PICK k \in Keys, load \in Loads : k = req[r].load.key /\ load = req[r].load
      BY HandlerFacts
    <2>1. /\ k \in Keys /\ load \in Loads /\ load.pc = "publish" /\ newest' = newest
          /\ unread' = unread /\ loader' = [loader EXCEPT ![k] = NoRequest]
          /\ state' = AfterLoad(k, load)
      BY <1>2, <2>0, PublishRowFacts DEF PublishRow, ghosts
    <2>2. ASSUME NEW j \in EpochKeys
          PROVE  /\ state'[j].asked = state[j].asked /\ state'[j].committed = state[j].committed
                 /\ state'[j].version = state[j].version
                 /\ j # k => state'[j] = state[j]
      BY <2>1, LoadedFacts
    <2>3. ASSUME k \in EpochKeys
          PROVE  /\ load.row # Unread => /\ state'[k].loaded = TRUE
                                         /\ ~Applies(state[k], load) => state'[k].base = state[k].base
                 /\ load.row = Unread => state'[k] = state[k]
      BY <2>1, <2>3, LoadedFacts
    <2>4. ASSUME NEW j \in EpochKeys, j # k PROVE KeyNumbers(j)'
      <3>1. state'[j] = state[j] /\ loader'[j] = loader[j]
        BY <2>1, <2>2, <2>4, EpochFacts DEF TypeOK
      <3>2. QED
        BY <1>0, <2>1, <3>1 DEF KeyNumbers
    <2>5. ASSUME k \in EpochKeys PROVE KeyNumbers(k)'
      <3>1. /\ KeyNumbers(k) /\ load.version <= state[k].version
            /\ newest[k].gen > 0 /\ k \notin unread => load.version < state[k].version
            /\ load.row = Unread => k \in unread
        BY <1>0, <2>0, <2>1, <2>5 DEF LoadVersion
      <3>2. CASE load.row = Unread
        BY <2>1, <2>3, <2>5, <3>1, <3>2 DEF KeyNumbers
      <3>3. CASE load.row # Unread
        <4>1. newest[k].value \in Requests => ~Applies(state[k], load)
          BY <3>1, ValueFacts, TriggerAssumption DEF KeyNumbers, Applies
        <4>2. newest[k].gen > 0 /\ k \notin unread => ~Applies(state[k], load)
          BY <2>5, <3>1, EpochFacts DEF Applies, Loads
        <4>3. state'[k].loaded = TRUE /\ (~Applies(state[k], load) => state'[k].base = state[k].base)
          BY <2>3, <2>5, <3>3
        <4>5. state'[k].committed = state[k].committed
          BY <2>2, <2>5
        <4>4. QED
          BY <2>1, <2>5, <3>1, <4>1, <4>2, <4>3, <4>5 DEF KeyNumbers
      <3>4. QED
        BY <3>2, <3>3
    <2>6. ASSUME NEW q \in Requests PROVE NumberOf(q)'
      <3>1. req'[q].pc = req[q].pc /\ req'[q].gen = req[q].gen /\ req'[q].key = req[q].key
            /\ (req[q].pc \in Numbered => req[q].key \in EpochKeys)
        BY <1>2, PublishRowFacts DEF Kept, Begun, Numbered
      <3>2. QED
        BY <1>0, <2>1, <2>2, <3>1 DEF NumberOf
    <2>7. ASSUME NEW q \in Requests PROVE LoadVersion(q)'
      <3>1. CASE q = r
        BY <1>2, <3>1, PublishRowFacts DEF LoadVersion
      <3>2. CASE q # r
        <4>1. req'[q].load = req[q].load \/ req'[q].load.pc = "woken"
          BY <1>2, <3>2, PublishRowFacts
        <4>2. CASE req'[q].load.pc = "woken"
          BY <4>2 DEF LoadVersion
        <4>3. CASE req'[q].load = req[q].load
          <5>1. req[q].load.key = k /\ req[q].load.pc \in {"read", "publish"} /\ k \in EpochKeys => FALSE
            BY <1>0, <2>0, <2>1, <3>2 DEF LoadVersion
          <5>2. req[q].load.key \in EpochKeys /\ req[q].load.key # k
                  => loader'[req[q].load.key] = loader[req[q].load.key]
            BY <2>1, EpochFacts DEF TypeOK
          <5>3. QED
            BY <1>0, <2>1, <2>2, <4>3, <5>1, <5>2 DEF LoadVersion
        <4>4. QED
          BY <4>1, <4>2, <4>3
      <3>3. QED
        BY <3>1, <3>2
    <2>8. QED
      BY <2>4, <2>5, <2>6, <2>7 DEF NumbersInv
  <1>3. CASE LoadHead(r)
    <2>1. PICK k \in Keys :
         /\ Only(r) /\ state' = state /\ newest' = newest /\ unread' = unread
         /\ req'[r].key = req[r].key /\ req'[r].gen = req[r].gen
         /\ req[r].pc = "load" \/ req'[r].pc \in {"examine", "copy"}
         /\ \/ req'[r].load.pc \in {"none", "wait"} /\ loader' = loader
            \/ /\ ~state[k].loaded /\ loader[k] = NoRequest
               /\ req'[r].load.pc = "read" /\ req'[r].load.key = k
               /\ req'[r].load.version = state[k].version
               /\ loader' = [loader EXCEPT ![k] = r]
      BY <1>3, LoadHeadFacts
    <2>2. NumberOf(r)'
      BY <1>0, <2>1 DEF NumberOf, Numbered
    <2>3. CASE req'[r].load.pc \in {"none", "wait"} /\ loader' = loader
      <3>1. LoadVersion(r)'
        BY <2>3 DEF LoadVersion
      <3>2. \A j \in EpochKeys : state'[j] = state[j]
        BY <2>1
      <3>3. QED
        BY <2>1, <2>2, <2>3, <3>1, <3>2, NumbersLocal
    <2>4. CASE /\ ~state[k].loaded /\ loader[k] = NoRequest
               /\ req'[r].load.pc = "read" /\ req'[r].load.key = k
               /\ req'[r].load.version = state[k].version
               /\ loader' = [loader EXCEPT ![k] = r]
      <3>1. loader \in [Keys -> Requests \cup {NoRequest}] /\ r # NoRequest
        BY ValueFacts DEF TypeOK
      <3>2. \A j \in EpochKeys : KeyNumbers(j)'
        BY <1>0, <2>1, <2>4, <3>1 DEF KeyNumbers
      <3>3. LoadVersion(r)'
        <4>1. k \in EpochKeys => ~(newest[k].gen > 0 /\ k \notin unread)
          BY <1>0, <2>4 DEF KeyNumbers
        <4>2. k \in EpochKeys => state[k].version \in Nat
          BY EpochFacts
        <4>3. QED
          BY <2>1, <2>4, <3>1, <4>1, <4>2 DEF LoadVersion
      <3>4. ASSUME NEW q \in Requests, q # r PROVE NumberOf(q)' /\ LoadVersion(q)'
        <4>1. req'[q] = req[q]
          BY <2>1, <3>4 DEF Only
        <4>2. NumberOf(q)'
          BY <1>0, <2>1, <4>1 DEF NumberOf
        <4>3. req[q].load.pc \in {"read", "publish"} /\ req[q].load.key \in EpochKeys
                => req[q].load.key # k
          BY <1>0, <2>4, ValueFacts DEF LoadVersion
        <4>4. req[q].load.key # k => loader'[req[q].load.key] = loader[req[q].load.key]
          BY <2>4, <3>1, HandlerFacts
        <4>5. LoadVersion(q)'
          BY <1>0, <2>1, <4>1, <4>3, <4>4 DEF LoadVersion
        <4>6. QED
          BY <4>2, <4>5
      <3>5. QED
        BY <2>2, <3>2, <3>3, <3>4 DEF NumbersInv
    <2>5. QED
      BY <2>1, <2>3, <2>4
  <1>4. QED
    BY <1>1, <1>2, <1>3

\* A new generation is newer than all that were given.
LEMMA NumbersGiven ==
  ASSUME TypeOK, Begun, Ordered, NumbersInv, NEW r \in Requests,
         BeginPressureRequest(r) \/ IncrementRequestSeq(r)
  PROVE  NumbersInv'
  <1>0. /\ \A k \in EpochKeys : KeyNumbers(k)
        /\ \A q \in Requests : NumberOf(q) /\ LoadVersion(q)
    BY DEF NumbersInv
  <1>1. PICK k \in EpochKeys : k = req[r].key /\ k = Key(r)
    <2>1. req[r].key \in EpochKeys
      BY NumberFacts DEF Begun
    <2>2. QED
      BY <2>1, KeyFacts, ResolveFacts DEF Key, TypeOK
  <1>2. /\ Only(r) /\ newest' = newest /\ unread' = unread /\ loader' = loader
        /\ req'[r].key = k /\ req'[r].load = req[r].load
        /\ \A j \in EpochKeys : j # k => state'[j] = state[j]
        /\ state'[k].base = state[k].base /\ state'[k].committed = state[k].committed
        /\ state'[k].version = state[k].version /\ state'[k].loaded = state[k].loaded
        /\ \/ req'[r].pc = "begin" /\ state'[k].asked = state[k].asked
           \/ /\ state'[k].asked = state[k].asked + 1
              /\ req'[r].gen = state'[k].asked
    <2>1. /\ Only(r) /\ newest' = newest /\ unread' = unread /\ loader' = loader
          /\ req'[r].key = k /\ req'[r].load = req[r].load
          /\ \A j \in EpochKeys : j # k => state'[j] = state[j]
      BY <1>1, NumberFacts
    <2>2. /\ state'[Key(r)].base = state[Key(r)].base
          /\ state'[Key(r)].committed = state[Key(r)].committed
          /\ state'[Key(r)].version = state[Key(r)].version
          /\ state'[Key(r)].loaded = state[Key(r)].loaded
          /\ \/ req'[r].pc = "begin" /\ state'[Key(r)].asked = state[Key(r)].asked
             \/ /\ state'[Key(r)].asked = state[Key(r)].asked + 1
                /\ req'[r].gen = state'[Key(r)].asked
      BY <1>1, NumberFacts, Zenon
    <2>3. QED
      BY <1>1, <2>1, <2>2
  <1>3. state[k].committed <= state[k].asked /\ state[k].asked \in Nat /\ state[k].committed \in Nat
    BY EpochFacts DEF Ordered
  <1>4. ASSUME NEW j \in EpochKeys
        PROVE  /\ state'[j].base = state[j].base /\ state'[j].committed = state[j].committed
               /\ state'[j].version = state[j].version /\ state'[j].loaded = state[j].loaded
               /\ state'[j].asked >= state[j].asked
    <2>1. state[j].asked \in Nat
      BY EpochFacts
    <2>2. QED
      BY <1>2, <1>3, <2>1
  <1>5. \A j \in EpochKeys : KeyNumbers(j)'
    BY <1>0, <1>2, <1>4 DEF KeyNumbers
  <1>6. ASSUME NEW q \in Requests PROVE LoadVersion(q)'
    <2>1. req'[q].load = req[q].load
      BY <1>2 DEF Only
    <2>2. QED
      BY <1>0, <1>2, <1>4, <2>1 DEF LoadVersion
  <1>7. NumberOf(r)'
    BY <1>2, <1>3 DEF NumberOf, Numbered
  <1>8. ASSUME NEW q \in Requests, q # r PROVE NumberOf(q)'
    <2>1. req'[q] = req[q] /\ (req[q].pc \in Numbered => req[q].key \in EpochKeys)
      BY <1>2, <1>8 DEF Only, Begun, Numbered
    <2>2. req[q].gen \in Nat /\ (req[q].key \in EpochKeys => state[req[q].key].asked \in Nat
                                                            /\ state'[req[q].key].asked \in Nat)
      BY <1>2, <1>3, HandlerFacts, EpochFacts
    <2>3. QED
      BY <1>0, <1>2, <1>4, <2>1, <2>2 DEF NumberOf
  <1>9. QED
    BY <1>5, <1>6, <1>7, <1>8 DEF NumbersInv

\* A migration meets an entry to which nothing was written back.
LEMMA NumbersMigrate ==
  ASSUME TypeOK, Begun, Ordered, NumbersInv, NEW r \in Requests, Migrate(r)
  PROVE  NumbersInv'
  <1>0. /\ \A k \in EpochKeys : KeyNumbers(k)
        /\ \A q \in Requests : NumberOf(q) /\ LoadVersion(q)
    BY DEF NumbersInv
  <1>1. PICK k \in EpochKeys : k = req[r].key
    BY MigrateFacts DEF Begun
  <1>2. /\ Only(r) /\ newest' = newest /\ unread' = unread /\ loader' = loader
        /\ req'[r].pc = "alias" /\ req'[r].load = NoLoad
        /\ \A j \in EpochKeys : j # k => state'[j] = state[j]
        /\ state'[k].version = state[Bare].version /\ state'[k].loaded = TRUE
        /\ state'[k].base = state[Bare].base
        /\ ~HasState(state[k])
    BY <1>1, MigrateFacts
  <1>3. /\ state[k].base = NoBase /\ state[k].version = 0 /\ state[k].asked = 0
        /\ state[k].committed = 0 /\ newest[k].gen \in Nat /\ state[Bare].version \in Nat
    BY <1>2, EpochFacts, KeyFacts DEF HasState, TypeOK, Entries
  <1>4. newest[k].gen = 0 /\ newest[k].value = NoBase
    BY <1>0, <1>3 DEF KeyNumbers
  <1>5. KeyNumbers(k)'
    BY <1>2, <1>4, TriggerAssumption DEF KeyNumbers
  <1>6. \A j \in EpochKeys : j # k => KeyNumbers(j)'
    BY <1>0, <1>2 DEF KeyNumbers
  <1>7. NumberOf(r)' /\ LoadVersion(r)'
    BY <1>2, RecordFacts DEF NumberOf, LoadVersion, Numbered
  <1>8. ASSUME NEW q \in Requests, q # r PROVE NumberOf(q)' /\ LoadVersion(q)'
    <2>1. /\ req'[q] = req[q] /\ (req[q].pc \in Numbered => req[q].key \in EpochKeys)
          /\ req[q].gen \in Nat /\ req[q].load.version \in Nat
      BY <1>2, <1>8, HandlerFacts DEF Only, Begun, Numbered
    <2>2. req[q].pc \in Numbered => req[q].key # k
      BY <1>0, <1>3, <2>1 DEF NumberOf
    <2>3. NumberOf(q)'
      BY <1>0, <1>2, <2>1, <2>2 DEF NumberOf
    <2>4. req[q].load.key = k => LoadVersion(q)'
      BY <1>0, <1>2, <1>3, <1>4, <2>1 DEF LoadVersion
    <2>5. req[q].load.key # k => LoadVersion(q)'
      BY <1>0, <1>2, <2>1 DEF LoadVersion
    <2>6. QED
      BY <2>3, <2>4, <2>5
  <1>9. QED
    BY <1>5, <1>6, <1>7, <1>8 DEF NumbersInv

\* An accepted update is the newest; a refused one is not.
LEMMA NumbersUpdate ==
  ASSUME TypeOK, Begun, Ordered, NumbersInv, NEW r \in Requests, UpdateStep(r)
  PROVE  NumbersInv'
  <1>0. /\ \A k \in EpochKeys : KeyNumbers(k)
        /\ \A q \in Requests : NumberOf(q) /\ LoadVersion(q)
    BY DEF NumbersInv
  <1>1. PICK k \in EpochKeys : k = req[r].key /\ k = Key(r)
    <2>0. req[r].pc \in {"reset", "update"}
      BY UpdateFacts
    <2>1. req[r].key \in EpochKeys
      BY <2>0 DEF Begun
    <2>2. QED
      BY <2>1, KeyFacts, ResolveFacts DEF Key, TypeOK
  <1>2. PICK g \in Nat : g = req[r].gen
    BY HandlerFacts
  <1>3. PICK value \in Optional :
         /\ Only(r)
         /\ newest' = IF g >= newest[k].gen THEN [newest EXCEPT ![k] = [gen |-> g, value |-> value]]
                                            ELSE newest
         /\ \/ /\ g >= state[k].committed
               /\ \A j \in EpochKeys : j # k => state'[j] = state[j]
               /\ UpdatedTo(state'[k], k, g, value)
            \/ ~(g >= state[k].committed) /\ state' = state
         /\ loader' = loader /\ unread' = unread
         /\ req[r].pc \in {"reset", "update"} /\ req'[r].pc \in {"count", "done"}
         /\ req'[r].load.pc \in {"none", "failed"}
    <2>1. PICK value \in Optional :
           /\ Only(r)
           /\ newest' = IF req[r].gen >= newest[Key(r)].gen
                THEN [newest EXCEPT ![Key(r)] = [gen |-> req[r].gen, value |-> value]] ELSE newest
           /\ \/ /\ req[r].gen >= state[Key(r)].committed
                 /\ \A j \in EpochKeys : j # Key(r) => state'[j] = state[j]
                 /\ Key(r) \in EpochKeys => UpdatedTo(state'[Key(r)], Key(r), req[r].gen, value)
              \/ ~(req[r].gen >= state[Key(r)].committed) /\ state' = state
           /\ loader' = loader /\ unread' = unread
           /\ req[r].pc \in {"reset", "update"} /\ req'[r].pc \in {"count", "done"}
           /\ req'[r].load.pc \in {"none", "failed"}
      <3>1. PICK value \in Optional :
           /\ Only(r)
           /\ newest' = IF req[r].gen >= newest[Key(r)].gen
                THEN [newest EXCEPT ![Key(r)] = [gen |-> req[r].gen, value |-> value]] ELSE newest
           /\ \/ /\ req[r].gen >= state[Key(r)].committed
                 /\ \A j \in EpochKeys : j # Key(r) => state'[j] = state[j]
                 /\ Key(r) \in EpochKeys => UpdatedTo(state'[Key(r)], Key(r), req[r].gen, value)
              \/ ~(req[r].gen >= state[Key(r)].committed) /\ UNCHANGED <<state, known, decided>>
           /\ UNCHANGED <<loader, failures, alias, epoch, queue, disk, restarts, unread, outcome>>
           /\ req[r].pc \in {"reset", "update"} /\ req'[r].pc \in {"count", "done"}
           /\ req'[r].load.pc \in {"none", "failed"}
        BY UpdateFacts, Zenon
      <3>2. QED
        BY <3>1
    <2>2. QED
      BY <1>1, <1>2, <2>1
  <1>4. /\ g > 0 /\ g <= state[k].asked /\ (newest[k].gen = 0 => g > state[k].committed)
    BY <1>0, <1>1, <1>2, <1>3 DEF NumberOf, Numbered
  <1>5. /\ newest \in [Keys -> [gen: Nat, value: Optional]] /\ k \in Keys
        /\ newest[k].gen \in Nat /\ state[k].asked \in Nat /\ state[k].committed \in Nat
        /\ state[k].version \in Nat
    BY EpochFacts DEF TypeOK
  <1>6. NumberOf(r)' /\ LoadVersion(r)'
    BY <1>3 DEF NumberOf, LoadVersion, Numbered
  <1>7. CASE ~(g >= state[k].committed) /\ state' = state
    <2>1. newest[k].gen > 0 /\ ~(g >= newest[k].gen)
      BY <1>0, <1>4, <1>5, <1>7 DEF KeyNumbers
    <2>2. newest' = newest
      BY <1>3, <2>1
    <2>3. \A j \in EpochKeys : state'[j] = state[j]
      BY <1>7
    <2>4. QED
      BY <1>3, <1>6, <2>2, <2>3, NumbersLocal
  <1>8. CASE /\ g >= state[k].committed
             /\ \A j \in EpochKeys : j # k => state'[j] = state[j]
             /\ UpdatedTo(state'[k], k, g, value)
    <2>1. g >= newest[k].gen
      BY <1>0, <1>5, <1>8 DEF KeyNumbers
    <2>2. /\ newest' = [newest EXCEPT ![k] = [gen |-> g, value |-> value]]
          /\ newest'[k].gen = g /\ newest'[k].value = value
      BY <1>3, <1>5, <2>1
    <2>3. /\ state'[k].base = value /\ state'[k].committed = g
          /\ state'[k].version = state[k].version + 1
          /\ state'[k].asked = state[k].asked
          /\ state'[k].loaded <=> loader[k] = NoRequest
      BY <1>4, <1>5, <1>8 DEF UpdatedTo
    <2>4. KeyNumbers(k)'
      BY <1>3, <1>4, <2>2, <2>3 DEF KeyNumbers
    <2>5. ASSUME NEW j \in EpochKeys, j # k PROVE KeyNumbers(j)'
      <3>1. newest'[j] = newest[j] /\ state'[j] = state[j]
        BY <1>5, <1>8, <2>2, <2>5, EpochFacts
      <3>2. QED
        BY <1>0, <1>3, <3>1 DEF KeyNumbers
    <2>6. ASSUME NEW q \in Requests, q # r PROVE NumberOf(q)'
      <3>1. req'[q] = req[q] /\ (req[q].pc \in Numbered => req[q].key \in EpochKeys)
        BY <1>3, <2>6 DEF Only, Begun, Numbered
      <3>2. CASE req[q].key = k
        BY <1>0, <1>4, <2>2, <2>3, <3>1, <3>2 DEF NumberOf
      <3>3. CASE req[q].key # k
        <4>1. req[q].key \in EpochKeys => newest'[req[q].key] = newest[req[q].key]
                                          /\ state'[req[q].key] = state[req[q].key]
          BY <1>5, <1>8, <2>2, <3>3, EpochFacts
        <4>2. QED
          BY <1>0, <3>1, <4>1 DEF NumberOf
      <3>4. QED
        BY <3>2, <3>3
    <2>7. ASSUME NEW q \in Requests, q # r PROVE LoadVersion(q)'
      <3>1. req'[q] = req[q] /\ req[q].load.version \in Nat
        BY <1>3, <2>7, HandlerFacts DEF Only
      <3>2. CASE req[q].load.key = k
        BY <1>0, <1>3, <1>5, <2>3, <3>1, <3>2 DEF LoadVersion
      <3>3. CASE req[q].load.key # k
        <4>1. req[q].load.key \in EpochKeys => newest'[req[q].load.key] = newest[req[q].load.key]
                                          /\ state'[req[q].load.key] = state[req[q].load.key]
          BY <1>5, <1>8, <2>2, <3>3, EpochFacts
        <4>2. QED
          BY <1>0, <1>3, <3>1, <4>1 DEF LoadVersion
      <3>4. QED
        BY <3>2, <3>3
    <2>8. QED
      BY <1>6, <2>4, <2>5, <2>6, <2>7 DEF NumbersInv
  <1>9. QED
    BY <1>3, <1>7, <1>8

\* Every step keeps the bookkeeping.
LEMMA NumbersStep == TypeOK /\ Begun /\ Ordered /\ NumbersInv /\ [Next]_vars => NumbersInv'
  <1> SUFFICES ASSUME TypeOK, Begun, Ordered, NumbersInv, [Next]_vars PROVE NumbersInv'
    OBVIOUS
  <1>1. ASSUME NEW k \in Keys, WriteRow(k) PROVE NumbersInv'
    BY <1>1, WriteRowFacts DEF NumbersInv, KeyNumbers, NumberOf, LoadVersion
  <1>2. CASE Crash
    <2>1. \A k \in EpochKeys : KeyNumbers(k)'
      <3>1. newest' = [k \in Keys |-> Nothing]
        BY <1>2, CrashFacts
      <3>2. QED
        BY <3>1, KeyFacts, TriggerAssumption DEF KeyNumbers, Nothing
    <2>2. \A r \in Requests : NumberOf(r)' /\ LoadVersion(r)'
      BY <1>2, CrashFacts, RecordFacts DEF NumberOf, LoadVersion, Numbered
    <2>3. QED
      BY <2>1, <2>2 DEF NumbersInv
  <1>3. CASE UNCHANGED vars
    BY <1>3 DEF vars, ghosts, NumbersInv, KeyNumbers, NumberOf, LoadVersion
  <1>4. QED
    BY <1>1, <1>2, <1>3, StepCases, NumbersMove, NumbersLoad, NumbersGiven, NumbersMigrate,
       NumbersUpdate

\* For any number of requests whose answers come in any order, with loads in
\* flight and restarts between them: the memory of a branch shows the answer of the
\* newest generation.
THEOREM NewestStays == Spec => []NewestAnswerStays
  <1>1. Init => Ordered
    BY DEF Init, Ordered, Absent
  <1>2. NumbersInv => NewestAnswerStays
    BY DEF NumbersInv, KeyNumbers, NewestAnswerStays
  <1>3. QED
    BY <1>1, <1>2, NumbersInit, NumbersStep, OrderedStep, TypeInvariant, PTL DEF Spec
-----------------------------------------------------------------------------
(* The lock of a key: rows in the order of the memory                      *)

Holds(r, k) == req[r].hold.held /\ req[r].hold.key = k

\* Who holds a key's lock is alone, and is about to submit the last decision.
LockOf(r) ==
  /\ req[r].pc = "idle" => ~req[r].hold.held
  /\ req[r].hold.held =>
       /\ decided[req[r].hold.key] = req[r].hold.value
       /\ \A q \in Requests : req[q].hold.held /\ req[q].hold.key = req[r].hold.key => q = r

LockInv == \A r \in Requests : LockOf(r)

\* Without a holder, the last decision is the last write in the queue or, if that was
\* tried with success, the row.
KeyWrites(k) ==
  /\ outcome[k] = "pending" => Len(queue[k]) # 0
  /\ outcome[k] = "saved" => Len(queue[k]) = 0
  /\ Unlocked(k) /\ outcome[k] = "pending" => queue[k][Len(queue[k])] = decided[k]
  /\ Unlocked(k) /\ outcome[k] = "saved" => disk[k] = decided[k]

WritesInv == LockInv /\ \A k \in Keys : KeyWrites(k)

\* No lock, queue, row or decision changes.
WritesKept ==
  /\ \A r \in Requests :
       /\ req'[r].hold.held = req[r].hold.held
       /\ req[r].hold.held => req'[r].hold = req[r].hold
       /\ req'[r].pc = "idle" => req[r].pc = "idle"
  /\ UNCHANGED <<queue, disk, decided, outcome>>

\* Such a step keeps the order of the writes.
LEMMA WritesFrame == ASSUME WritesInv, WritesKept PROVE WritesInv'
  <1>2. \A k \in Keys : Unlocked(k)' <=> Unlocked(k)
    BY DEF WritesKept, Unlocked
  <1>3. LockInv'
    BY DEF WritesInv, LockInv, LockOf, WritesKept
  <1>4. \A k \in Keys : KeyWrites(k)'
    BY <1>2 DEF WritesInv, KeyWrites, WritesKept
  <1>5. QED
    BY <1>3, <1>4 DEF WritesInv

\* A request takes the lock of a free key and decides about it.
LEMMA WritesTake ==
  ASSUME TypeOK, WritesInv, NEW r \in Requests, NEW k \in Keys, NEW value \in Optional,
         Only(r), Unlocked(k), req[r].hold.held = FALSE, req'[r].hold = Holding(k, value),
         req'[r].pc # "idle",
         decided' = [decided EXCEPT ![k] = value], UNCHANGED <<queue, disk, outcome>>
  PROVE  WritesInv'
  <1>1. decided \in [Keys -> Rows] /\ decided'[k] = value
        /\ \A j \in Keys : j # k => decided'[j] = decided[j]
    BY DEF TypeOK
  <1>2. req'[r].hold.held /\ req'[r].hold.key = k /\ req'[r].hold.value = value
    BY RecordFacts DEF Holding
  <1>3. LockInv'
    <2> SUFFICES ASSUME NEW q \in Requests PROVE LockOf(q)'
      BY DEF LockInv
    <2>1. CASE q = r
      BY <1>1, <1>2, <2>1 DEF Only, Unlocked, LockOf
    <2>2. CASE q # r
      <3>1. req'[q] = req[q] /\ (req[q].hold.held => req[q].hold.key # k)
        BY <2>2 DEF Only, Unlocked
      <3>2. req[q].hold.key \in Keys
        BY HandlerFacts
      <3>3. ASSUME req[q].hold.held, NEW p \in Requests,
                   req'[p].hold.held, req'[p].hold.key = req[q].hold.key
            PROVE  p = q
        <4>1. p # r
          BY <1>2, <3>1, <3>3
        <4>2. req'[p] = req[p]
          BY <4>1 DEF Only
        <4>3. QED
          BY <3>3, <4>2 DEF WritesInv, LockInv, LockOf
      <3>4. QED
        BY <1>1, <3>1, <3>2, <3>3 DEF WritesInv, LockInv, LockOf
    <2>3. QED
      BY <2>1, <2>2
  <1>4. ~Unlocked(k)'
    BY <1>2 DEF Unlocked
  <1>5. \A j \in Keys : j # k => (Unlocked(j)' <=> Unlocked(j))
    BY <1>2 DEF Unlocked, Only
  <1>6. \A j \in Keys : KeyWrites(j)'
    BY <1>1, <1>4, <1>5 DEF WritesInv, KeyWrites
  <1>7. QED
    BY <1>3, <1>6 DEF WritesInv

\* The last element of a queue stays the last when another is taken from its head.
LEMMA LastFacts ==
  ASSUME NEW s \in Seq(Optional)
  PROVE  /\ \A v \in Optional : Len(Append(s, v)) # 0 /\ Append(s, v)[Len(Append(s, v))] = v
         /\ s # <<>> => Len(s) # 0
         /\ s # <<>> /\ Len(s) = 1 => Len(Tail(s)) = 0 /\ Head(s) = s[Len(s)]
         /\ s # <<>> /\ Len(s) # 1 => Len(Tail(s)) # 0 /\ Tail(s)[Len(Tail(s))] = s[Len(s)]
  <1>1. ASSUME NEW v \in Optional
        PROVE  Len(Append(s, v)) # 0 /\ Append(s, v)[Len(Append(s, v))] = v
    <2>1. Len(Append(s, v)) = Len(s) + 1 /\ Len(s) \in Nat /\ Append(s, v)[Len(s) + 1] = v
      OBVIOUS
    <2>2. QED
      BY <2>1
  <1>2. s # <<>> => Len(s) # 0
    OBVIOUS
  <1>3. s # <<>> /\ Len(s) = 1 => Len(Tail(s)) = 0 /\ Head(s) = s[Len(s)]
    OBVIOUS
  <1>4. ASSUME s # <<>>, Len(s) # 1 PROVE Len(Tail(s)) # 0 /\ Tail(s)[Len(Tail(s))] = s[Len(s)]
    <2>1. PICK n \in Nat : n = Len(s)
      OBVIOUS
    <2>2. n > 1
      BY <1>4, <2>1
    <2>3. Len(Tail(s)) = n - 1 /\ Tail(s)[n - 1] = s[n]
      BY <1>4, <2>1, <2>2
    <2>4. QED
      BY <2>1, <2>2, <2>3
  <1>5. QED
    BY <1>1, <1>2, <1>3, <1>4

\* Who submits has decided last: the accepted write is the last in the queue.
LEMMA WritesSubmit ==
  ASSUME TypeOK, WritesInv, NEW r \in Requests, Submit(r) PROVE WritesInv'
  <1>0. PICK k \in Keys, v \in Optional : k = req[r].hold.key /\ v = req[r].hold.value
    BY HandlerFacts
  <1>1. /\ req[r].hold.held
        /\ Only(r) /\ req'[r].hold.held = FALSE /\ req'[r].pc = req[r].pc
        /\ disk' = disk /\ decided' = decided
        /\ \/ /\ queue' = [queue EXCEPT ![k] = Append(@, v)]
              /\ outcome' = [outcome EXCEPT ![k] = "pending"]
           \/ /\ outcome' = [outcome EXCEPT ![k] = "lost"]
              /\ queue' = queue
    BY <1>0, SubmitFacts
  <1>2. decided[k] = v /\ \A q \in Requests : Holds(q, k) => q = r
    BY <1>0, <1>1 DEF WritesInv, LockInv, LockOf, Holds
  <1>3. /\ queue \in [Keys -> Seq(Optional)] /\ queue[k] \in Seq(Optional)
        /\ outcome \in [Keys -> {"pending", "saved", "lost"}]
    BY <1>1 DEF TypeOK
  <1>4. LockInv'
    <2> SUFFICES ASSUME NEW q \in Requests PROVE LockOf(q)'
      BY DEF LockInv
    <2>1. CASE q = r
      BY <1>1, <2>1 DEF LockOf
    <2>2. CASE q # r
      <3>1. req'[q] = req[q] /\ decided' = decided
        BY <1>1, <2>2 DEF Only
      <3>2. ASSUME req[q].hold.held, NEW p \in Requests,
                   req'[p].hold.held, req'[p].hold.key = req[q].hold.key
            PROVE  p = q
        <4>1. p # r
          BY <1>1, <3>2
        <4>2. req'[p] = req[p]
          BY <1>1, <4>1 DEF Only
        <4>3. QED
          BY <3>2, <4>2 DEF WritesInv, LockInv, LockOf
      <3>3. QED
        BY <3>1, <3>2 DEF WritesInv, LockInv, LockOf
    <2>3. QED
      BY <2>1, <2>2
  <1>5. ASSUME NEW j \in Keys, j # k PROVE KeyWrites(j)'
    <2>1. queue'[j] = queue[j] /\ outcome'[j] = outcome[j]
      BY <1>1, <1>3, <1>5
    <2>2. Unlocked(j)' <=> Unlocked(j)
      <3>1. \A q \in Requests : Holds(q, j)' <=> Holds(q, j)
        BY <1>0, <1>1, <1>5 DEF Only, Holds
      <3>2. QED
        BY <3>1 DEF Unlocked, Holds
    <2>3. QED
      BY <1>1, <2>1, <2>2 DEF WritesInv, KeyWrites
  <1>6. KeyWrites(k)'
    <2>1. CASE /\ queue' = [queue EXCEPT ![k] = Append(@, v)]
               /\ outcome' = [outcome EXCEPT ![k] = "pending"]
      <3>1. /\ queue'[k] = Append(queue[k], v) /\ outcome'[k] = "pending"
        BY <1>1, <1>3, <2>1
      <3>2. /\ Len(Append(queue[k], v)) # 0
            /\ Append(queue[k], v)[Len(Append(queue[k], v))] = v
        BY <1>3, LastFacts
      <3>3. QED
        BY <1>1, <1>2, <3>1, <3>2 DEF KeyWrites
    <2>2. CASE outcome' = [outcome EXCEPT ![k] = "lost"]
      BY <1>1, <1>3, <2>2 DEF KeyWrites
    <2>3. QED
      BY <1>1, <2>1, <2>2
  <1>7. QED
    BY <1>4, <1>5, <1>6 DEF WritesInv

\* The writer takes the oldest write; with the last one the row follows or it is lost.
LEMMA WritesWritten ==
  ASSUME TypeOK, WritesInv, NEW k \in Keys, WriteRow(k) PROVE WritesInv'
  <1>1. /\ req' = req /\ decided' = decided /\ queue[k] # <<>>
        /\ queue' = [queue EXCEPT ![k] = Tail(@)]
        /\ \/ /\ disk' = [disk EXCEPT ![k] = Head(queue[k])]
              /\ outcome' = IF Len(queue[k]) = 1 /\ outcome[k] = "pending"
                              THEN [outcome EXCEPT ![k] = "saved"] ELSE outcome
           \/ /\ disk' = disk
              /\ outcome' = IF Len(queue[k]) = 1 /\ outcome[k] = "pending"
                              THEN [outcome EXCEPT ![k] = "lost"] ELSE outcome
    BY WriteRowFacts
  <1>2. /\ queue \in [Keys -> Seq(Optional)] /\ queue[k] \in Seq(Optional)
        /\ disk \in [Keys -> Rows] /\ outcome \in [Keys -> {"pending", "saved", "lost"}]
    BY DEF TypeOK
  <1>3. LockInv'
    BY <1>1 DEF WritesInv, LockInv, LockOf
  <1>4. \A j \in Keys : Unlocked(j)' <=> Unlocked(j)
    BY <1>1 DEF Unlocked
  <1>5. ASSUME NEW j \in Keys, j # k PROVE KeyWrites(j)'
    <2>1. queue'[j] = queue[j] /\ outcome'[j] = outcome[j] /\ disk'[j] = disk[j]
      BY <1>1, <1>2, <1>5
    <2>2. QED
      BY <1>1, <1>4, <2>1 DEF WritesInv, KeyWrites
  <1>6. KeyWrites(k)'
    <2>0. KeyWrites(k) /\ outcome[k] # "saved" /\ queue'[k] = Tail(queue[k])
      BY <1>1, <1>2, LastFacts DEF WritesInv, KeyWrites
    <2>1. CASE Len(queue[k]) = 1 /\ outcome[k] = "pending"
      <3>1. Len(queue'[k]) = 0 /\ Head(queue[k]) = queue[k][Len(queue[k])]
        BY <1>1, <1>2, <2>0, <2>1, LastFacts
      <3>2. (outcome'[k] = "saved" /\ disk'[k] = Head(queue[k])) \/ outcome'[k] = "lost"
        BY <1>1, <1>2, <2>1
      <3>3. QED
        BY <1>1, <1>4, <2>0, <2>1, <3>1, <3>2 DEF KeyWrites
    <2>2. CASE Len(queue[k]) # 1 /\ outcome[k] = "pending"
      <3>1. /\ Len(Tail(queue[k])) # 0
            /\ Tail(queue[k])[Len(Tail(queue[k]))] = queue[k][Len(queue[k])]
        BY <1>1, <1>2, <2>2, LastFacts
      <3>2. outcome'[k] = "pending"
        BY <1>1, <2>2
      <3>3. QED
        BY <1>1, <1>4, <2>0, <2>2, <3>1, <3>2 DEF KeyWrites
    <2>3. CASE outcome[k] = "lost"
      BY <1>1, <2>3 DEF KeyWrites
    <2>4. QED
      BY <1>2, <2>0, <2>1, <2>2, <2>3
  <1>7. QED
    BY <1>3, <1>5, <1>6 DEF WritesInv

\* Every step keeps the order of the writes.
LEMMA WritesStep == TypeOK /\ WritesInv /\ [Next]_vars => WritesInv'
  <1> SUFFICES ASSUME TypeOK, WritesInv, [Next]_vars PROVE WritesInv'
    OBVIOUS
  <1>1. ASSUME NEW r \in Requests, Begin(r) PROVE WritesInv'
    <2>1. req[r].hold.held = FALSE /\ NoHold.held = FALSE
      BY <1>1, BeginFacts, HandlerFacts, RecordFacts DEF WritesInv, LockInv, LockOf
    <2>2. WritesKept
      BY <1>1, <2>1, BeginFacts DEF WritesKept, Only
    <2>3. QED
      BY <2>2, WritesFrame
  <1>2. ASSUME NEW r \in Requests, ReadRow(r) \/ ShareResult(r) PROVE WritesInv'
    <2>1. Only(r) /\ Kept(r) /\ UNCHANGED <<queue, disk, decided, outcome>>
      BY <1>2, ReadRowFacts, ShareResultFacts DEF ReadRow, ShareResult, ghosts
    <2>2. WritesKept
      BY <2>1 DEF WritesKept, Only, Kept
    <2>3. QED
      BY <2>2, WritesFrame
  <1>3. ASSUME NEW r \in Requests, PublishRow(r) PROVE WritesInv'
    <2>1. (\A q \in Requests : Kept(q)) /\ UNCHANGED <<queue, disk, decided, outcome>>
      BY <1>3, PublishRowFacts DEF PublishRow, ghosts
    <2>2. WritesKept
      BY <2>1 DEF WritesKept, Kept
    <2>3. QED
      BY <2>2, WritesFrame
  <1>4. ASSUME NEW r \in Requests, LoadHead(r) PROVE WritesInv'
    <2>1. /\ Only(r) /\ UNCHANGED <<queue, disk, decided, outcome>>
          /\ req'[r].hold = req[r].hold /\ req'[r].pc \in {"examine", "copy", "look"}
      BY <1>4, LoadHeadFacts
    <2>2. WritesKept
      BY <2>1 DEF WritesKept, Only
    <2>3. QED
      BY <2>2, WritesFrame
  <1>5. ASSUME NEW r \in Requests, QuietStep(r) PROVE WritesInv'
    <2>1. /\ Only(r) /\ UNCHANGED <<queue, disk, decided, outcome>>
          /\ req[r].hold.held = FALSE /\ req'[r].hold.held = FALSE /\ req'[r].pc # "idle"
      BY <1>5, QuietFacts, HandlerFacts
    <2>2. WritesKept
      BY <2>1 DEF WritesKept, Only
    <2>3. QED
      BY <2>2, WritesFrame
  <1>6. ASSUME NEW r \in Requests, Migrate(r) PROVE WritesInv'
    <2> DEFINE k == req[r].key
               base == state[Bare].base
    <2>1. /\ Only(r) /\ k \in Keys /\ base \in Optional /\ Unlocked(k)
          /\ UNCHANGED <<queue, disk, outcome>>
          /\ req[r].hold.held = FALSE /\ req'[r].pc = "alias"
          /\ \/ decided' = decided /\ req'[r].hold.held = FALSE
             \/ decided' = [decided EXCEPT ![k] = base] /\ req'[r].hold = Holding(k, base)
      BY <1>6, MigrateFacts, HandlerFacts, KeyFacts DEF TypeOK, Entries
    <2> HIDE DEF k, base
    <2>2. CASE decided' = decided /\ req'[r].hold.held = FALSE
      <3>1. WritesKept
        BY <2>1, <2>2 DEF WritesKept, Only
      <3>2. QED
        BY <3>1, WritesFrame
    <2>3. CASE decided' = [decided EXCEPT ![k] = base] /\ req'[r].hold = Holding(k, base)
      BY <2>1, <2>3, WritesTake
    <2>4. QED
      BY <2>1, <2>2, <2>3
  <1>7. ASSUME NEW r \in Requests,
               SetCurrentAlias(r) \/ BeginPressureRequest(r) \/ IncrementRequestSeq(r)
        PROVE  WritesInv'
    <2>1. /\ Only(r) /\ UNCHANGED <<queue, disk, decided, outcome>>
          /\ req'[r].hold = req[r].hold /\ req'[r].pc # "idle"
      BY <1>7, SetCurrentAliasFacts, NumberFacts
    <2>2. WritesKept
      BY <2>1 DEF WritesKept, Only
    <2>3. QED
      BY <2>2, WritesFrame
  <1>8. ASSUME NEW r \in Requests, UpdateStep(r) PROVE WritesInv'
    <2> DEFINE k == Key(r)
    <2>1. PICK value \in Optional :
            /\ Only(r) /\ k \in Keys /\ Unlocked(k)
            /\ \/ decided' = [decided EXCEPT ![k] = value] /\ req'[r].hold = Holding(k, value)
               \/ decided' = decided /\ req'[r].hold.held = FALSE
            /\ UNCHANGED <<queue, disk, outcome>>
            /\ req[r].hold.held = FALSE /\ req'[r].pc \in {"count", "done"}
      BY <1>8, UpdateFacts, Zenon
    <2> HIDE DEF k
    <2>2. CASE decided' = decided /\ req'[r].hold.held = FALSE
      <3>1. WritesKept
        BY <2>1, <2>2 DEF WritesKept, Only
      <3>2. QED
        BY <3>1, WritesFrame
    <2>3. CASE decided' = [decided EXCEPT ![k] = value] /\ req'[r].hold = Holding(k, value)
      BY <2>1, <2>3, WritesTake
    <2>4. QED
      BY <2>1, <2>2, <2>3
  <1>9. CASE Crash
    <2>1. /\ queue' = [k \in Keys |-> <<>>] /\ outcome' = [k \in Keys |-> "saved"]
          /\ disk' = disk /\ decided' = disk /\ \A r \in Requests : req'[r].hold.held = FALSE
      BY <1>9, CrashFacts, RecordFacts
    <2>2. LockInv'
      BY <2>1 DEF LockInv, LockOf
    <2>3. \A k \in Keys : KeyWrites(k)'
      BY <2>1 DEF KeyWrites
    <2>4. QED
      BY <2>2, <2>3 DEF WritesInv
  <1>10. CASE UNCHANGED vars
    BY <1>10, WritesFrame DEF WritesKept, vars, ghosts
  <1>11. QED
    BY <1>1, <1>2, <1>3, <1>4, <1>5, <1>6, <1>7, <1>8, <1>9, <1>10, StepCases, WritesSubmit,
       WritesWritten

\* Two requests of one key submit in the order of their updates: once the writes of a
\* key were tried and the last one succeeded, the row is what the memory decided last.
THEOREM RowIsLastDecisionCorrect == Spec => []RowIsLastDecision
  <1>1. Init => WritesInv
    BY RecordFacts DEF Init, WritesInv, LockInv, LockOf, KeyWrites, Fresh
  <1>2. WritesInv => RowIsLastDecision
    BY DEF WritesInv, KeyWrites, RowIsLastDecision, Unlocked
  <1>3. QED
    BY <1>1, <1>2, WritesStep, TypeInvariant, PTL DEF Spec
-----------------------------------------------------------------------------
(* Branches: nothing of another branch under a key of its own              *)

\* A baseline that may stand under k is not that of a request of this process that
\* works for another key.
Own(k, value) == value \in Requests => req[value].key = k

\* Every place a value of k may be in.
KeyOwn(k) ==
  /\ Own(k, state[k].base) /\ Own(k, disk[k])
  /\ \A i \in 1..Len(queue[k]) : Own(k, queue[k][i])

HandlerOwn(r) ==
  /\ req[r].pc = "idle" => req[r].key = Bare
  /\ req[r].pc \in {"migrate", "examine", "copy"} => req[r].key = 1
  /\ req[r].hold.held /\ req[r].hold.key \in EpochKeys \ {1} => Own(req[r].hold.key, req[r].hold.value)
  /\ req[r].load.pc = "publish" /\ req[r].load.key \in EpochKeys \ {1} =>
       Own(req[r].load.key, req[r].load.row)

BranchInv == (\A k \in EpochKeys \ {1} : KeyOwn(k)) /\ \A r \in Requests : HandlerOwn(r)

\* The branch of a request that has begun does not change.
KeysKept == \A r \in Requests : req[r].pc # "idle" => req'[r].key = req[r].key

\* Then no value becomes one of another branch.
LEMMA OwnKept ==
  ASSUME BranchInv, KeysKept, NEW k \in EpochKeys, NEW v, Own(k, v)
  PROVE  v \in Requests => req'[v].key = k
  BY KeyFacts DEF BranchInv, HandlerOwn, KeysKept, Own

\* A step that changes no entry, row or queue of a branch.
LEMMA BranchFrame ==
  ASSUME BranchInv, KeysKept, \A k \in EpochKeys : state'[k] = state[k],
         UNCHANGED <<queue, disk>>, \A r \in Requests : HandlerOwn(r)'
  PROVE  BranchInv'
  <1> SUFFICES ASSUME NEW k \in EpochKeys \ {1} PROVE KeyOwn(k)'
    BY DEF BranchInv
  <1>1. KeyOwn(k)
    BY DEF BranchInv
  <1>2. Own(k, state[k].base)' /\ Own(k, disk[k])'
    BY <1>1, OwnKept DEF KeyOwn, Own
  <1>3. ASSUME NEW i \in 1..Len(queue[k]) PROVE Own(k, queue[k][i])'
    BY <1>1, OwnKept DEF KeyOwn, Own
  <1>4. QED
    BY <1>2, <1>3 DEF KeyOwn

\* A request that is not touched.
LEMMA OwnFrame ==
  ASSUME BranchInv, KeysKept, NEW r \in Requests, req'[r] = req[r]
  PROVE  HandlerOwn(r)'
  <1>1. HandlerOwn(r)
    BY DEF BranchInv
  <1>2. req[r].hold.held /\ req[r].hold.key \in EpochKeys \ {1} =>
          (req[r].hold.value \in Requests =>
           req'[req[r].hold.value].key = req[r].hold.key)
    BY <1>1, OwnKept DEF HandlerOwn, Own
  <1>3. req[r].load.pc = "publish" /\ req[r].load.key \in EpochKeys \ {1} =>
          (req[r].load.row \in Requests =>
           req'[req[r].load.row].key = req[r].load.key)
    BY <1>1, OwnKept DEF HandlerOwn, Own
  <1>4. QED
    BY <1>1, <1>2, <1>3 DEF HandlerOwn, Own

\* The steps of a request that reach no entry of another branch than the first.
LEMMA BranchQuiet ==
  ASSUME TypeOK, BranchInv, NEW r \in Requests,
         \/ Begin(r) \/ ShareResult(r) \/ LoadHead(r) \/ QuietStep(r) \/ SetCurrentAlias(r)
  PROVE  BranchInv'
  <1>0. HandlerOwn(r)
    BY DEF BranchInv
  <1>1. CASE Begin(r)
    <2>1. /\ Only(r) /\ req[r].pc = "idle" /\ UNCHANGED <<state, queue, disk>>
          /\ req'[r].pc \in {"migrate", "alias"} /\ (req'[r].pc = "migrate" => req'[r].key = 1)
          /\ req'[r].load.pc = "none" /\ req'[r].hold.held = FALSE
      BY <1>1, BeginFacts, RecordFacts
    <2>2. KeysKept /\ HandlerOwn(r)'
      BY <2>1 DEF KeysKept, Only, HandlerOwn
    <2>3. \A q \in Requests : HandlerOwn(q)'
      BY <2>1, <2>2, OwnFrame DEF Only
    <2>4. QED
      BY <2>1, <2>2, <2>3, BranchFrame
  <1>2. CASE ShareResult(r)
    <2>1. /\ Only(r) /\ Kept(r) /\ UNCHANGED <<state, queue, disk>>
          /\ req'[r].load.pc \in {"none", "failed"}
      BY <1>2, ShareResultFacts DEF ShareResult
    <2>2. KeysKept
      BY <2>1 DEF KeysKept, Only, Kept
    <2>3. req[r].hold.held /\ req[r].hold.key \in EpochKeys \ {1} =>
            (req[r].hold.value \in Requests =>
           req'[req[r].hold.value].key = req[r].hold.key)
      BY <1>0, <2>1, <2>2, OwnKept DEF HandlerOwn, Own
    <2>4. HandlerOwn(r)'
      BY <1>0, <2>1, <2>3 DEF HandlerOwn, Kept, Own
    <2>5. \A q \in Requests : HandlerOwn(q)'
      BY <2>1, <2>2, <2>4, OwnFrame DEF Only
    <2>6. QED
      BY <2>1, <2>2, <2>5, BranchFrame
  <1>3. CASE LoadHead(r)
    <2>1. /\ Only(r) /\ UNCHANGED <<state, queue, disk>> /\ req'[r].key = req[r].key
          /\ req[r].hold.held = FALSE /\ req'[r].hold = req[r].hold
          /\ req'[r].load.pc # "publish"
          /\ \/ req[r].pc = "migrate" /\ req'[r].pc = "examine"
             \/ req[r].pc = "examine" /\ req'[r].pc = "copy"
             \/ req'[r].pc = "look"
      BY <1>3, LoadHeadFacts
    <2>2. KeysKept /\ HandlerOwn(r)'
      BY <1>0, <2>1 DEF KeysKept, Only, HandlerOwn
    <2>3. \A q \in Requests : HandlerOwn(q)'
      BY <2>1, <2>2, OwnFrame DEF Only
    <2>4. QED
      BY <2>1, <2>2, <2>3, BranchFrame
  <1>4. CASE QuietStep(r)
    <2>1. /\ Only(r) /\ UNCHANGED <<state, queue, disk>> /\ req'[r].key = req[r].key
          /\ req'[r].hold.held = FALSE /\ req'[r].load.pc # "publish"
          /\ req'[r].pc \in {"alias", "take", "load", "upstream", "update", "done"}
      BY <1>4, QuietFacts
    <2>2. KeysKept /\ HandlerOwn(r)'
      BY <2>1 DEF KeysKept, Only, HandlerOwn
    <2>3. \A q \in Requests : HandlerOwn(q)'
      BY <2>1, <2>2, OwnFrame DEF Only
    <2>4. QED
      BY <2>1, <2>2, <2>3, BranchFrame
  <1>5. CASE SetCurrentAlias(r)
    <2>1. /\ Only(r) /\ (\A k \in EpochKeys : state'[k] = state[k]) /\ UNCHANGED <<queue, disk>>
          /\ req'[r].key = req[r].key /\ req[r].hold.held = FALSE /\ req'[r].hold = req[r].hold
          /\ req'[r].load.pc # "publish" /\ req'[r].pc \in {"count", "unsafe"}
      BY <1>5, SetCurrentAliasFacts
    <2>2. KeysKept /\ HandlerOwn(r)'
      BY <2>1 DEF KeysKept, Only, HandlerOwn
    <2>3. \A q \in Requests : HandlerOwn(q)'
      BY <2>1, <2>2, OwnFrame DEF Only
    <2>4. QED
      BY <2>1, <2>2, <2>3, BranchFrame
  <1>6. QED
    BY <1>1, <1>2, <1>3, <1>4, <1>5

\* What a load reads and publishes under a key is a row of that key.
LEMMA BranchLoad ==
  ASSUME TypeOK, BranchInv, NEW r \in Requests, ReadRow(r) \/ PublishRow(r)
  PROVE  BranchInv'
  <1>0. (\A q \in Requests : HandlerOwn(q)) /\ \A k \in EpochKeys \ {1} : KeyOwn(k)
    BY DEF BranchInv
  <1>1. CASE ReadRow(r)
    <2>1. /\ Only(r) /\ Kept(r) /\ UNCHANGED <<state, queue, disk>>
          /\ req'[r].load.pc = "publish" /\ req'[r].load.key = req[r].load.key
          /\ req'[r].load.row \in {disk[req[r].load.key], Unread}
      BY <1>1, ReadRowFacts DEF ReadRow
    <2>2. KeysKept
      BY <2>1 DEF KeysKept, Only, Kept
    <2>3. req[r].hold.held /\ req[r].hold.key \in EpochKeys \ {1} =>
            (req[r].hold.value \in Requests =>
           req'[req[r].hold.value].key = req[r].hold.key)
      BY <1>0, <2>1, <2>2, OwnKept DEF HandlerOwn, Own
    <2>4. ASSUME req[r].load.key \in EpochKeys \ {1}
          PROVE  req'[r].load.row \in Requests => req'[req'[r].load.row].key = req[r].load.key
      <3>1. Unread \notin Requests
        BY TriggerAssumption
      <3>2. Own(req[r].load.key, disk[req[r].load.key])
        BY <1>0, <2>4 DEF KeyOwn
      <3>3. disk[req[r].load.key] \in Requests
              => req'[disk[req[r].load.key]].key = req[r].load.key
        BY <2>2, <2>4, <3>2, OwnKept
      <3>4. QED
        BY <2>1, <3>1, <3>3
    <2>5. HandlerOwn(r)'
      BY <1>0, <2>1, <2>3, <2>4 DEF HandlerOwn, Kept, Own
    <2>6. \A q \in Requests : HandlerOwn(q)'
      BY <2>1, <2>2, <2>5, OwnFrame DEF Only
    <2>7. QED
      BY <2>1, <2>2, <2>6, BranchFrame
  <1>2. CASE PublishRow(r)
    <2>1. /\ \A q \in Requests : Kept(q)
          /\ req'[r].load.pc \in {"none", "failed"}
          /\ \A q \in Requests \ {r} : req'[q].load = req[q].load \/ req'[q].load.pc = "woken"
          /\ state' = AfterLoad(req[r].load.key, req[r].load)
          /\ UNCHANGED <<queue, disk>> /\ req[r].load.pc = "publish"
      BY <1>2, PublishRowFacts, ZenonT(40) DEF PublishRow
    <2>2. KeysKept
      BY <2>1 DEF KeysKept, Kept
    <2>3. ASSUME NEW q \in Requests PROVE HandlerOwn(q)'
      <3>1. req[q].hold.held /\ req[q].hold.key \in EpochKeys \ {1} =>
              (req[q].hold.value \in Requests =>
           req'[req[q].hold.value].key = req[q].hold.key)
        BY <1>0, <2>1, <2>2, OwnKept DEF HandlerOwn, Own
      <3>2. req[q].load.pc = "publish" /\ req[q].load.key \in EpochKeys \ {1} =>
              (req[q].load.row \in Requests =>
           req'[req[q].load.row].key = req[q].load.key)
        BY <1>0, <2>1, <2>2, OwnKept DEF HandlerOwn, Own
      <3>3. req'[q].load.pc = "publish" => req'[q].load = req[q].load
        BY <2>1
      <3>4. QED
        BY <1>0, <2>1, <3>1, <3>2, <3>3 DEF HandlerOwn, Kept, Own
    <2>4. ASSUME NEW k \in EpochKeys \ {1} PROVE KeyOwn(k)'
      <3>1. KeyOwn(k)
        BY <1>0
      <3>2. \/ state'[k].base = state[k].base
            \/ state'[k].base = req[r].load.row /\ req[r].load.key = k
        <4>1. PICK j \in Keys, load \in Loads : j = req[r].load.key /\ load = req[r].load
          BY HandlerFacts
        <4>2. state' = AfterLoad(j, load)
          BY <2>1, <4>1
        <4>3. \/ state'[k].base = state[k].base
              \/ (state'[k].base = load.row /\ j = k)
          <5>1. /\ j # k => AfterLoad(j, load)[k] = state[k]
                /\ j = k /\ load.row = Unread => AfterLoad(j, load)[k] = state[k]
                /\ j = k /\ load.row # Unread =>
                     \/ AfterLoad(j, load)[k].base = load.row
                     \/ AfterLoad(j, load)[k].base = state[k].base
            BY LoadedFacts, ZenonT(40)
          <5>2. QED
            BY <4>2, <5>1
        <4>4. QED
          BY <4>1, <4>3
      <3>3. Own(k, state'[k].base)
        BY <1>0, <2>1, <3>1, <3>2 DEF KeyOwn, HandlerOwn
      <3>4. Own(k, state[k].base)' /\ Own(k, disk[k])'
        BY <2>1, <2>2, <3>1, <3>3, OwnKept DEF KeyOwn, Own
      <3>5. ASSUME NEW i \in 1..Len(queue[k]) PROVE Own(k, queue[k][i])'
        BY <2>1, <2>2, <3>1, OwnKept DEF KeyOwn, Own
      <3>6. QED
        BY <2>1, <3>4, <3>5 DEF KeyOwn
    <2>5. QED
      BY <2>3, <2>4 DEF BranchInv
  <1>3. QED
    BY <1>1, <1>2

\* The steps of one request that change the entry of its own branch.
LEMMA BranchUpdate ==
  ASSUME TypeOK, Begun, BranchInv, NEW r \in Requests,
         Migrate(r) \/ BeginPressureRequest(r) \/ IncrementRequestSeq(r) \/ UpdateStep(r)
  PROVE  BranchInv'
  <1>0. (\A q \in Requests : HandlerOwn(q)) /\ \A k \in EpochKeys \ {1} : KeyOwn(k)
    BY DEF BranchInv
  <1>1. PICK k \in EpochKeys : k = req[r].key /\ k = Key(r)
    <2>1. req[r].pc \in {"copy", "count", "unsafe", "begin", "reset", "update"}
      BY MigrateFacts, NumberFacts, UpdateFacts
    <2>2. req[r].key \in EpochKeys
      BY <2>1 DEF Begun
    <2>3. QED
      BY <2>2, KeyFacts, ResolveFacts DEF Key, TypeOK
  <1>2. /\ Only(r) /\ req'[r].key = k /\ UNCHANGED <<queue, disk>>
        /\ \A j \in EpochKeys : j # k => state'[j] = state[j]
        /\ \/ k = 1 \/ state'[k].base = state[k].base \/ Own(k, state'[k].base)
        /\ \/ req'[r].hold.held = FALSE
           \/ req'[r].hold.key = k /\ (k = 1 \/ Own(k, req'[r].hold.value))
        /\ req'[r].load.pc \in {"none", "failed"}
        /\ req'[r].pc \notin {"idle", "migrate", "examine", "copy"}
    <2>1. CASE Migrate(r)
      <3>1. k = 1
        BY <1>0, <1>1, <2>1, MigrateFacts DEF HandlerOwn
      <3>2. /\ Only(r) /\ req'[r].key = req[r].key /\ UNCHANGED <<queue, disk>>
            /\ \A j \in EpochKeys : j # req[r].key => state'[j] = state[j]
            /\ req'[r].load = NoLoad /\ req'[r].pc = "alias"
            /\ req'[r].hold.held = FALSE \/ req'[r].hold = Holding(req[r].key, state[Bare].base)
        <4> HIDE DEF Holding, Only
        <4>1. QED
          BY <2>1, MigrateFacts
      <3>3. req'[r].hold.held = FALSE \/ req'[r].hold.key = k
        BY <1>1, <3>2 DEF Holding
      <3>4. QED
        BY <1>1, <3>1, <3>2, <3>3, RecordFacts
    <2>2. CASE BeginPressureRequest(r) \/ IncrementRequestSeq(r)
      <3>1. /\ Only(r) /\ req'[r].key = k /\ UNCHANGED <<queue, disk>>
            /\ \A j \in EpochKeys : j # k => state'[j] = state[j]
            /\ state'[k].base = state[k].base
            /\ req'[r].hold = req[r].hold /\ req[r].hold.held = FALSE
            /\ req'[r].load.pc \in {"none", "failed"}
            /\ req'[r].pc \in {"begin", "reset", "look", "upstream"}
        BY <1>1, <2>2, NumberFacts
      <3>2. QED
        BY <3>1
    <2>3. CASE UpdateStep(r)
      <3>1. PICK value \in Optional :
              /\ Only(r) /\ (value = NoBase \/ value = r)
              /\ \/ /\ \A j \in EpochKeys : j # Key(r) => state'[j] = state[j]
                    /\ Key(r) \in EpochKeys => UpdatedTo(state'[Key(r)], Key(r), req[r].gen, value)
                    /\ req'[r].hold = Holding(Key(r), value)
                 \/ UNCHANGED <<state, known, decided>> /\ req'[r].hold.held = FALSE
              /\ UNCHANGED <<loader, failures, alias, epoch, queue, disk, restarts, unread, outcome>>
              /\ req'[r].pc \in {"count", "done"} /\ req'[r].key = req[r].key
              /\ req'[r].load.pc \in {"none", "failed"}
        BY <2>3, UpdateFacts, Zenon
      <3>2. Own(k, value)
        BY <1>1, <3>1, TriggerAssumption DEF Own
      <3>3. \/ /\ \A j \in EpochKeys : j # k => state'[j] = state[j]
               /\ state'[k].base = value
               /\ req'[r].hold.key = k /\ req'[r].hold.value = value
            \/ state' = state /\ req'[r].hold.held = FALSE
        BY <1>1, <3>1 DEF UpdatedTo, Holding
      <3>4. QED
        BY <1>1, <3>1, <3>2, <3>3
    <2>4. QED
      BY <2>1, <2>2, <2>3
  <1>3. KeysKept
    BY <1>1, <1>2 DEF KeysKept, Only
  <1>4. HandlerOwn(r)'
    <2>1. k # 1 /\ Own(k, req'[r].hold.value)
            => (req'[r].hold.value \in Requests => req'[req'[r].hold.value].key = k)
      BY <1>3, OwnKept
    <2>2. QED
      BY <1>2, <2>1 DEF HandlerOwn, Own
  <1>5. ASSUME NEW j \in EpochKeys \ {1} PROVE KeyOwn(j)'
    <2>1. KeyOwn(j)
      BY <1>0
    <2>2. Own(j, state'[j].base)
      BY <1>2, <2>1 DEF KeyOwn
    <2>3. Own(j, state[j].base)' /\ Own(j, disk[j])'
      BY <1>2, <1>3, <2>1, <2>2, OwnKept DEF KeyOwn, Own
    <2>4. ASSUME NEW i \in 1..Len(queue[j]) PROVE Own(j, queue[j][i])'
      BY <1>2, <1>3, <2>1, OwnKept DEF KeyOwn, Own
    <2>5. QED
      BY <1>2, <2>3, <2>4 DEF KeyOwn
  <1>6. \A q \in Requests : HandlerOwn(q)'
    BY <1>2, <1>3, <1>4, OwnFrame DEF Only
  <1>7. QED
    BY <1>5, <1>6 DEF BranchInv

\* Writes stay under their key on their way to its row.
LEMMA BranchWrites ==
  ASSUME TypeOK, BranchInv,
         (\E r \in Requests : Submit(r)) \/ (\E k \in Keys : WriteRow(k))
  PROVE  BranchInv'
  <1>0. (\A q \in Requests : HandlerOwn(q)) /\ \A k \in EpochKeys \ {1} : KeyOwn(k)
    BY DEF BranchInv
  <1>1. ASSUME NEW r \in Requests, Submit(r) PROVE BranchInv'
    <2>1. PICK j \in Keys, v \in Optional : j = req[r].hold.key /\ v = req[r].hold.value
      BY HandlerFacts
    <2>2. /\ Only(r) /\ req[r].hold.held /\ req'[r].hold.held = FALSE
          /\ req'[r].pc = req[r].pc /\ req'[r].key = req[r].key /\ req'[r].load = req[r].load
          /\ queue' = [queue EXCEPT ![j] = Append(@, v)] \/ queue' = queue
          /\ UNCHANGED <<state, disk>>
      BY <1>1, <2>1, SubmitFacts
    <2>3. KeysKept
      BY <2>2 DEF KeysKept, Only
    <2>4. HandlerOwn(r)'
      <3>1. req[r].load.pc = "publish" /\ req[r].load.key \in EpochKeys \ {1} =>
              (req[r].load.row \in Requests =>
           req'[req[r].load.row].key = req[r].load.key)
        BY <1>0, <2>3, OwnKept DEF HandlerOwn, Own
      <3>2. QED
        BY <1>0, <2>2, <3>1 DEF HandlerOwn, Own
    <2>5. ASSUME NEW k \in EpochKeys \ {1} PROVE KeyOwn(k)'
      <3>1. KeyOwn(k) /\ k \in Keys /\ queue \in [Keys -> Seq(Optional)] /\ queue[k] \in Seq(Optional)
        BY <1>0, KeyFacts DEF TypeOK
      <3>2. ASSUME NEW i \in 1..Len(queue'[k]) PROVE Own(k, queue[k][i])'
        <4>1. \/ i \in 1..Len(queue[k]) /\ queue'[k][i] = queue[k][i]
              \/ k = j /\ queue'[k][i] = v
          <5>1. CASE queue'[k] = queue[k]
            BY <5>1
          <5>2. CASE k = j /\ queue'[k] = Append(queue[k], v)
            <6>1. PICK n \in Nat : n = Len(queue[k])
              BY <3>1
            <6>2. Len(queue'[k]) = n + 1 /\ queue'[k][n + 1] = v
                  /\ \A h \in 1..n : queue'[k][h] = queue[k][h]
              BY <3>1, <5>2, <6>1
            <6>3. i \in 1..n \/ i = n + 1
              BY <6>1, <6>2
            <6>4. QED
              BY <5>2, <6>1, <6>2, <6>3
          <5>3. QED
            BY <2>2, <3>1, <5>1, <5>2
        <4>2. k = j => Own(k, v)
          BY <1>0, <2>1, <2>2 DEF HandlerOwn
        <4>3. Own(k, queue'[k][i])
          BY <3>1, <4>1, <4>2 DEF KeyOwn
        <4>4. QED
          BY <2>3, <4>3, OwnKept DEF Own
      <3>3. Own(k, state[k].base)' /\ Own(k, disk[k])'
        BY <2>2, <2>3, <3>1, OwnKept DEF KeyOwn, Own
      <3>4. QED
        BY <3>2, <3>3 DEF KeyOwn
    <2>6. \A q \in Requests : HandlerOwn(q)'
      BY <2>2, <2>3, <2>4, OwnFrame DEF Only
    <2>7. QED
      BY <2>5, <2>6 DEF BranchInv
  <1>2. ASSUME NEW j \in Keys, WriteRow(j) PROVE BranchInv'
    <2>1. /\ req' = req /\ queue[j] # <<>> /\ queue' = [queue EXCEPT ![j] = Tail(@)]
          /\ disk' = [disk EXCEPT ![j] = Head(queue[j])] \/ disk' = disk
          /\ state' = state
      BY <1>2, WriteRowFacts
    <2>2. ASSUME NEW k \in EpochKeys \ {1} PROVE KeyOwn(k)'
      <3>1. /\ KeyOwn(k) /\ k \in Keys /\ queue \in [Keys -> Seq(Optional)]
            /\ queue[k] \in Seq(Optional) /\ disk \in [Keys -> Rows]
        BY <1>0, KeyFacts DEF TypeOK
      <3>2. CASE k = j
        <4>1. PICK n \in Nat : n = Len(queue[k])
          BY <3>1
        <4>2. /\ n > 0 /\ Len(queue'[k]) = n - 1 /\ Head(queue[k]) = queue[k][1]
              /\ \A i \in 1..(n - 1) : queue'[k][i] = queue[k][i + 1]
          BY <2>1, <3>1, <3>2, <4>1
        <4>3. Own(k, queue[k][1]) /\ \A i \in 1..(n - 1) : Own(k, queue[k][i + 1])
          BY <3>1, <4>1, <4>2 DEF KeyOwn
        <4>4. disk'[k] = disk[k] \/ disk'[k] = queue[k][1]
          BY <2>1, <3>1, <3>2, <4>2
        <4>5. QED
          BY <2>1, <3>1, <4>2, <4>3, <4>4 DEF KeyOwn, Own
      <3>3. CASE k # j
        <4>1. queue'[k] = queue[k] /\ disk'[k] = disk[k]
          BY <2>1, <3>1, <3>3
        <4>2. QED
          BY <2>1, <3>1, <4>1 DEF KeyOwn, Own
      <3>4. QED
        BY <3>2, <3>3
    <2>3. \A q \in Requests : HandlerOwn(q)'
      BY <1>0, <2>1 DEF HandlerOwn, Own
    <2>4. QED
      BY <2>2, <2>3 DEF BranchInv
  <1>3. QED
    BY <1>1, <1>2

\* Every step keeps the branches apart.
LEMMA BranchStep == TypeOK /\ Begun /\ BranchInv /\ [Next]_vars => BranchInv'
  <1> SUFFICES ASSUME TypeOK, Begun, BranchInv, [Next]_vars PROVE BranchInv'
    OBVIOUS
  <1>1. CASE Crash
    <2>1. /\ \A r \in Requests :
               /\ req'[r].pc = IF req[r].pc = "idle" THEN "idle" ELSE "done"
               /\ req'[r].key = IF req[r].pc = "idle" THEN Bare ELSE req[r].key
               /\ req'[r].load.pc = "none" /\ req'[r].hold.held = FALSE
          /\ state' = [k \in Keys |-> Absent] /\ queue' = [k \in Keys |-> <<>>] /\ disk' = disk
      BY <1>1, CrashFacts, RecordFacts
    <2>2. KeysKept /\ \A r \in Requests : HandlerOwn(r)'
      BY <2>1 DEF KeysKept, HandlerOwn
    <2>3. ASSUME NEW k \in EpochKeys \ {1} PROVE KeyOwn(k)'
      <3>1. KeyOwn(k) /\ k \in Keys
        BY KeyFacts DEF BranchInv
      <3>2. state'[k].base = NoBase /\ NoBase \notin Requests
        BY <2>1, <3>1, TriggerAssumption DEF Absent
      <3>3. Own(k, disk[k])'
        BY <2>1, <2>2, <3>1, OwnKept DEF KeyOwn, Own
      <3>4. queue'[k] = <<>> /\ Len(queue'[k]) = 0
        BY <2>1, <3>1
      <3>5. QED
        BY <3>2, <3>3, <3>4 DEF KeyOwn, Own
    <2>4. QED
      BY <2>2, <2>3 DEF BranchInv
  <1>2. CASE UNCHANGED vars
    <2>1. /\ req' = req /\ \A k \in EpochKeys : state'[k] = state[k]
          /\ UNCHANGED <<queue, disk>>
      BY <1>2 DEF vars
    <2>2. KeysKept
      BY <2>1 DEF KeysKept
    <2>3. \A q \in Requests : HandlerOwn(q)'
      BY <2>1, <2>2, OwnFrame
    <2>4. QED
      BY <2>1, <2>2, <2>3, BranchFrame
  <1>3. QED
    BY <1>1, <1>2, StepCases, BranchQuiet, BranchLoad, BranchUpdate, BranchWrites

\* For any number of branches and requests, with answers that come after their branch
\* was left, writes in flight and restarts: what is kept of a branch other than the
\* first, in memory and in its row, is the answer to a request of that branch.
THEOREM BranchKeepsItsOwnCorrect == Spec => []BranchKeepsItsOwn
  <1>1. Init => BranchInv
    <2> SUFFICES ASSUME Init PROVE BranchInv
      OBVIOUS
    <2>1. \A r \in Requests : HandlerOwn(r)
      BY DEF Init, HandlerOwn, Fresh, NoLoad, NoHold
    <2>2. ASSUME NEW k \in EpochKeys \ {1} PROVE KeyOwn(k)
      <3>1. k \in Keys /\ state[k].base = NoBase /\ disk[k] = NoRow
        BY KeyFacts DEF Init, Absent
      <3>2. queue[k] = <<>> /\ Len(queue[k]) = 0
        BY <3>1 DEF Init
      <3>3. QED
        BY <3>1, <3>2, TriggerAssumption DEF KeyOwn, Own
    <2>3. QED
      BY <2>1, <2>2 DEF BranchInv
  <1>2. BranchInv => BranchKeepsItsOwn
    BY DEF BranchInv, KeyOwn, Own, BranchKeepsItsOwn
  <1>3. QED
    BY <1>1, <1>2, BranchStep, TypeInvariant, PTL DEF Spec
-----------------------------------------------------------------------------
(* What is taken for an absent baseline is known to be absent              *)

\* What a request goes by is a row that was read, or an entry that was set.
KnownOf(r) ==
  /\ req[r].load.pc = "publish" /\ req[r].load.row # Unread => req[r].load.key \in known
  /\ req[r].load.pc = "woken" /\ req[r].load.key \notin failures => req[r].load.key \in known
  /\ req[r].pc = "examine" /\ req[r].load.pc = "none" => req[r].key \in known
  /\ req[r].pc = "examine" /\ req[r].load.pc \notin {"none", "failed"} =>
       req[r].load.key = req[r].key
  /\ req[r].pc \in {"copy", "take"} => req[r].key \in known
  /\ req[r].result = "empty" => req[r].key \in known

KnownEntries ==
  \A k \in EpochKeys : state[k].loaded \/ state[k].base # NoBase => k \in known

KnownInv == KnownEntries /\ \A r \in Requests : KnownOf(r)

\* What is known stays known: the other requests need not be looked at.
LEMMA KnownFrame ==
  ASSUME KnownInv, NEW r \in Requests, Only(r), known \subseteq known', failures' = failures,
         KnownEntries', KnownOf(r)'
  PROVE  KnownInv'
  <1>1. ASSUME NEW q \in Requests, q # r PROVE KnownOf(q)'
    BY <1>1 DEF KnownInv, KnownOf, Only
  <1>2. QED
    BY <1>1 DEF KnownInv

\* The steps that leave the entries of the branches alone.
LEMMA KnownMove ==
  ASSUME TypeOK, Begun, KnownInv, NEW r \in Requests,
         Begin(r) \/ Submit(r) \/ ShareResult(r) \/ LoadHead(r) \/ QuietStep(r)
         \/ SetCurrentAlias(r)
  PROVE  KnownInv'
  <1>0. KnownOf(r)
    BY DEF KnownInv
  <1>1. ASSUME Only(r), \A k \in EpochKeys : state'[k] = state[k], known' = known,
               failures' = failures, KnownOf(r)'
        PROVE  KnownInv'
    <2>1. KnownEntries'
      BY <1>1 DEF KnownInv, KnownEntries
    <2>2. QED
      BY <1>1, <2>1, KnownFrame
  <1>2. CASE Begin(r)
    <2>1. /\ Only(r) /\ state' = state /\ known' = known /\ failures' = failures
          /\ req'[r].pc \in {"migrate", "alias"} /\ req'[r].load.pc = "none"
          /\ req'[r].result = "none"
      BY <1>2, BeginFacts, RecordFacts
    <2>2. QED
      BY <1>1, <2>1 DEF KnownOf
  <1>3. CASE Submit(r)
    <2>1. /\ Only(r) /\ state' = state /\ known' = known /\ failures' = failures
          /\ req'[r].pc = req[r].pc /\ req'[r].key = req[r].key
          /\ req'[r].load = req[r].load /\ req'[r].result = req[r].result
      BY <1>3, SubmitFacts
    <2>2. KnownOf(r)'
      BY <1>0, <2>1 DEF KnownOf
    <2>3. QED
      BY <1>1, <2>1, <2>2
  <1>4. CASE ShareResult(r)
    <2>1. /\ Only(r) /\ Kept(r) /\ req[r].load.pc = "woken"
          /\ req'[r].load.pc \in {"none", "failed"}
          /\ req'[r].load.pc = "none" => req[r].load.key \notin failures
          /\ state' = state /\ known' = known /\ failures' = failures
      BY <1>4, ShareResultFacts DEF ShareResult, ghosts
    <2>2. KnownOf(r)'
      BY <1>0, <2>1 DEF KnownOf, Kept
    <2>3. QED
      BY <1>1, <2>1, <2>2
  <1>5. CASE LoadHead(r)
    <2>1. PICK k \in Keys :
            /\ Only(r) /\ state' = state /\ known' = known /\ failures' = failures
            /\ req'[r].key = req[r].key /\ req'[r].result = req[r].result
            /\ \/ req[r].pc = "migrate" /\ req'[r].pc = "examine" /\ k = Resolve(req[r].key)
               \/ /\ req[r].pc = "examine" /\ req'[r].pc = "copy" /\ req[r].load.pc # "failed"
               \/ req[r].pc = "load" /\ req'[r].pc = "look"
            /\ req[r].load.pc \in {"none", "failed"}
            /\ \/ state[k].loaded /\ req'[r].load.pc = "none"
               \/ req'[r].load.pc \in {"wait", "read"} /\ req'[r].load.key = k
      BY <1>5, LoadHeadFacts, ZenonT(40)
    <2>2. req[r].pc = "migrate" => k = req[r].key /\ k \in EpochKeys
      BY <2>1, KeyFacts, ResolveFacts DEF Begun, TypeOK
    <2>3. KnownOf(r)'
      BY <1>0, <2>1, <2>2 DEF KnownOf, KnownInv, KnownEntries
    <2>4. QED
      BY <1>1, <2>1, <2>3
  <1>6. CASE QuietStep(r)
    <2>1. /\ Only(r) /\ state' = state /\ known' = known /\ failures' = failures
          /\ req[r].pc \in Numbered \cup {"examine", "copy"}
          /\ req'[r].key = req[r].key
          /\ req'[r].load.pc \in {"none", "failed"}
          /\ req'[r].pc \in {"alias", "take", "load", "upstream", "update", "done"}
          /\ req'[r].pc = "take" => state[Key(r)].base # NoBase \/ state[Key(r)].loaded
          /\ req'[r].result = "empty" => req[r].result = "empty" \/ req[r].pc = "take"
      BY <1>6, QuietFacts
    <2>2. Key(r) = req[r].key /\ req[r].key \in EpochKeys
      BY <2>1, KeyFacts, ResolveFacts DEF Begun, TypeOK, Key, Numbered
    <2>3. KnownOf(r)'
      BY <1>0, <2>1, <2>2 DEF KnownOf, KnownInv, KnownEntries
    <2>4. QED
      BY <1>1, <2>1, <2>3
  <1>7. CASE SetCurrentAlias(r)
    <2>1. /\ Only(r) /\ (\A k \in EpochKeys : state'[k] = state[k])
          /\ known' = known /\ failures' = failures
          /\ req'[r].pc \in {"count", "unsafe"} /\ req'[r].key = req[r].key
          /\ req'[r].load = req[r].load /\ req'[r].result = req[r].result
      BY <1>7, SetCurrentAliasFacts
    <2>2. KnownOf(r)'
      BY <1>0, <2>1 DEF KnownOf
    <2>3. QED
      BY <1>1, <2>1, <2>2
  <1>8. QED
    BY <1>2, <1>3, <1>4, <1>5, <1>6, <1>7

\* A read that succeeds makes its key known before anybody hears of it.
LEMMA KnownLoad ==
  ASSUME TypeOK, Begun, KnownInv, NEW r \in Requests, ReadRow(r) \/ PublishRow(r)
  PROVE  KnownInv'
  <1>0. KnownEntries /\ \A q \in Requests : KnownOf(q)
    BY DEF KnownInv
  <1>1. CASE ReadRow(r)
    <2>1. /\ Only(r) /\ Kept(r) /\ req[r].load.pc = "read"
          /\ req'[r].load.pc = "publish" /\ req'[r].load.key = req[r].load.key
          /\ IF req'[r].load.row = Unread THEN known' = known
                                          ELSE known' = known \cup {req[r].load.key}
          /\ state' = state /\ failures' = failures
      BY <1>1, ReadRowFacts DEF ReadRow
    <2>2. KnownOf(r)'
      BY <1>0, <2>1 DEF KnownOf, Kept
    <2>3. KnownEntries'
      BY <1>0, <2>1 DEF KnownEntries
    <2>4. QED
      BY <2>1, <2>2, <2>3, KnownFrame
  <1>2. CASE PublishRow(r)
    <2>1. PICK j \in Keys, load \in Loads : j = req[r].load.key /\ load = req[r].load
      BY HandlerFacts
    <2>2. /\ load.pc = "publish" /\ (\A q \in Requests : Kept(q))
          /\ req'[r].load.pc \in {"none", "failed"}
          /\ req'[r].load.pc = "none" => load.row # Unread
          /\ \A q \in Requests \ {r} :
               \/ req'[q].load = req[q].load
               \/ /\ req'[q].load.pc = "woken" /\ req[q].load.pc = "wait"
                  /\ req'[q].load.key = req[q].load.key /\ req[q].load.key = j
          /\ state' = AfterLoad(j, load)
          /\ failures' = IF load.row = Unread THEN failures \cup {j} ELSE failures \ {j}
          /\ known' = known
      BY <1>2, <2>1, PublishRowFacts
    <2>3. load.row # Unread => j \in known
      BY <1>0, <2>1, <2>2 DEF KnownOf
    <2>4. KnownEntries'
      <3> SUFFICES ASSUME NEW k \in EpochKeys PROVE (state[k].loaded \/ state[k].base # NoBase => k \in known)'
        BY DEF KnownEntries
      <3>1. /\ j # k => AfterLoad(j, load)[k] = state[k]
            /\ j = k /\ load.row = Unread => AfterLoad(j, load)[k] = state[k]
        BY LoadedFacts
      <3>2. QED
        BY <1>0, <2>2, <2>3, <3>1 DEF KnownEntries
    <2>5. KnownOf(r)'
      BY <1>0, <2>1, <2>2, <2>3 DEF KnownOf, Kept
    <2>6. ASSUME NEW q \in Requests, q # r PROVE KnownOf(q)'
      <3>1. CASE req'[q].load = req[q].load
        BY <1>0, <2>2, <2>3, <2>6, <3>1 DEF KnownOf, Kept
      <3>2. CASE /\ req'[q].load.pc = "woken" /\ req[q].load.pc = "wait"
                 /\ req'[q].load.key = req[q].load.key /\ req[q].load.key = j
        BY <1>0, <2>2, <2>3, <2>6, <3>2 DEF KnownOf, Kept
      <3>3. QED
        BY <2>2, <2>6, <3>1, <3>2
    <2>7. QED
      BY <2>4, <2>5, <2>6 DEF KnownInv
  <1>3. QED
    BY <1>1, <1>2

\* An entry is set by an answer, a reset or a migration from a known key.
LEMMA KnownUpdate ==
  ASSUME TypeOK, Begun, KnownInv, NEW r \in Requests,
         Migrate(r) \/ BeginPressureRequest(r) \/ IncrementRequestSeq(r) \/ UpdateStep(r)
  PROVE  KnownInv'
  <1>0. KnownEntries /\ KnownOf(r)
    BY DEF KnownInv
  <1>1. PICK k \in EpochKeys : k = req[r].key /\ k = Key(r)
    <2>1. req[r].pc \in {"copy", "count", "unsafe", "begin", "reset", "update"}
      BY MigrateFacts, NumberFacts, UpdateFacts
    <2>2. req[r].key \in EpochKeys
      BY <2>1 DEF Begun
    <2>3. QED
      BY <2>2, KeyFacts, ResolveFacts DEF Key, TypeOK
  <1>2. /\ Only(r) /\ req'[r].key = k /\ known \subseteq known' /\ failures' = failures
        /\ \A j \in EpochKeys : j # k => state'[j] = state[j]
        /\ \/ k \in known'
           \/ state'[k].loaded = state[k].loaded /\ state'[k].base = state[k].base
        /\ req'[r].result = req[r].result \/ req'[r].result = "none"
        /\ req'[r].load.pc \in {"none", "failed"}
        /\ req'[r].pc \notin {"examine", "copy", "take"}
    <2>1. CASE Migrate(r)
      <3>1. /\ Only(r) /\ req'[r].key = req[r].key /\ failures' = failures
            /\ \A j \in EpochKeys : j # req[r].key => state'[j] = state[j]
            /\ known' = known \/ known' = known \cup {req[r].key}
            /\ req[r].pc = "copy" /\ req'[r].pc = "alias"
            /\ req'[r].load = NoLoad /\ req'[r].result = req[r].result
        BY <2>1, MigrateFacts
      <3>2. k \in known
        BY <1>0, <1>1, <3>1 DEF KnownOf
      <3>3. QED
        BY <1>1, <3>1, <3>2, RecordFacts
    <2>2. CASE BeginPressureRequest(r) \/ IncrementRequestSeq(r)
      <3>1. /\ Only(r) /\ req'[r].key = k /\ known' = known /\ failures' = failures
            /\ \A j \in EpochKeys : j # k => state'[j] = state[j]
            /\ state'[k].base = state[k].base /\ state'[k].loaded = state[k].loaded
            /\ req'[r].result = req[r].result
            /\ req'[r].load.pc \in {"none", "failed"}
            /\ req'[r].pc \in {"begin", "reset", "look", "upstream"}
        BY <1>1, <2>2, NumberFacts
      <3>2. QED
        BY <3>1
    <2>3. CASE UpdateStep(r)
      <3>1. /\ Only(r) /\ req'[r].key = req[r].key /\ failures' = failures
            /\ \/ /\ \A j \in EpochKeys : j # Key(r) => state'[j] = state[j]
                  /\ known' = known \cup {Key(r)}
               \/ UNCHANGED <<state, known>>
            /\ req'[r].result = req[r].result \/ req'[r].result = "none"
            /\ req'[r].pc \in {"count", "done"} /\ req'[r].load.pc \in {"none", "failed"}
        BY <2>3, UpdateFacts, Zenon
      <3>2. QED
        BY <1>1, <3>1
    <2>4. QED
      BY <2>1, <2>2, <2>3
  <1>3. KnownOf(r)'
    BY <1>0, <1>1, <1>2 DEF KnownOf
  <1>4. KnownEntries'
    BY <1>0, <1>2 DEF KnownEntries
  <1>5. QED
    BY <1>2, <1>3, <1>4, KnownFrame

\* Every step keeps it.
LEMMA KnownStep == TypeOK /\ Begun /\ KnownInv /\ [Next]_vars => KnownInv'
  <1> SUFFICES ASSUME TypeOK, Begun, KnownInv, [Next]_vars PROVE KnownInv'
    OBVIOUS
  <1>1. ASSUME NEW k \in Keys, WriteRow(k) PROVE KnownInv'
    <2>1. req' = req /\ UNCHANGED <<state, failures, known>>
      BY <1>1, WriteRowFacts
    <2>2. QED
      BY <2>1 DEF KnownInv, KnownEntries, KnownOf
  <1>2. CASE Crash
    <2>1. /\ \A r \in Requests :
               /\ req'[r].pc \in {"idle", "done"} /\ req'[r].load.pc = "none"
               /\ req'[r].result = "none"
          /\ state' = [k \in Keys |-> Absent]
      BY <1>2, CrashFacts, RecordFacts
    <2>2. \A k \in EpochKeys : state'[k].loaded = FALSE /\ state'[k].base = NoBase
      BY <2>1, KeyFacts DEF Absent
    <2>3. QED
      BY <2>1, <2>2 DEF KnownInv, KnownEntries, KnownOf
  <1>3. CASE UNCHANGED vars
    BY <1>3 DEF KnownInv, KnownEntries, KnownOf, vars, ghosts
  <1>4. QED
    BY <1>1, <1>2, <1>3, StepCases, KnownMove, KnownLoad, KnownUpdate

\* A request that goes on as if its key never had an answer has read the row, or its
\* process has set the key: for any number of requests that share loads, of which some
\* fail (PressureBaselineWithLoadResult, MigrateLegacyState).
THEOREM EmptyIsKnownCorrect == Spec => []EmptyIsKnown
  <1>1. Init => KnownInv
    <2>1. \A k \in EpochKeys : Init => state[k].loaded = FALSE /\ state[k].base = NoBase
      BY KeyFacts DEF Init, Absent
    <2>2. QED
      BY <2>1 DEF Init, KnownInv, KnownEntries, KnownOf, Fresh, NoLoad
  <1>2. KnownInv => EmptyIsKnown
    BY DEF KnownInv, KnownOf, EmptyIsKnown
  <1>3. QED
    BY <1>1, <1>2, KnownStep, TypeInvariant, PTL DEF Spec
=============================================================================
