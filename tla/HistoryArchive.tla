--------------------------- MODULE HistoryArchive ---------------------------
(***************************************************************************)
(* The branches of one session and the archive blocks that may be shown on *)
(* them: the epoch manager (history_epoch.go), the archive table with its  *)
(* visibility gate (store.go), and the requests of the session between the *)
(* two (proxy.go).                                                         *)
(*                                                                         *)
(* A client replays its whole history in every request.  Begin compares it *)
(* with the last one: a continuation stays in the epoch, anything else     *)
(* opens a new epoch and hides the blocks that reach beyond the common     *)
(* prefix.  A request that collapses its history stores the text first and *)
(* then puts a recovery marker, the identifier of the row, in its place.   *)
(*                                                                         *)
(* A step is one Begin (under the session's lock) or one transaction.  A   *)
(* message is what the input fingerprint tells apart; the reuse            *)
(* fingerprint, which decides no epoch, and the digests of mismatches that *)
(* were logged are left out.                                               *)
(***************************************************************************)
EXTENDS Naturals, Sequences

CONSTANTS
  Requests,   \* request handlers of the session
  Messages,
  Histories,  \* the histories a client may send, possibly Invalid among them
  Invalid,    \* a history that cannot be put in canonical form
  BlockIDs,   \* the identifiers the process may draw
  MaxEpoch    \* bound on the number of branches

ASSUME HistoryAssumption ==
  /\ Histories \subseteq Seq(Messages) \cup {Invalid}
  /\ Invalid \notin Seq(Messages)
  /\ MaxEpoch \in Nat

VARIABLES
  session,    \* historyEpochSession: what the process knows of the session
  row,        \* the history row of the state table; epoch 0 if there is none
  blocks,     \* the archive table
  handler,    \* [Requests -> pc, epoch, history]
  markers,    \* the recovery markers that were put in place of text
  forgotten   \* history: a process ended whose last history never reached the row

vars == <<session, row, blocks, handler, markers, forgotten>>

Known == [epoch: Nat, history: Histories \cup {<<>>}]
NoState == [epoch |-> 0, history |-> <<>>]

\* The first n messages of h.
Text(h, n) == [i \in 1..n |-> h[i]]
Resting == [pc |-> "idle", epoch |-> 0, history |-> <<>>]

TypeOK ==
  /\ session \in [loaded: BOOLEAN, state: Known]
  /\ row \in Known
  /\ blocks \subseteq [id: BlockIDs, text: Seq(Messages), epoch: Nat, isolated: BOOLEAN]
  /\ \A b, c \in blocks : b.id = c.id \/ b.text = c.text => b = c
  /\ handler \in [Requests -> [pc: {"idle", "ready", "raw"}, epoch: Nat,
                               history: Histories \cup {<<>>}]]
  /\ markers \subseteq [id: BlockIDs, text: Seq(Messages), epoch: Nat]
  /\ forgotten \in BOOLEAN

Init ==
  /\ session = [loaded |-> FALSE, state |-> NoState]
  /\ row = NoState
  /\ blocks = {}
  /\ handler = [r \in Requests |-> Resting]
  /\ markers = {}
  /\ forgotten = FALSE

-----------------------------------------------------------------------------
(* The epoch manager                                                       *)

\* Both histories begin with the same k messages, and the k-th is the last such.
Agree(old, new, k) ==
  k <= Len(old) /\ k <= Len(new) /\ \A i \in 1..k : old[i] = new[i]
IsCommonPrefix(old, new, k) ==
  Agree(old, new, k) /\ (k < Len(old) /\ k < Len(new) => old[k + 1] # new[k + 1])

\* Mutated form: a history that was cut short counts as a continuation.
ContinuousUpToEnd(old, new) ==
  \/ Agree(old, new, Len(old))
  \/ Agree(old, new, Len(new))

Continuous(old, new) == Agree(old, new, Len(old))

\* What Begin compares with, once loadSessionLocked has succeeded.
Previous == IF session.loaded THEN session.state ELSE row

\* A history that cannot be proved shares nothing with any other.
CommonPrefixes(old, new) ==
  IF old = Invalid \/ new = Invalid THEN {0}
  ELSE {k \in 0..Len(old) : IsCommonPrefix(old, new, k)}

Publish(r, state) ==
  /\ session' = [loaded |-> TRUE, state |-> state]
  /\ handler' = [handler EXCEPT ![r] = [pc |-> "ready", epoch |-> state.epoch,
                                        history |-> state.history]]

\* Best effort: the error is reported to the health tracker only.
PersistSession(state) == row' = state \/ UNCHANGED row

\* The row cannot be read: no epoch is published, and the request is forwarded
\* as it came.
BeginUnread(r) ==
  /\ handler[r].pc = "idle"
  /\ ~session.loaded
  /\ handler' = [handler EXCEPT ![r].pc = "raw"]
  /\ UNCHANGED <<session, row, blocks, markers, forgotten>>

BeginInitial(r, h) ==
  LET next == [epoch |-> 1, history |-> h] IN
  /\ handler[r].pc = "idle"
  /\ Previous.epoch = 0
  /\ Publish(r, next)
  /\ PersistSession(next)
  /\ UNCHANGED <<blocks, markers, forgotten>>

BeginContinued(r, h) ==
  LET next == [epoch |-> Previous.epoch, history |-> h] IN
  /\ handler[r].pc = "idle"
  /\ Previous.epoch # 0
  /\ Previous.history # Invalid /\ h # Invalid
  /\ Continuous(Previous.history, h)
  /\ Publish(r, next)
  /\ PersistSession(next)
  /\ UNCHANGED <<blocks, markers, forgotten>>

\* Mutated form: a block that ends with the first message that differs stays.
IsolatedShort(k) ==
  {[b EXCEPT !.isolated = @ \/ Len(b.text) > k + 1] : b \in blocks}

\* UPDATE archive_blocks SET isolated = 1 WHERE block_range_end >= k.
Isolated(k) == {[b EXCEPT !.isolated = @ \/ Len(b.text) > k] : b \in blocks}

Diverged(h) ==
  /\ Previous.epoch # 0
  /\ ~(/\ Previous.history # Invalid /\ h # Invalid
       /\ Continuous(Previous.history, h))

\* Row and visibility change in one transaction.
BeginDiverged(r, h) ==
  LET next == [epoch |-> Previous.epoch + 1, history |-> h] IN
  /\ handler[r].pc = "idle"
  /\ Diverged(h)
  /\ next.epoch <= MaxEpoch
  /\ \E k \in CommonPrefixes(Previous.history, h) : blocks' = Isolated(k)
  /\ row' = next
  /\ Publish(r, next)
  /\ UNCHANGED <<markers, forgotten>>

\* The transaction fails: the old branch stays, the request is forwarded as it
\* came.
TransitionFails(r, h) ==
  /\ handler[r].pc = "idle"
  /\ Diverged(h)
  /\ session' = [loaded |-> TRUE, state |-> Previous]
  /\ handler' = [handler EXCEPT ![r].pc = "raw"]
  /\ UNCHANGED <<row, blocks, markers, forgotten>>

Begin(r) ==
  \/ BeginUnread(r)
  \/ \E h \in Histories :
       BeginInitial(r, h) \/ BeginContinued(r, h) \/ BeginDiverged(r, h) \/ TransitionFails(r, h)

-----------------------------------------------------------------------------
(* The archive                                                             *)

CurrentEpoch == IF row.epoch = 0 THEN 1 ELSE row.epoch

\* Mutated form: the newest block is the water mark.
NotLateByBlocks(epoch) == \A b \in blocks : b.epoch <= epoch

NotLate(epoch) == CurrentEpoch <= epoch

\* Mutated form: the identifier that was drawn is returned although the row of
\* an earlier request was kept.
CanonicalIsDrawn(id, text) == id \notin {b.id : b \in blocks}

\* The row that already holds the text, or a new one.
Canonical(id, text) ==
  IF \E b \in blocks : b.text = text
  THEN \E b \in blocks : b.text = text /\ b.id = id
  ELSE id \notin {b.id : b \in blocks}

\* The first n messages of the request become a block, and a marker stands for
\* them in what is sent and in what later requests of the epoch reuse.
CommitArchive(r) ==
  /\ handler[r].pc = "ready"
  /\ handler[r].history # Invalid
  /\ NotLate(handler[r].epoch)
  /\ \E n \in 1..Len(handler[r].history), id \in BlockIDs :
       LET text == Text(handler[r].history, n)
           drawn == [id |-> id, text |-> text, epoch |-> handler[r].epoch, isolated |-> FALSE]
       IN
       /\ Canonical(id, text)
       /\ blocks' = IF \E b \in blocks : b.text = text THEN blocks ELSE blocks \cup {drawn}
       /\ markers' = markers \cup {[id |-> id, text |-> text, epoch |-> handler[r].epoch]}
  /\ UNCHANGED <<session, row, handler, forgotten>>

\* A late or failed commit: nothing is replaced.
CommitFails(r) ==
  /\ handler[r].pc = "ready"
  /\ handler' = [handler EXCEPT ![r].pc = "raw"]
  /\ UNCHANGED <<session, row, blocks, markers, forgotten>>

Finish(r) ==
  /\ handler[r].pc \in {"ready", "raw"}
  /\ handler' = [handler EXCEPT ![r] = Resting]
  /\ UNCHANGED <<session, row, blocks, markers, forgotten>>

\* The process ends and a new one opens the database.
Restart ==
  /\ session' = [loaded |-> FALSE, state |-> NoState]
  /\ handler' = [r \in Requests |-> Resting]
  /\ forgotten' = (forgotten \/ (session.loaded /\ session.state # row))
  /\ UNCHANGED <<row, blocks, markers>>

\* As before, but the database file is found corrupt and is removed.
RestartEmpty ==
  /\ session' = [loaded |-> FALSE, state |-> NoState]
  /\ handler' = [r \in Requests |-> Resting]
  /\ row' = NoState
  /\ blocks' = {}
  /\ markers' = {}
  /\ forgotten' = FALSE

Next ==
  \/ \E r \in Requests :
       Begin(r) \/ CommitArchive(r) \/ CommitFails(r) \/ Finish(r)
  \/ Restart
  \/ RestartEmpty

Spec == Init /\ [][Next]_vars
-----------------------------------------------------------------------------
(* Properties                                                              *)

OnBranch(text, h) == h # Invalid /\ Agree(text, h, Len(text))

\* The gate of SearchVisibleArchives and GetVisibleArchiveByID.
Visible(b) == ~b.isolated /\ b.epoch <= CurrentEpoch

\* What may be recalled is text of the branch the session is on: a block of a
\* branch the user has left is never shown, though requests of both branches
\* overlap, transitions and commits fail and the process restarts.
VisibleOnBranch ==
  \A b \in blocks :
    session.loaded /\ Visible(b) => OnBranch(b.text, session.state.history)

\* The same, as long as no process ended with a history that its best-effort
\* write of the row had failed to keep.
VisibleOnKnownBranch == ~forgotten => VisibleOnBranch

\* State that is derived under the current epoch's key (here the markers, which
\* the frozen prefix keeps) stands for text of the current branch, under the same
\* condition: no process ended with a history its row had not kept.
DerivedOnBranch ==
  \A m \in markers :
    ~forgotten /\ m.epoch = Previous.epoch => OnBranch(m.text, Previous.history)

\* A marker names a row that exists and holds the very text it replaced, also
\* when the commit found the text already stored.
MarkerNamesItsText ==
  \A m \in markers : \E b \in blocks : b.id = m.id /\ b.text = m.text

\* A marker of the current epoch can be resolved: collapsed history can be
\* restored.
MarkersResolve ==
  \A m \in markers :
    m.epoch = Previous.epoch => \E b \in blocks : b.id = m.id /\ Visible(b)

\* The second history is the first one or continues it.
IsExtended(old, new) ==
  old = new \/ (old # Invalid /\ new # Invalid /\ Agree(old, new, Len(old)))

\* What a restart may lose: the end of the current epoch's history, whose best-effort
\* write failed, or all of it in the first epoch, whose row may be missing; more only
\* if the database was removed.
LostByRestart ==
  /\ ~session'.loaded
  /\ \/ /\ Previous'.epoch = Previous.epoch
        /\ IsExtended(Previous'.history, Previous.history)
     \/ Previous' = NoState /\ (Previous.epoch = 1 \/ blocks' = {})

\* An epoch that was left is not entered again, and within an epoch the history is
\* only extended, across restarts and failed transitions too.  The one exception is
\* the restart that finds an older row: it falls back within the epoch, to an
\* earlier history of the same branch, and never to an epoch that was left.
EpochsAreBranches ==
  [][ \/ Previous' = Previous
      \/ Previous'.epoch > Previous.epoch
      \/ /\ Previous'.epoch = Previous.epoch
         /\ IsExtended(Previous.history, Previous'.history)
      \/ LostByRestart ]_vars
-----------------------------------------------------------------------------
(* Inductive parts of the proofs                                           *)

\* The process and the row are in the same epoch, except that the first epoch
\* may not have reached the row; what is not there is not there at all.
EpochInv ==
  /\ row.epoch = 0 => row = NoState
  /\ session.loaded =>
       \/ row.epoch = session.state.epoch /\ row.epoch # 0
       \/ row.epoch = 0 /\ session.state.epoch = 1

\* What the row keeps of the current epoch is a history it had.
RowInv ==
  session.loaded /\ row.epoch = session.state.epoch =>
    IsExtended(row.history, session.state.history)

\* A request that may still archive belongs to the running process, and the
\* history of its epoch has only been extended since.
HandlerInv ==
  \A r \in Requests : handler[r].pc = "ready" =>
    /\ session.loaded
    /\ handler[r].epoch \in 1..session.state.epoch
    /\ handler[r].epoch = session.state.epoch /\ handler[r].history # Invalid =>
         /\ session.state.history # Invalid
         /\ Agree(handler[r].history, session.state.history, Len(handler[r].history))

\* Visible or not yet, a block that is not isolated is on the branch.
BlockInv ==
  \A b \in blocks :
    /\ b.text # <<>>
    /\ ~forgotten /\ ~b.isolated => OnBranch(b.text, Previous.history)

MarkerInv ==
  ~forgotten => \A m \in markers :
    /\ m.epoch \in 1..Previous.epoch
    /\ m.epoch = Previous.epoch => OnBranch(m.text, Previous.history)

IInv == TypeOK /\ EpochInv /\ RowInv /\ HandlerInv /\ BlockInv /\ MarkerInv /\ MarkerNamesItsText
=============================================================================
