------------------------ MODULE HistoryArchiveProofs ------------------------
(***************************************************************************)
(* Proofs about HistoryArchive, for any number of requests, histories,     *)
(* blocks and branches.                                                    *)
(***************************************************************************)
EXTENDS HistoryArchive, TLAPS

\* The first n messages of a history are a sequence of n messages, those of it.
LEMMA TextIsPrefix ==
  ASSUME NEW h \in Seq(Messages), NEW n \in 1..Len(h)
  PROVE  /\ Text(h, n) \in Seq(Messages)
         /\ Len(Text(h, n)) = n
         /\ Text(h, n) # <<>>
         /\ \A i \in 1..n : Text(h, n)[i] = h[i]
  BY DEF Text

\* A text on a branch is on every branch that agrees with it that far.
LEMMA OnBranchExtends ==
  ASSUME NEW text \in Seq(Messages), NEW old \in Seq(Messages), NEW new \in Seq(Messages),
         NEW k \in Nat, Agree(old, new, k), Len(text) <= k,
         OnBranch(text, old)
  PROVE  OnBranch(text, new)
  BY HistoryAssumption DEF OnBranch, Agree

\* A prefix of a text that is on a branch is on it too.
LEMMA PrefixOnBranch ==
  ASSUME NEW h \in Seq(Messages), NEW branch \in Seq(Messages), NEW n \in 1..Len(h),
         Agree(h, branch, Len(h))
  PROVE  OnBranch(Text(h, n), branch)
  <1>1. Len(Text(h, n)) = n /\ \A i \in 1..n : Text(h, n)[i] = h[i]
    BY TextIsPrefix
  <1>2. branch # Invalid
    BY HistoryAssumption
  <1>3. n <= Len(branch) /\ \A i \in 1..n : h[i] = branch[i]
    BY DEF Agree
  <1> QED BY <1>1, <1>2, <1>3 DEF OnBranch, Agree

\* Agreement is transitive along the extensions of a history.
LEMMA AgreeExtends ==
  ASSUME NEW h \in Seq(Messages), NEW old \in Seq(Messages), NEW new \in Seq(Messages),
         Agree(h, old, Len(h)), Agree(old, new, Len(old))
  PROVE  Agree(h, new, Len(h))
  BY DEF Agree

\* The histories a type-correct state holds are sequences or Invalid.
LEMMA HistoryTypes ==
  ASSUME TypeOK
  PROVE  /\ Previous \in Known
         /\ session.state \in Known /\ row \in Known
         /\ \A h \in Histories \cup {<<>>} : h # Invalid => h \in Seq(Messages)
         /\ Invalid # <<>>
  <1>1. session.state \in Known /\ row \in Known
    BY DEF TypeOK
  <1>2. Previous \in Known
    BY <1>1 DEF Previous
  <1>3. <<>> \in Seq(Messages)
    OBVIOUS
  <1> QED BY <1>1, <1>2, <1>3, HistoryAssumption

-----------------------------------------------------------------------------
(* Type correctness                                                        *)

\* Isolation keeps the table's type and the uniqueness of its keys.
LEMMA IsolatedTypes ==
  ASSUME TypeOK, NEW k \in Nat
  PROVE  /\ Isolated(k) \subseteq [id: BlockIDs, text: Seq(Messages), epoch: Nat, isolated: BOOLEAN]
         /\ \A b, c \in Isolated(k) : b.id = c.id \/ b.text = c.text => b = c
         /\ \A c \in Isolated(k) : \E b \in blocks :
              /\ c.id = b.id /\ c.text = b.text /\ c.epoch = b.epoch
              /\ ~c.isolated => ~b.isolated /\ Len(b.text) <= k
         /\ \A b \in blocks : \E c \in Isolated(k) : c.id = b.id /\ c.text = b.text
  <1> DEFINE Hide(b) == [b EXCEPT !.isolated = @ \/ Len(b.text) > k]
             Block == [id: BlockIDs, text: Seq(Messages), epoch: Nat, isolated: BOOLEAN]
  <1>0. blocks \subseteq Block /\ \A b, c \in blocks : b.id = c.id \/ b.text = c.text => b = c
    BY DEF TypeOK
  <1>1. \A b \in blocks : /\ Hide(b) \in Block
                          /\ Hide(b).id = b.id /\ Hide(b).text = b.text
                          /\ Hide(b).epoch = b.epoch
                          /\ Hide(b).isolated = (b.isolated \/ Len(b.text) > k)
    BY <1>0
  <1>2. Isolated(k) = {Hide(b) : b \in blocks}
    BY DEF Isolated
  <1> HIDE DEF Hide
  <1>3. ASSUME NEW c \in Isolated(k)
        PROVE  \E b \in blocks : c = Hide(b)
    BY <1>2
  <1>4. \A b \in blocks : Len(b.text) \in Nat
    BY <1>0
  <1>5. ASSUME NEW c \in Isolated(k)
        PROVE  \E b \in blocks :
                 /\ c.id = b.id /\ c.text = b.text /\ c.epoch = b.epoch
                 /\ ~c.isolated => ~b.isolated /\ Len(b.text) <= k
    <2>1. PICK b \in blocks : c = Hide(b)
      BY <1>3
    <2>2. c.isolated = (b.isolated \/ Len(b.text) > k)
      BY <2>1, <1>1
    <2> QED BY <2>1, <2>2, <1>1, <1>4
  <1>6. \A b, c \in Isolated(k) : b.id = c.id \/ b.text = c.text => b = c
    BY <1>0, <1>1, <1>3
  <1> QED BY <1>1, <1>2, <1>5, <1>6

\* The first states are of their types.
LEMMA InitType == Init => TypeOK
  <1> SUFFICES ASSUME Init PROVE TypeOK
    OBVIOUS
  <1>1. NoState \in Known
    BY DEF NoState, Known
  <1>2. session \in [loaded: BOOLEAN, state: Known] /\ row \in Known
    BY <1>1 DEF Init
  <1>3. handler \in [Requests -> [pc: {"idle", "ready", "raw"}, epoch: Nat,
                                  history: Histories \cup {<<>>}]]
    BY DEF Init, Resting
  <1>4. blocks = {} /\ markers = {} /\ forgotten = FALSE
    BY DEF Init
  <1> QED BY <1>2, <1>3, <1>4 DEF TypeOK

\* Every step keeps the types and the keys of the archive table unique.
LEMMA NextType ==
  ASSUME TypeOK, [Next]_vars
  PROVE  TypeOK'
  <1> USE DEF Known, NoState, Resting
  <1>1. ASSUME NEW r \in Requests, BeginUnread(r) PROVE TypeOK'
    BY <1>1 DEF TypeOK, BeginUnread
  <1>2. ASSUME NEW r \in Requests, NEW h \in Histories, BeginInitial(r, h) PROVE TypeOK'
    BY <1>2 DEF TypeOK, BeginInitial, Publish, PersistSession
  <1>3. ASSUME NEW r \in Requests, NEW h \in Histories, BeginContinued(r, h) PROVE TypeOK'
    <2>1. Previous.epoch \in Nat
      BY HistoryTypes
    <2> QED BY <1>3, <2>1 DEF TypeOK, BeginContinued, Publish, PersistSession
  <1>4. ASSUME NEW r \in Requests, NEW h \in Histories, BeginDiverged(r, h) PROVE TypeOK'
    <2>1. Previous.epoch + 1 \in Nat
      BY HistoryTypes
    <2>2. PICK k \in Nat : blocks' = Isolated(k)
      <3>1. PICK k \in CommonPrefixes(Previous.history, h) : blocks' = Isolated(k)
        BY <1>4 DEF BeginDiverged
      <3>2. k \in Nat
        BY <3>1 DEF CommonPrefixes
      <3> QED BY <3>1, <3>2
    <2>3. /\ row' \in Known
          /\ session' \in [loaded: BOOLEAN, state: Known]
          /\ handler' \in [Requests -> [pc: {"idle", "ready", "raw"}, epoch: Nat,
                                        history: Histories \cup {<<>>}]]
      BY <1>4, <2>1 DEF TypeOK, BeginDiverged, Publish
    <2>4. UNCHANGED <<markers, forgotten>>
      BY <1>4 DEF BeginDiverged
    <2> QED BY <2>2, <2>3, <2>4, IsolatedTypes DEF TypeOK
  <1>5. ASSUME NEW r \in Requests, NEW h \in Histories, TransitionFails(r, h) PROVE TypeOK'
    BY <1>5, HistoryTypes DEF TypeOK, TransitionFails
  <1>6. ASSUME NEW r \in Requests, CommitArchive(r) PROVE TypeOK'
    <2>1. PICK n \in 1..Len(handler[r].history), id \in BlockIDs :
            /\ Canonical(id, Text(handler[r].history, n))
            /\ blocks' = IF \E b \in blocks : b.text = Text(handler[r].history, n) THEN blocks
                         ELSE blocks \cup {[id |-> id, text |-> Text(handler[r].history, n),
                                            epoch |-> handler[r].epoch, isolated |-> FALSE]}
            /\ markers' = markers \cup {[id |-> id, text |-> Text(handler[r].history, n),
                                         epoch |-> handler[r].epoch]}
      BY <1>6 DEF CommitArchive
    <2> DEFINE text == Text(handler[r].history, n)
    <2>2. handler[r].history \in Seq(Messages)
      BY <1>6, HistoryTypes DEF CommitArchive, TypeOK
    <2>3. text \in Seq(Messages) /\ handler[r].epoch \in Nat
      BY <2>2, TextIsPrefix DEF TypeOK
    <2> HIDE DEF text
    <2>4. markers' \subseteq [id: BlockIDs, text: Seq(Messages), epoch: Nat]
      BY <2>1, <2>3 DEF TypeOK, text
    <2>5. /\ blocks' \subseteq [id: BlockIDs, text: Seq(Messages), epoch: Nat, isolated: BOOLEAN]
          /\ \A b, c \in blocks' : b.id = c.id \/ b.text = c.text => b = c
      <3>1. CASE \E b \in blocks : b.text = text
        BY <2>1, <3>1 DEF TypeOK, text
      <3>2. CASE ~\E b \in blocks : b.text = text
        <4> DEFINE drawn == [id |-> id, text |-> text, epoch |-> handler[r].epoch,
                             isolated |-> FALSE]
        <4>1. blocks' = blocks \cup {drawn}
          BY <2>1, <3>2 DEF text
        <4>2. \A b \in blocks : b.id # id /\ b.text # text
          BY <2>1, <3>2 DEF Canonical, text
        <4>3. /\ drawn \in [id: BlockIDs, text: Seq(Messages), epoch: Nat, isolated: BOOLEAN]
              /\ drawn.id = id /\ drawn.text = text
          BY <2>3
        <4> HIDE DEF drawn
        <4> QED BY <4>1, <4>2, <4>3 DEF TypeOK
      <3> QED BY <3>1, <3>2
    <2> QED BY <1>6, <2>4, <2>5 DEF TypeOK, CommitArchive
  <1>7. ASSUME NEW r \in Requests, CommitFails(r) PROVE TypeOK'
    BY <1>7 DEF TypeOK, CommitFails
  <1>8. ASSUME NEW r \in Requests, Finish(r) PROVE TypeOK'
    BY <1>8 DEF TypeOK, Finish
  <1>9. CASE Restart
    BY <1>9 DEF TypeOK, Restart
  <1>10. CASE RestartEmpty
    BY <1>10 DEF TypeOK, RestartEmpty
  <1>11. CASE UNCHANGED vars
    BY <1>11 DEF TypeOK, vars
  <1> QED BY <1>1, <1>2, <1>3, <1>4, <1>5, <1>6, <1>7, <1>8, <1>9, <1>10, <1>11 DEF Next, Begin

\* Every variable keeps its type, and the archive table its primary key and the
\* uniqueness of its content identity.
THEOREM TypeCorrect == Spec => []TypeOK
  BY InitType, NextType, PTL DEF Spec
-----------------------------------------------------------------------------
(* The branch invariant                                                    *)

\* The first states satisfy the inductive invariant.
LEMMA InitInv == Init => IInv
  <1> SUFFICES ASSUME Init PROVE IInv
    OBVIOUS
  <1>1. TypeOK
    BY InitType
  <1>2. /\ row = NoState /\ session.loaded = FALSE /\ blocks = {} /\ markers = {}
        /\ \A r \in Requests : handler[r].pc = "idle"
    BY DEF Init, Resting
  <1> QED BY <1>1, <1>2 DEF IInv, EpochInv, RowInv, HandlerInv, BlockInv, MarkerInv, MarkerNamesItsText

\* An epoch that is left or lost has no ready request: what the other requests
\* may do depends on the session alone.
LEMMA FromRow ==
  ASSUME IInv, ~session.loaded
  PROVE  \A r \in Requests : handler[r].pc # "ready"
  BY DEF IInv, HandlerInv

\* The first request of a session.
LEMMA InitialInv ==
  ASSUME IInv, TypeOK', NEW r \in Requests, NEW h \in Histories, BeginInitial(r, h)
  PROVE  IInv'
  <1>1. ~session.loaded /\ row = NoState /\ Previous = NoState
    <2>1. Previous.epoch = 0
      BY DEF BeginInitial
    <2>2. ~session.loaded
      BY <2>1 DEF IInv, EpochInv, Previous
    <2> QED BY <2>1, <2>2 DEF IInv, EpochInv, Previous
  <1>2. /\ session'.loaded = TRUE /\ session'.state = [epoch |-> 1, history |-> h]
        /\ handler' = [handler EXCEPT ![r] = [pc |-> "ready", epoch |-> 1, history |-> h]]
        /\ row' = [epoch |-> 1, history |-> h] \/ row' = row
        /\ UNCHANGED <<blocks, markers, forgotten>>
    BY DEF BeginInitial, Publish, PersistSession
  <1>3. Previous' = [epoch |-> 1, history |-> h]
    BY <1>2 DEF Previous
  <1>4. EpochInv' /\ RowInv'
    BY <1>1, <1>2 DEF EpochInv, RowInv, IsExtended, NoState
  <1>5. HandlerInv'
    <2> SUFFICES ASSUME NEW q \in Requests, handler'[q].pc = "ready"
                 PROVE  /\ session'.loaded
                        /\ handler'[q].epoch \in 1..session'.state.epoch
                        /\ handler'[q].history # Invalid =>
                             /\ session'.state.history # Invalid
                             /\ Agree(handler'[q].history, session'.state.history,
                                      Len(handler'[q].history))
      BY DEF HandlerInv
    <2>1. q = r
      BY <1>1, <1>2, FromRow DEF IInv, TypeOK
    <2>2. handler'[q] = [pc |-> "ready", epoch |-> 1, history |-> h]
      BY <1>2, <2>1 DEF IInv, TypeOK
    <2>3. h # Invalid => h \in Seq(Messages)
      BY HistoryAssumption
    <2> QED BY <1>2, <2>2, <2>3 DEF Agree
  <1>6. BlockInv'
    <2> SUFFICES ASSUME NEW b \in blocks
                 PROVE  b.text # <<>> /\ (~forgotten => b.isolated)
      BY <1>2 DEF BlockInv
    <2>1. b.text # <<>> /\ b.text \in Seq(Messages)
      BY DEF IInv, TypeOK, BlockInv
    <2>2. ~OnBranch(b.text, <<>>)
      BY <2>1 DEF OnBranch, Agree
    <2> QED BY <1>1, <2>1, <2>2 DEF IInv, BlockInv, NoState
  <1>7. MarkerInv'
    BY <1>1, <1>2, <1>3 DEF IInv, MarkerInv, NoState
  <1> QED BY <1>2, <1>4, <1>5, <1>6, <1>7 DEF IInv, MarkerNamesItsText

\* A continuation of the branch.
LEMMA ContinuedInv ==
  ASSUME IInv, TypeOK', NEW r \in Requests, NEW h \in Histories, BeginContinued(r, h)
  PROVE  IInv'
  <1> DEFINE old == Previous.history
             e == Previous.epoch
  <1>1. /\ e # 0 /\ old # Invalid /\ h # Invalid
        /\ Agree(old, h, Len(old))
        /\ session'.loaded = TRUE /\ session'.state = [epoch |-> e, history |-> h]
        /\ handler' = [handler EXCEPT ![r] = [pc |-> "ready", epoch |-> e, history |-> h]]
        /\ row' = [epoch |-> e, history |-> h] \/ row' = row
        /\ UNCHANGED <<blocks, markers, forgotten>>
    BY DEF BeginContinued, Publish, PersistSession, Continuous
  <1>2. Previous' = [epoch |-> e, history |-> h]
    BY <1>1 DEF Previous
  <1>3. e \in Nat /\ old \in Seq(Messages) /\ h \in Seq(Messages)
    <2>1. TypeOK
      BY DEF IInv
    <2>2. Previous \in Known
      BY <2>1, HistoryTypes
    <2> QED BY <1>1, <2>1, <2>2, HistoryTypes DEF Known
  <1> HIDE DEF old, e
  <1>4. EpochInv'
    <2>1. session.loaded => e = session.state.epoch
      BY DEF e, Previous
    <2>2. ~session.loaded => e = row.epoch
      BY DEF e, Previous
    <2> QED BY <1>1, <1>3, <2>1, <2>2 DEF IInv, EpochInv, NoState
  <1>5. HandlerInv'
    <2> SUFFICES ASSUME NEW q \in Requests, handler'[q].pc = "ready"
                 PROVE  /\ session'.loaded
                        /\ handler'[q].epoch \in 1..e
                        /\ handler'[q].epoch = e /\ handler'[q].history # Invalid =>
                             /\ h # Invalid
                             /\ Agree(handler'[q].history, h, Len(handler'[q].history))
      BY <1>1 DEF HandlerInv
    <2>1. CASE q = r
      <3>1. handler'[q] = [pc |-> "ready", epoch |-> e, history |-> h]
        BY <1>1, <2>1 DEF IInv, TypeOK
      <3> QED BY <1>1, <1>3, <3>1 DEF Agree
    <2>2. CASE q # r
      <3>1. handler'[q] = handler[q] /\ session.loaded
        BY <1>1, <2>2, FromRow DEF IInv, TypeOK
      <3>2. e = session.state.epoch /\ old = session.state.history
        BY <3>1 DEF e, old, Previous
      <3>3. handler[q].history # Invalid => handler[q].history \in Seq(Messages)
        BY HistoryTypes DEF IInv, TypeOK
      <3>4. /\ handler[q].epoch \in 1..e
            /\ handler[q].epoch = e /\ handler[q].history # Invalid =>
                 Agree(handler[q].history, old, Len(handler[q].history))
        BY <3>1, <3>2 DEF IInv, HandlerInv
      <3> QED BY <1>1, <1>3, <3>1, <3>3, <3>4, AgreeExtends
    <2> QED BY <2>1, <2>2
  <1>6. \A text \in Seq(Messages) : OnBranch(text, old) => OnBranch(text, h)
    <2> SUFFICES ASSUME NEW text \in Seq(Messages), OnBranch(text, old)
                 PROVE  OnBranch(text, h)
      OBVIOUS
    <2>1. Len(old) \in Nat /\ Len(text) <= Len(old)
      BY <1>3 DEF OnBranch, Agree
    <2> QED BY <1>1, <1>3, <2>1, OnBranchExtends
  <1>7. BlockInv'
    BY <1>1, <1>2, <1>6 DEF IInv, TypeOK, BlockInv, old
  <1>8. MarkerInv'
    BY <1>1, <1>2, <1>6 DEF IInv, TypeOK, MarkerInv, old, e
  <1>9. RowInv'
    <2> SUFFICES ASSUME row' = row, row.epoch = e
                 PROVE  IsExtended(row.history, h)
      BY <1>1 DEF RowInv, IsExtended
    <2>1. IsExtended(row.history, old)
      BY DEF e, old, Previous, IInv, RowInv, IsExtended
    <2>2. row.history # Invalid => row.history \in Seq(Messages)
      BY HistoryTypes DEF IInv, Known
    <2> QED BY <1>1, <1>3, <2>1, <2>2, AgreeExtends DEF IsExtended
  <1> QED BY <1>1, <1>4, <1>5, <1>7, <1>8, <1>9 DEF IInv, MarkerNamesItsText

\* A change of branch.
LEMMA DivergedInv ==
  ASSUME IInv, TypeOK', NEW r \in Requests, NEW h \in Histories, BeginDiverged(r, h)
  PROVE  IInv'
  <1> DEFINE old == Previous.history
             e == Previous.epoch
  <1>1. /\ e # 0
        /\ session'.loaded = TRUE /\ session'.state = [epoch |-> e + 1, history |-> h]
        /\ handler' = [handler EXCEPT ![r] = [pc |-> "ready", epoch |-> e + 1, history |-> h]]
        /\ row' = [epoch |-> e + 1, history |-> h]
        /\ UNCHANGED <<markers, forgotten>>
    BY DEF BeginDiverged, Diverged, Publish
  <1>2. PICK k \in CommonPrefixes(old, h) : blocks' = Isolated(k)
    BY DEF BeginDiverged
  <1>3. Previous' = [epoch |-> e + 1, history |-> h]
    BY <1>1 DEF Previous
  <1>4. TypeOK
    BY DEF IInv
  <1>5. /\ e \in Nat /\ k \in Nat
        /\ old # Invalid => old \in Seq(Messages)
        /\ h # Invalid => h \in Seq(Messages)
    <2>1. Previous \in Known
      BY <1>4, HistoryTypes
    <2> QED BY <1>2, <1>4, <2>1, HistoryTypes DEF Known, CommonPrefixes
  <1> HIDE DEF old, e
  <1>6. EpochInv' /\ RowInv'
    BY <1>1, <1>5 DEF EpochInv, RowInv, IsExtended, NoState
  <1>7. HandlerInv'
    <2> SUFFICES ASSUME NEW q \in Requests, handler'[q].pc = "ready"
                 PROVE  /\ handler'[q].epoch \in 1..(e + 1)
                        /\ handler'[q].epoch = e + 1 /\ handler'[q].history # Invalid =>
                             /\ h # Invalid
                             /\ Agree(handler'[q].history, h, Len(handler'[q].history))
      BY <1>1 DEF HandlerInv
    <2>1. CASE q = r
      <3>1. handler'[q] = [pc |-> "ready", epoch |-> e + 1, history |-> h]
        BY <1>1, <1>4, <2>1 DEF TypeOK
      <3> QED BY <1>1, <1>5, <3>1 DEF Agree
    <2>2. CASE q # r
      <3>1. handler'[q] = handler[q] /\ session.loaded
        BY <1>1, <1>4, <2>2, FromRow DEF TypeOK
      <3>2. handler[q].epoch \in 1..e
        BY <3>1 DEF IInv, HandlerInv, e, Previous
      <3> QED BY <1>5, <3>1, <3>2
    <2> QED BY <2>1, <2>2
  <1>8. BlockInv'
    <2> SUFFICES ASSUME NEW c \in Isolated(k)
                 PROVE  c.text # <<>> /\ (~forgotten /\ ~c.isolated => OnBranch(c.text, h))
      BY <1>1, <1>2, <1>3 DEF BlockInv
    <2>1. PICK b \in blocks : /\ c.text = b.text
                              /\ ~c.isolated => ~b.isolated /\ Len(b.text) <= k
      BY <1>4, <1>5, IsolatedTypes
    <2>2. b.text # <<>> /\ b.text \in Seq(Messages)
      BY <1>4 DEF IInv, BlockInv, TypeOK
    <2>3. ASSUME ~forgotten, ~c.isolated PROVE OnBranch(c.text, h)
      <3>1. OnBranch(b.text, old)
        BY <2>1, <2>3 DEF IInv, BlockInv, old
      <3>2. Len(b.text) <= k /\ Len(b.text) # 0
        BY <2>1, <2>2, <2>3
      <3>3. old # Invalid /\ h # Invalid
        BY <1>2, <1>5, <2>2, <3>2 DEF CommonPrefixes
      <3>4. Agree(old, h, k)
        BY <1>2, <3>3 DEF CommonPrefixes, IsCommonPrefix
      <3> QED BY <1>5, <2>1, <2>2, <3>1, <3>2, <3>3, <3>4, OnBranchExtends
    <2> QED BY <2>1, <2>2, <2>3
  <1>9. MarkerInv'
    <2>1. ~forgotten => \A m \in markers : m.epoch \in 1..e
      BY DEF IInv, MarkerInv, e
    <2> QED BY <1>1, <1>3, <1>5, <2>1 DEF MarkerInv
  <1>10. MarkerNamesItsText'
    <2>1. \A b \in blocks : \E c \in blocks' : c.id = b.id /\ c.text = b.text
      BY <1>2, <1>4, <1>5, IsolatedTypes
    <2> QED BY <1>1, <2>1 DEF IInv, MarkerNamesItsText
  <1> QED BY <1>6, <1>7, <1>8, <1>9, <1>10 DEF IInv

\* A request that leaves, and one that is forwarded as it came, touch nothing
\* the invariant is about.
LEMMA LeaveInv ==
  ASSUME IInv, TypeOK', NEW r \in Requests,
         BeginUnread(r) \/ CommitFails(r) \/ Finish(r)
  PROVE  IInv'
  <1>1. /\ UNCHANGED <<session, row, blocks, markers, forgotten>>
        /\ \A q \in Requests : handler'[q].pc = "ready" => handler'[q] = handler[q]
    BY DEF BeginUnread, CommitFails, Finish, IInv, TypeOK, Resting
  <1>2. UNCHANGED Previous
    BY <1>1 DEF Previous
  <1> QED
    BY <1>1, <1>2 DEF IInv, EpochInv, RowInv, HandlerInv, BlockInv, MarkerInv, MarkerNamesItsText

\* A transition that fails leaves the session with what it knew.
LEMMA TransitionFailsInv ==
  ASSUME IInv, TypeOK', NEW r \in Requests, NEW h \in Histories, TransitionFails(r, h)
  PROVE  IInv'
  <1>1. /\ UNCHANGED <<row, blocks, markers, forgotten>>
        /\ session' = [loaded |-> TRUE, state |-> Previous]
        /\ Previous.epoch # 0
        /\ \A q \in Requests : handler'[q].pc = "ready" => handler'[q] = handler[q]
    BY DEF TransitionFails, Diverged, IInv, TypeOK
  <1>2. UNCHANGED Previous
    BY <1>1 DEF Previous
  <1>3. EpochInv' /\ RowInv'
    BY <1>1 DEF IInv, EpochInv, RowInv, IsExtended, Previous
  <1>4. HandlerInv'
    <2> SUFFICES ASSUME NEW q \in Requests, handler'[q].pc = "ready"
                 PROVE  handler'[q] = handler[q] /\ session.loaded /\ session'.state = session.state
      BY <1>1 DEF IInv, HandlerInv
    <2> QED BY <1>1, FromRow DEF Previous
  <1> QED BY <1>1, <1>2, <1>3, <1>4 DEF IInv, BlockInv, MarkerInv, MarkerNamesItsText

\* A commit that is not late is of the current epoch, and so of the branch.
LEMMA CommitInv ==
  ASSUME IInv, TypeOK', NEW r \in Requests, CommitArchive(r)
  PROVE  IInv'
  <1>1. PICK n \in 1..Len(handler[r].history), id \in BlockIDs :
          /\ Canonical(id, Text(handler[r].history, n))
          /\ blocks' = IF \E b \in blocks : b.text = Text(handler[r].history, n) THEN blocks
                       ELSE blocks \cup {[id |-> id, text |-> Text(handler[r].history, n),
                                          epoch |-> handler[r].epoch, isolated |-> FALSE]}
          /\ markers' = markers \cup {[id |-> id, text |-> Text(handler[r].history, n),
                                       epoch |-> handler[r].epoch]}
    BY DEF CommitArchive
  <1> DEFINE text == Text(handler[r].history, n)
             e == handler[r].epoch
             marker == [id |-> id, text |-> text, epoch |-> e]
             drawn == [id |-> id, text |-> text, epoch |-> e, isolated |-> FALSE]
  <1>2. /\ UNCHANGED <<session, row, handler, forgotten>>
        /\ handler[r].history # Invalid
        /\ CurrentEpoch <= e
        /\ session.loaded /\ e \in 1..session.state.epoch
    BY DEF CommitArchive, NotLate, IInv, HandlerInv
  <1>3. handler[r].history \in Seq(Messages)
    BY <1>2, HistoryTypes DEF IInv, TypeOK
  <1>4. text \in Seq(Messages) /\ text # <<>>
    BY <1>3, TextIsPrefix
  <1>5. e = session.state.epoch /\ e \in Nat
    <2>1. row.epoch \in Nat /\ session.state.epoch \in Nat
      BY DEF IInv, TypeOK, Known
    <2>2. CurrentEpoch = session.state.epoch
      BY <1>2 DEF CurrentEpoch, IInv, EpochInv
    <2> QED BY <1>2, <2>1, <2>2
  <1>6. OnBranch(text, session.state.history)
    <2>1. /\ session.state.history # Invalid
          /\ Agree(handler[r].history, session.state.history, Len(handler[r].history))
      BY <1>2, <1>5 DEF CommitArchive, IInv, HandlerInv
    <2>2. session.state.history \in Seq(Messages)
      BY <2>1, HistoryTypes DEF IInv, Known
    <2> QED BY <1>3, <2>1, <2>2, PrefixOnBranch
  <1>7. Previous' = Previous /\ Previous = session.state
    BY <1>2 DEF Previous
  <1>8. /\ marker.id = id /\ marker.text = text /\ marker.epoch = e
        /\ drawn.id = id /\ drawn.text = text /\ drawn.isolated = FALSE
    OBVIOUS
  <1>9. /\ markers' = markers \cup {marker}
        /\ \/ blocks' = blocks /\ \E b \in blocks : b.text = text /\ b.id = id
           \/ blocks' = blocks \cup {drawn}
    BY <1>1 DEF Canonical
  <1> HIDE DEF text, e, marker, drawn
  <1>10. BlockInv'
    BY <1>2, <1>4, <1>6, <1>7, <1>8, <1>9 DEF IInv, BlockInv
  <1>11. MarkerInv'
    BY <1>2, <1>5, <1>6, <1>7, <1>8, <1>9 DEF IInv, MarkerInv
  <1>12. MarkerNamesItsText'
    BY <1>8, <1>9 DEF IInv, MarkerNamesItsText
  <1> QED BY <1>2, <1>10, <1>11, <1>12 DEF IInv, EpochInv, RowInv, HandlerInv

\* A restart keeps the branch if the row has kept it.
LEMMA RestartInv ==
  ASSUME IInv, TypeOK', Restart \/ RestartEmpty
  PROVE  IInv'
  <1>1. session'.loaded = FALSE /\ Previous' = row' /\ \A q \in Requests : handler'[q].pc # "ready"
    BY DEF Restart, RestartEmpty, Previous, Resting
  <1>2. CASE Restart
    <2>1. UNCHANGED <<row, blocks, markers>> /\ (~forgotten' => ~forgotten /\ Previous' = Previous)
      BY <1>1, <1>2 DEF Restart, Previous
    <2> QED BY <1>1, <2>1 DEF IInv, EpochInv, RowInv, HandlerInv, BlockInv, MarkerInv, MarkerNamesItsText
  <1>3. CASE RestartEmpty
    BY <1>1, <1>3
       DEF RestartEmpty, IInv, EpochInv, RowInv, HandlerInv, BlockInv, MarkerInv, MarkerNamesItsText
  <1> QED BY <1>2, <1>3

\* Every step keeps the inductive invariant.
LEMMA NextInv ==
  ASSUME IInv, [Next]_vars
  PROVE  IInv'
  <1>1. TypeOK'
    BY NextType DEF IInv
  <1>2. CASE UNCHANGED vars
    <2>1. UNCHANGED Previous
      BY <1>2 DEF vars, Previous
    <2> QED BY <1>1, <1>2, <2>1
         DEF vars, IInv, EpochInv, RowInv, HandlerInv, BlockInv, MarkerInv, MarkerNamesItsText
  <1>3. CASE Next
    BY <1>1, <1>3, InitialInv, ContinuedInv, DivergedInv, LeaveInv, TransitionFailsInv,
       CommitInv, RestartInv DEF Next, Begin
  <1> QED BY <1>2, <1>3

\* The inductive invariant holds throughout.
THEOREM InvCorrect == Spec => []IInv
  BY InitInv, NextInv, PTL DEF Spec

\* What can be recalled is on the session's branch, whatever overlaps, fails or
\* restarts, unless a history was lost with the process that knew it.
THEOREM VisibleOnKnownBranchCorrect == Spec => []VisibleOnKnownBranch
  <1>1. IInv => VisibleOnKnownBranch
    BY DEF IInv, BlockInv, VisibleOnKnownBranch, VisibleOnBranch, Visible, Previous
  <1> QED BY <1>1, InvCorrect, PTL

\* What is derived under the key of the current epoch is on the branch, as long as no
\* restart lost a history.
THEOREM DerivedOnBranchCorrect == Spec => []DerivedOnBranch
  <1>1. IInv => DerivedOnBranch
    BY DEF IInv, MarkerInv, DerivedOnBranch
  <1> QED BY <1>1, InvCorrect, PTL

\* A recovery marker names a stored row with the text it replaced.
THEOREM MarkerNamesItsTextCorrect == Spec => []MarkerNamesItsText
  <1>1. IInv => MarkerNamesItsText
    BY DEF IInv
  <1> QED BY <1>1, InvCorrect, PTL

\* Epochs only grow and are branches: within one the history is only extended, but
\* for a restart that finds an older history of the same branch.
THEOREM EpochsAreBranchesCorrect == Spec => EpochsAreBranches
  <1> DEFINE Step ==
         \/ Previous' = Previous
         \/ Previous'.epoch > Previous.epoch
         \/ /\ Previous'.epoch = Previous.epoch
            /\ IsExtended(Previous.history, Previous'.history)
         \/ LostByRestart
  <1>1. ASSUME IInv, Next PROVE Step
    <2>0. Previous.epoch \in Nat
      BY <1>1, HistoryTypes DEF IInv, Known
    <2>1. ASSUME NEW r \in Requests, NEW h \in Histories, BeginInitial(r, h) PROVE Step
      <3>1. Previous'.epoch = 1 /\ Previous.epoch = 0
        BY <2>1 DEF BeginInitial, Publish, Previous
      <3> QED BY <3>1
    <2>2. ASSUME NEW r \in Requests, NEW h \in Histories, BeginContinued(r, h) PROVE Step
      BY <2>2 DEF BeginContinued, Publish, Previous, Continuous, IsExtended
    <2>3. ASSUME NEW r \in Requests, NEW h \in Histories, BeginDiverged(r, h) PROVE Step
      <3>1. Previous'.epoch = Previous.epoch + 1
        BY <2>3 DEF BeginDiverged, Publish, Previous
      <3> QED BY <2>0, <3>1
    <2>4. ASSUME NEW r \in Requests, NEW h \in Histories, TransitionFails(r, h) PROVE Step
      BY <2>4 DEF TransitionFails, Previous
    <2>5. ASSUME NEW r \in Requests, BeginUnread(r) \/ CommitArchive(r) \/ CommitFails(r) \/ Finish(r)
          PROVE Step
      BY <2>5 DEF BeginUnread, CommitArchive, CommitFails, Finish, Previous
    <2>6. CASE Restart
      <3>1. ~session'.loaded /\ Previous' = row
        BY <2>6 DEF Restart, Previous
      <3>2. CASE session.loaded /\ row.epoch = session.state.epoch
        BY <1>1, <3>1, <3>2 DEF LostByRestart, IInv, RowInv, Previous
      <3>3. CASE session.loaded /\ row.epoch # session.state.epoch
        BY <1>1, <3>1, <3>3 DEF LostByRestart, IInv, EpochInv, Previous
      <3>4. CASE ~session.loaded
        BY <3>1, <3>4 DEF Previous
      <3> QED BY <3>2, <3>3, <3>4
    <2>7. CASE RestartEmpty
      BY <2>7 DEF RestartEmpty, LostByRestart, Previous, NoState
    <2> QED BY <1>1, <2>1, <2>2, <2>3, <2>4, <2>5, <2>6, <2>7 DEF Next, Begin
  <1>2. IInv /\ [Next]_vars => [Step]_vars
    BY <1>1
  <1> QED BY <1>2, InvCorrect, PTL DEF Spec, EpochsAreBranches
=============================================================================
