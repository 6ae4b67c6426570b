------------------------ MODULE ResponseStreamProofs ------------------------
(***************************************************************************)
(* Theorems about ResponseStream, for bodies of any length and both limits *)
(* set or not: success is recorded of a whole body only, a reply that has  *)
(* begun only grows, and nothing is lost between the connection and the    *)
(* client.                                                                 *)
(***************************************************************************)
EXTENDS ResponseStream, TLAPS

-----------------------------------------------------------------------------
(* Types                                                                   *)

Item == (Events \cup Documents) \X BOOLEAN
UpRecord == [sent : Seq(Pieces), taken : Nat, end : {"open", "eof", "reset"}]
GotRecord == [piece : Pieces \cup {Nothing}, err : {"none", "eof", "broken"}]
ReplyRecord ==
  [status : {0, 200, 400, 413, 500, 502, 504}, by : {"none", "proxy", "upstream"},
   items : Seq(Item), length : {"none", "upstream"}]
RecordRecord ==
  [state : States, class : {"none", "upstream"}, log : {"none", "upstream", "downstream_write"}]

\* The sources of a failure, and the states they stand for: none is a success.
LEMMA FailureFacts ==
  ASSUME NEW err, NEW otherwise \in States
  PROVE  /\ Classify(err) \in Sources
         /\ FailureState(Classify(err), otherwise) \in States
         /\ otherwise # "success" => FailureState(Classify(err), otherwise) # "success"
         /\ GatewayStatus(Classify(err)) \in {502, 504}
  <1>1. Classify(err) \in Sources
    BY DEF Classify, Sources
  <1>2. \A s \in Sources :
          /\ FailureState(s, otherwise) \in States
          /\ otherwise # "success" => FailureState(s, otherwise) # "success"
          /\ GatewayStatus(s) \in {502, 504}
    BY DEF FailureState, GatewayStatus, Sources, States
  <1>3. QED
    BY <1>1, <1>2

\* An answer is the proxy's only if nothing was written before.
LEMMA AnswerFacts ==
  ASSUME TypeOK, NEW err
  PROVE  /\ Answer(Classify(err)) \in ReplyRecord
         /\ Committed => Answer(Classify(err)) = reply
  <1>1. reply \in ReplyRecord
    BY DEF TypeOK, ReplyRecord, Item
  <1>2. Written(GatewayStatus(Classify(err)), "proxy", <<>>, "none") \in ReplyRecord
    <2>1. "unknown" \in States /\ <<>> \in Seq(Item)
      BY DEF States
    <2>2. GatewayStatus(Classify(err)) \in {0, 200, 400, 413, 500, 502, 504}
      BY <2>1, FailureFacts
    <2>3. QED
      BY <2>1, <2>2 DEF Written, ReplyRecord
  <1>3. QED
    BY <1>1, <1>2 DEF Answer, Committed

\* What a flushed event does: the reply is the upstream's and grows, or stays.
LEMMA FlushFacts ==
  ASSUME TypeOK, NEW event \in Events \cup Documents, NEW whole \in BOOLEAN, FlushEvent(event, whole)
  PROVE  /\ baseline' \in {"fresh", "started", "stopped", "invalid"} /\ writeErr' \in BOOLEAN
         /\ reply' \in ReplyRecord
         /\ \/ reply' = reply /\ writeErr' = writeErr
            \/ /\ reply'.status = 200 /\ reply'.by = "upstream"
               /\ reply'.items = reply.items \/ reply'.items = Append(reply.items, <<event, whole>>)
  <1>1. reply \in ReplyRecord /\ reply.items \in Seq(Item) /\ <<event, whole>> \in Item
    BY DEF TypeOK, ReplyRecord, Item
  <1>2. Append(reply.items, <<event, whole>>) \in Seq(Item)
    BY <1>1
  <1>3. baseline' \in {"fresh", "started", "stopped", "invalid"} /\ writeErr' \in BOOLEAN
    <2>1. baseline \in {"fresh", "started", "stopped", "invalid"} /\ writeErr \in BOOLEAN
      BY DEF TypeOK
    <2>2. Observe(baseline, event, whole) \in {"fresh", "started", "stopped", "invalid"}
      BY <2>1 DEF Observe
    <2>3. \/ writeErr' = writeErr /\ baseline' = baseline
          \/ writeErr' \in {writeErr, TRUE} /\ baseline' = Observe(baseline, event, whole)
      BY DEF FlushEvent
    <2>4. QED
      BY <2>1, <2>2, <2>3
  <1>4. CASE writeErr
    BY <1>1, <1>3, <1>4 DEF FlushEvent
  <1>5. CASE ~writeErr /\ reply' = Written(200, "upstream", Append(reply.items, <<event, whole>>), "none")
    BY <1>2, <1>3, <1>5 DEF Written, ReplyRecord
  <1>6. CASE ~writeErr /\ reply' = Written(200, "upstream", reply.items, "none")
    BY <1>1, <1>3, <1>6 DEF Written, ReplyRecord
  <1>7. QED
    BY <1>4, <1>5, <1>6 DEF FlushEvent

\* What the reader gets after the timer was stopped: the end of the body only
\* if the timer had not fired.
LEMMA ResultFacts ==
  ASSUME TypeOK
  PROVE  /\ ReadResult.piece \in Pieces \cup {Nothing}
         /\ ReadResult.err \in {"none", "eof", "broken", "idle"}
         /\ ReadResult.err = "eof" => got.err = "eof" /\ "idle" \notin fired
         /\ ReaderErrors(ReadResult) \subseteq Errors
         /\ "eof" \in ReaderErrors(ReadResult) => ReadResult.err = "eof"
  <1>1. got \in GotRecord
    BY DEF TypeOK, GotRecord
  <1>2. /\ ReadResult.piece \in Pieces \cup {Nothing}
        /\ ReadResult.err \in {"none", "eof", "broken", "idle"}
        /\ ReadResult.err = "eof" => got.err = "eof" /\ "idle" \notin fired
    BY <1>1 DEF ReadResult, GotRecord
  <1>3. QED
    BY <1>2 DEF ReaderErrors, Errors
\* The types in terms of the record sets.
LEMMA TypeFacts ==
  TypeOK <=>
    /\ pc \in {"inbound", "calling", "opening", "gunzip", "reading", "armed", "returned",
               "closing", "failed", "done"}
    /\ kind \in Kinds \cup {"none"} /\ phase \in Phases
    /\ up \in UpRecord /\ up.taken <= Len(up.sent)
    /\ got \in GotRecord /\ body \in Seq(Pieces)
    /\ baseline \in {"fresh", "started", "stopped", "invalid"}
    /\ readErr \in Errors /\ writeErr \in BOOLEAN
    /\ reply \in ReplyRecord /\ record \in RecordRecord
    /\ usage \in {"none", "stale", "taken"}
    /\ fired \subseteq {"hard", "idle"} /\ gone \in BOOLEAN /\ moved \in BOOLEAN
  BY DEF TypeOK, UpRecord, GotRecord, ReplyRecord, RecordRecord, Item

LEMMA TypeNext ==
  ASSUME pc' \in {"inbound", "calling", "opening", "gunzip", "reading", "armed", "returned",
                 "closing", "failed", "done"},
         kind' \in Kinds \cup {"none"}, phase' \in Phases,
         up' \in UpRecord, up'.taken <= Len(up'.sent),
         got' \in GotRecord, body' \in Seq(Pieces),
         baseline' \in {"fresh", "started", "stopped", "invalid"},
         readErr' \in Errors, writeErr' \in BOOLEAN,
         reply' \in ReplyRecord, record' \in RecordRecord,
         usage' \in {"none", "stale", "taken"},
         fired' \subseteq {"hard", "idle"}, gone' \in BOOLEAN, moved' \in BOOLEAN
  PROVE  TypeOK'
  BY DEF TypeOK, UpRecord, GotRecord, ReplyRecord, RecordRecord, Item

\* The surroundings keep the types.
LEMMA TypeWorld ==
  ASSUME TypeOK, World \/ IdleTimerFires \/ ConnectionReturns
  PROVE  TypeOK'
  <1>1. CASE HardLimitFires \/ ClientLeaves \/ BranchChanges \/ IdleTimerFires
    BY <1>1, TypeFacts, TypeNext, ZenonT(40) DEF HardLimitFires, ClientLeaves, BranchChanges, IdleTimerFires
  <1>2. /\ up \in UpRecord /\ up.taken <= Len(up.sent) /\ up.sent \in Seq(Pieces)
        /\ up.taken \in Nat /\ Len(up.sent) \in Nat
    BY DEF TypeOK, UpRecord
  <1>3. CASE UpstreamSends
    <2>1. PICK p \in NextPieces : up' = [up EXCEPT !.sent = Append(@, p)]
      BY <1>3 DEF UpstreamSends
    <2>2. p \in Pieces
      <3>1. CASE up.sent # <<>> /\ LastOf(up.sent)[2] = 1
        <4>1. LastOf(up.sent) \in Pieces
          BY <1>2, <3>1 DEF LastOf
        <4>2. QED
          BY <3>1, <4>1 DEF NextPieces, Pieces, Halves
      <3>2. CASE ~(up.sent # <<>> /\ LastOf(up.sent)[2] = 1)
        <4>1. Items(kind) \subseteq Events \cup Documents
          BY DEF Items, Documents
        <4>2. p \in Items(kind) \X {1}
          BY <3>2 DEF NextPieces
        <4>3. QED
          BY <4>1, <4>2 DEF Pieces, Halves
      <3>3. QED
        BY <3>1, <3>2
    <2>3. /\ Append(up.sent, p) \in Seq(Pieces)
          /\ Len(Append(up.sent, p)) = Len(up.sent) + 1
      BY <1>2, <2>2
    <2>4. up' \in UpRecord /\ up'.taken = up.taken /\ up'.sent = Append(up.sent, p)
      BY <1>2, <2>1, <2>3 DEF UpRecord
    <2>5. QED
      BY <1>2, <1>3, <2>3, <2>4, TypeFacts, TypeNext DEF UpstreamSends
  <1>4. CASE UpstreamEnds
    <2>1. up' \in UpRecord /\ up'.taken = up.taken /\ up'.sent = up.sent
      BY <1>2, <1>4 DEF UpstreamEnds, UpRecord
    <2>2. QED
      BY <1>2, <1>4, <2>1, TypeFacts, TypeNext DEF UpstreamEnds
  <1>5. CASE ConnectionReturns
    <2>1. Unread => up.taken + 1 \in 1..Len(up.sent) /\ up.sent[up.taken + 1] \in Pieces
      BY <1>2 DEF Unread
    <2>2. CASE /\ Unread /\ up' = [up EXCEPT !.taken = @ + 1]
               /\ got' = [piece |-> up.sent[up.taken + 1], err |-> "none"]
      <3>1. got' \in GotRecord
        BY <2>1, <2>2 DEF GotRecord
      <3>2. up' \in UpRecord /\ up'.taken = up.taken + 1 /\ up'.sent = up.sent
        BY <1>2, <2>2 DEF UpRecord
      <3>3. up'.taken <= Len(up'.sent)
        BY <1>2, <2>1, <2>2, <3>2
      <3>4. QED
        BY <1>5, <2>2, <3>1, <3>2, <3>3, TypeFacts, TypeNext DEF ConnectionReturns
    <2>3. CASE /\ up' = [up EXCEPT !.taken = Len(up.sent)]
               /\ got' = [piece |-> IF Unread THEN up.sent[up.taken + 1] ELSE Nothing, err |-> "eof"]
      <3>1. got' \in GotRecord
        BY <2>1, <2>3 DEF GotRecord
      <3>2. up' \in UpRecord /\ up'.taken = Len(up.sent) /\ up'.sent = up.sent
        BY <1>2, <2>3 DEF UpRecord
      <3>3. QED
        BY <1>2, <1>5, <3>1, <3>2, TypeFacts, TypeNext DEF ConnectionReturns
    <2>4. CASE got' = [piece |-> Nothing, err |-> "broken"] /\ up' = up
      <3>1. got' \in GotRecord
        BY <2>4 DEF GotRecord
      <3>2. QED
        BY <1>2, <1>5, <2>4, <3>1, TypeFacts, TypeNext DEF ConnectionReturns
    <2>5. QED
      BY <1>5, <2>2, <2>3, <2>4 DEF ConnectionReturns
  <1>6. QED
    BY <1>1, <1>3, <1>4, <1>5 DEF World

\* What a step of the handler leaves of the record is a record.
LEMMA RecordedFacts ==
  ASSUME NEW s \in States, NEW c \in {"none", "upstream"},
         NEW l \in {"none", "upstream", "downstream_write"}, Recorded(s, c, l)
  PROVE  record' \in RecordRecord /\ record'.state = s
  BY DEF Recorded, RecordRecord

\* The call keeps the types.
LEMMA TypeCalling ==
  ASSUME TypeOK, Calling
  PROVE  TypeOK'
  <1>1. CASE RefuseInbound
    <2>1. reply' \in ReplyRecord
      BY <1>1 DEF RefuseInbound, Written, ReplyRecord
    <2>2. record' \in RecordRecord
      BY <1>1 DEF RefuseInbound, Recorded, RecordRecord, States
    <2>3. QED
      BY <1>1, <2>1, <2>2, TypeFacts, TypeNext DEF RefuseInbound
  <1>2. CASE Call \/ RequestWritten
    BY <1>2, TypeFacts, TypeNext DEF Call, RequestWritten, Phases
  <1>3. CASE CallFails
    <2>1. PICK err \in {"broken", "timeout"} :
            /\ readErr' = err
            /\ reply' = Answer(Classify(err))
            /\ Recorded(FailureState(Classify(err), "transport_failure"), "upstream", "upstream")
      BY <1>3 DEF CallFails
    <2>2. reply' \in ReplyRecord
      BY <2>1, AnswerFacts
    <2>3. FailureState(Classify(err), "transport_failure") \in States
      BY FailureFacts DEF States
    <2>4. record' \in RecordRecord
      BY <2>1, <2>3 DEF Recorded, RecordRecord
    <2>5. QED
      BY <1>3, <2>1, <2>2, <2>4, TypeFacts, TypeNext DEF CallFails, Errors
  <1>4. CASE HeaderArrives
    BY <1>4, TypeFacts, TypeNext DEF HeaderArrives, Phases
  <1>5. QED
    BY <1>1, <1>2, <1>3, <1>4 DEF Calling
\* What the reader does with what a Read returned.
LEMMA TakeFacts ==
  ASSUME TypeOK, NEW result, result.piece \in Pieces \cup {Nothing}, Take(result)
  PROVE  /\ body' \in Seq(Pieces)
         /\ baseline' \in {"fresh", "started", "stopped", "invalid"} /\ writeErr' \in BOOLEAN
         /\ reply' \in ReplyRecord
         /\ \/ reply' = reply /\ writeErr' = writeErr
            \/ /\ kind = "sse" /\ reply'.status = 200 /\ reply'.by = "upstream"
               /\ \/ reply'.items = reply.items
                  \/ \E item \in Item : reply'.items = Append(reply.items, item)
  <1>1. /\ body \in Seq(Pieces) /\ reply \in ReplyRecord /\ writeErr \in BOOLEAN
        /\ baseline \in {"fresh", "started", "stopped", "invalid"}
    BY TypeFacts
  <1>2. CASE UNCHANGED <<body, baseline, reply, writeErr>>
    BY <1>1, <1>2
  <1>3. CASE /\ result.piece # Nothing /\ kind = "sse"
             /\ body' = <<>> /\ FlushEvent(result.piece[1], TRUE)
    <2>1. result.piece[1] \in Events \cup Documents /\ <<result.piece[1], TRUE>> \in Item
      BY <1>3 DEF Pieces, Item
    <2>2. body' \in Seq(Pieces)
      BY <1>3
    <2>3. QED
      BY <1>3, <2>1, <2>2, FlushFacts
  <1>4. CASE /\ result.piece # Nothing
             /\ body' = Append(body, result.piece) /\ UNCHANGED <<baseline, reply, writeErr>>
    <2>1. body' \in Seq(Pieces)
      BY <1>1, <1>4
    <2>2. QED
      BY <1>1, <1>4, <2>1
  <1>5. QED
    BY <1>2, <1>3, <1>4 DEF Take

\* Reading the body keeps the types.
LEMMA TypeReading ==
  ASSUME TypeOK, Reading \/ ReadHeader
  PROVE  TypeOK'
  <1>1. CASE OpenBody
    BY <1>1, TypeFacts, TypeNext DEF OpenBody
  <1>6. CASE ReadHeader
    <2>1. record' = record \/ record' \in RecordRecord
      BY <1>6 DEF ReadHeader, Recorded, RecordRecord, States
    <2>2. readErr' \in Errors
      BY <1>6, TypeFacts DEF ReadHeader, Errors
    <2>3. record' \in RecordRecord
      BY <2>1, TypeFacts
    <2>4. QED
      BY <1>6, <2>2, <2>3, TypeFacts, TypeNext DEF ReadHeader
  <1>2. CASE BeginRead
    BY <1>2, TypeFacts, TypeNext DEF BeginRead
  <1>3. CASE FinishRead
    <2>1. ReadResult.piece \in Pieces \cup {Nothing} /\ readErr' \in Errors
      BY <1>3, ResultFacts DEF FinishRead
    <2>2. /\ body' \in Seq(Pieces) /\ writeErr' \in BOOLEAN /\ reply' \in ReplyRecord
          /\ baseline' \in {"fresh", "started", "stopped", "invalid"}
      BY <1>3, <2>1, TakeFacts DEF FinishRead
    <2>3. got' \in GotRecord
      BY <1>3 DEF FinishRead, GotRecord
    <2>4. QED
      BY <1>3, <2>1, <2>2, <2>3, TypeFacts, TypeNext DEF FinishRead
  <1>4. CASE ReadTimedOut
    BY <1>4, TypeFacts, TypeNext DEF ReadTimedOut, Errors
  <1>5. CASE FlushRest
    <2>1. PICK whole \in BOOLEAN : FlushEvent(Head(body)[1], whole)
      BY <1>5 DEF FlushRest
    <2>2. Head(body) \in Pieces
      BY <1>5, TypeFacts DEF FlushRest
    <2>3. Head(body)[1] \in Events \cup Documents
      BY <2>2 DEF Pieces
    <2>4. /\ reply' \in ReplyRecord /\ writeErr' \in BOOLEAN
          /\ baseline' \in {"fresh", "started", "stopped", "invalid"}
      BY <2>1, <2>3, FlushFacts
    <2>5. <<>> \in Seq(Pieces)
      OBVIOUS
    <2>6. QED
      BY <1>5, <2>4, <2>5, TypeFacts, TypeNext DEF FlushRest
  <1>7. QED
    BY <1>1, <1>2, <1>3, <1>4, <1>5, <1>6 DEF Reading

\* The end of the response keeps the types.
LEMMA TypeEnding ==
  ASSUME TypeOK, Ending
  PROVE  TypeOK'
  <1>0. /\ reply \in ReplyRecord /\ record \in RecordRecord
        /\ record.class \in {"none", "upstream"} /\ record.state \in States
    BY TypeFacts DEF RecordRecord
  <1>1. CASE StreamFails \/ StreamUnheard \/ DocumentFails
    <2>1. record' \in RecordRecord
      BY <1>0, <1>1 DEF StreamFails, StreamUnheard, DocumentFails, Recorded, InterruptedState,
                        RecordRecord, States
    <2>2. QED
      BY <1>1, <2>1, TypeFacts, TypeNext DEF StreamFails, StreamUnheard, DocumentFails
  <1>2. CASE StreamSucceeds
    <2>1. record' \in RecordRecord
      BY <1>0, <1>2 DEF StreamSucceeds, Recorded, RecordRecord, States
    <2>2. <<>> \in Seq(Item)
      OBVIOUS
    <2>3. reply' \in ReplyRecord
      BY <1>0, <1>2, <2>2 DEF StreamSucceeds, Written, ReplyRecord
    <2>4. QED
      BY <1>2, <2>1, <2>3, TypeFacts, TypeNext DEF StreamSucceeds, TakeUsage
  <1>3. Whole(body) \in Seq(Item)
    <2>1. CASE body = <<>>
      BY <2>1 DEF Whole
    <2>2. CASE body # <<>>
      <3>1. body[1] \in Pieces
        BY <2>2, TypeFacts
      <3>2. <<body[1][1], Len(body) = 2>> \in Item
        BY <3>1 DEF Pieces, Item
      <3>3. QED
        BY <2>2, <3>2 DEF Whole
    <2>3. QED
      BY <2>1, <2>2
  <1>4. CASE JSONAnswered
    <2>1. PICK written \in BOOLEAN, recoded \in BOOLEAN :
            /\ reply' = Written(200, "upstream", IF written THEN Whole(body) ELSE <<>>,
                                IF recoded \/ Document # "text" THEN "none" ELSE "upstream")
            /\ writeErr' = ~written
            /\ IF written THEN Recorded("success", record.class, "none")
                          ELSE Recorded("committed_failure", record.class, "downstream_write")
      BY <1>4 DEF JSONAnswered
    <2>2. <<>> \in Seq(Item)
      OBVIOUS
    <2>3. reply' \in ReplyRecord
      BY <1>3, <2>1, <2>2 DEF Written, ReplyRecord
    <2>4. record' \in RecordRecord
      BY <1>0, <2>1 DEF Recorded, RecordRecord, States
    <2>5. QED
      BY <1>4, <2>1, <2>3, <2>4, TypeFacts, TypeNext DEF JSONAnswered, TakeUsage
  <1>5. CASE Non2xxAnswered
    <2>1. reply' \in ReplyRecord
      BY <1>3, <1>5 DEF Non2xxAnswered, Written, ReplyRecord
    <2>2. record' \in RecordRecord
      BY <1>5 DEF Non2xxAnswered, Recorded, RecordRecord, States
    <2>3. QED
      BY <1>5, <2>1, <2>2, TypeFacts, TypeNext DEF Non2xxAnswered
  <1>6. CASE Fail
    <2>1. reply' \in ReplyRecord
      BY <1>6, AnswerFacts DEF Fail
    <2>2. FailureState(Classify(readErr), record.state) \in States
      BY <1>0, FailureFacts
    <2>3. record' \in RecordRecord
      BY <1>0, <1>6, <2>2 DEF Fail, Recorded, RecordRecord
    <2>4. QED
      BY <1>6, <2>1, <2>3, TypeFacts, TypeNext DEF Fail
  <1>7. QED
    BY <1>1, <1>2, <1>4, <1>5, <1>6 DEF Ending

\* Every step keeps the types.
LEMMA TypeStep == TypeOK /\ [Next]_vars => TypeOK'
  <1> SUFFICES ASSUME TypeOK, [Next]_vars PROVE TypeOK'
    OBVIOUS
  <1>1. CASE UNCHANGED vars
    BY <1>1 DEF vars, TypeOK
  <1>2. QED
    BY <1>1, TypeWorld, TypeCalling, TypeReading, TypeEnding DEF Next, Finished

\* Every variable keeps its type, for bodies of any length.
THEOREM StreamTypeCorrect == Spec => []TypeOK
  <1>1. Init => TypeOK
    <2> SUFFICES ASSUME Init PROVE TypeOK
      OBVIOUS
    <2>1. up \in UpRecord /\ up.taken <= Len(up.sent) /\ got \in GotRecord
      BY DEF Init, UpRecord, GotRecord
    <2>2. reply \in ReplyRecord /\ record \in RecordRecord
      BY DEF Init, ReplyRecord, RecordRecord, States
    <2>3. /\ pc = "inbound" /\ kind = "none" /\ phase = "connect" /\ body = <<>>
          /\ baseline = "fresh" /\ readErr = "none" /\ writeErr = FALSE /\ usage = "none"
          /\ fired = {} /\ gone = FALSE /\ moved = FALSE
      BY DEF Init
    <2>4. body \in Seq(Pieces) /\ phase \in Phases /\ readErr \in Errors
      BY <2>3 DEF Phases, Errors
    <2>5. QED
      BY <2>1, <2>2, <2>3, <2>4, TypeFacts
  <1>2. QED
    BY <1>1, TypeStep, PTL DEF Spec
-----------------------------------------------------------------------------
(* A success is whole, and a reply that has begun only grows               *)

\* The connection handed over all there is.
AtEnd == up.end = "eof" /\ up.taken = Len(up.sent)

\* The end of the body is only seen by a Read whose timer did not fire, and a success
\* is only recorded of that.
EndInv ==
  /\ got.err = "eof" => AtEnd
  /\ readErr = "eof" => AtEnd /\ "idle" \notin fired /\ pc \in {"closing", "failed", "done"}
  /\ record.state = "success" =>
       pc = "done" /\ readErr = "eof" /\ ~writeErr /\ reply.by = "upstream"

\* Until the handler is done, a reply has been begun by a stream only.
BeginInv ==
  /\ pc \in {"inbound", "calling"} => kind = "none"
  /\ pc # "done" /\ Committed => kind = "sse" /\ reply.status = 200 /\ reply.by = "upstream"

StreamInv == EndInv /\ BeginInv

\* A body at its end stays as it is.
LEMMA EndStays ==
  ASSUME TypeOK, World \/ ConnectionReturns, AtEnd
  PROVE  AtEnd'
  <1>1. up \in UpRecord /\ up.taken \in Nat /\ Len(up.sent) \in Nat
    BY TypeFacts DEF UpRecord
  <1>2. CASE World
    BY <1>2 DEF World, AtEnd, HardLimitFires, ClientLeaves, BranchChanges, UpstreamSends, UpstreamEnds
  <1>3. CASE ConnectionReturns
    <2>1. ~Unread
      BY <1>1 DEF AtEnd, Unread
    <2>2. up' = up \/ up' = [up EXCEPT !.taken = Len(up.sent)]
      BY <1>3, <2>1 DEF ConnectionReturns
    <2>3. QED
      BY <1>1, <2>2 DEF AtEnd, UpRecord
  <1>4. QED
    BY <1>2, <1>3

\* The surroundings neither end a body that goes on nor touch the reply.
LEMMA StreamWorld ==
  ASSUME TypeOK, StreamInv, World \/ IdleTimerFires \/ ConnectionReturns
  PROVE  StreamInv' /\ UNCHANGED reply
  <1>1. CASE World
    <2>1. /\ UNCHANGED <<pc, kind, got, readErr, writeErr, reply, record>>
          /\ fired' \subseteq fired \cup {"hard"}
      BY <1>1 DEF World, HardLimitFires, ClientLeaves, BranchChanges, UpstreamSends, UpstreamEnds
    <2>2. QED
      BY <1>1, <2>1, EndStays DEF StreamInv, EndInv, BeginInv, Committed
  <1>2. CASE IdleTimerFires
    BY <1>2 DEF IdleTimerFires, StreamInv, EndInv, BeginInv, Committed, AtEnd
  <1>3. CASE ConnectionReturns
    <2>1. /\ pc = "armed" /\ pc' = "returned"
          /\ UNCHANGED <<kind, readErr, writeErr, reply, record, fired>>
      BY <1>3 DEF ConnectionReturns
    <2>2. got'.err = "eof" => AtEnd'
      <3>1. up \in UpRecord
        BY TypeFacts
      <3>2. CASE got' = [piece |-> up.sent[up.taken + 1], err |-> "none"]
        BY <3>2
      <3>3. CASE up.end = "eof" /\ up' = [up EXCEPT !.taken = Len(up.sent)]
        BY <3>1, <3>3 DEF AtEnd, UpRecord
      <3>4. CASE got' = [piece |-> Nothing, err |-> "broken"]
        BY <3>4
      <3>5. QED
        BY <1>3, <3>2, <3>3, <3>4 DEF ConnectionReturns
    <2>3. QED
      BY <2>1, <2>2 DEF StreamInv, EndInv, BeginInv, Committed
  <1>4. QED
    BY <1>1, <1>2, <1>3

\* What a step may do to a reply that has begun.
Grows ==
  Committed =>
    /\ reply'.status = reply.status /\ reply'.by = reply.by
    /\ Len(reply.items) <= Len(reply'.items)
    /\ \A i \in 1..Len(reply.items) : reply'.items[i] = reply.items[i]

\* Appending an item is no more than that.
LEMMA AppendGrows ==
  ASSUME TypeOK, NEW item \in Item,
         Committed => reply'.status = reply.status /\ reply'.by = reply.by,
         reply'.items = reply.items \/ reply'.items = Append(reply.items, item)
  PROVE  Grows
  <1>1. reply.items \in Seq(Item) /\ Len(reply.items) \in Nat
    BY TypeFacts DEF ReplyRecord
  <1>2. CASE reply'.items = reply.items
    BY <1>1, <1>2 DEF Grows
  <1>3. CASE reply'.items = Append(reply.items, item)
    <2>1. /\ Len(Append(reply.items, item)) = Len(reply.items) + 1
          /\ \A i \in 1..Len(reply.items) : Append(reply.items, item)[i] = reply.items[i]
      BY <1>1
    <2>2. QED
      BY <1>1, <1>3, <2>1 DEF Grows
  <1>4. QED
    BY <1>2, <1>3

\* A reply that stays.
LEMMA SameGrows == ASSUME TypeOK, reply' = reply PROVE Grows
  <1>1. reply.items \in Seq(Item) /\ Len(reply.items) \in Nat
    BY TypeFacts DEF ReplyRecord
  <1>2. QED
    BY <1>1 DEF Grows

\* The call ends the handler or leaves the reply alone.
LEMMA StreamCalling ==
  ASSUME TypeOK, StreamInv, Calling
  PROVE  StreamInv' /\ Grows
  <1>0. ~Committed
    BY DEF StreamInv, BeginInv, Calling, RefuseInbound, Call, RequestWritten, CallFails, HeaderArrives
  <1>1. Grows
    BY <1>0 DEF Grows
  <1>2. readErr # "eof" /\ record.state # "success"
    BY DEF StreamInv, EndInv, Calling, RefuseInbound, Call, RequestWritten, CallFails, HeaderArrives
  <1>3. CASE RefuseInbound
    <2>1. /\ pc' = "done" /\ record'.state # "success" /\ UNCHANGED <<up, got, readErr, fired>>
      BY <1>3 DEF RefuseInbound, Recorded
    <2>2. QED
      BY <1>1, <1>2, <2>1 DEF StreamInv, EndInv, BeginInv, AtEnd
  <1>4. CASE Call \/ RequestWritten \/ HeaderArrives
    <2>1. /\ pc' = "calling" => kind' = "none"
          /\ UNCHANGED <<up, got, readErr, record, reply>>
      BY <1>4 DEF Call, RequestWritten, HeaderArrives, StreamInv, BeginInv
    <2>2. pc' # "inbound"
      BY <1>4 DEF Call, RequestWritten, HeaderArrives
    <2>3. QED
      BY <1>0, <1>1, <1>2, <2>1, <2>2 DEF StreamInv, EndInv, BeginInv, AtEnd, Committed
  <1>5. CASE CallFails
    <2>1. PICK err \in {"broken", "timeout"} :
            /\ readErr' = err /\ pc' = "done" /\ UNCHANGED <<up, got>>
            /\ record'.state = FailureState(Classify(err), "transport_failure")
      BY <1>5 DEF CallFails, Recorded
    <2>2. record'.state # "success"
      BY <2>1, FailureFacts DEF States
    <2>3. QED
      BY <1>1, <2>1, <2>2 DEF StreamInv, EndInv, BeginInv, AtEnd
  <1>6. QED
    BY <1>3, <1>4, <1>5 DEF Calling

\* The reader sees the end of the body, or appends an event.
LEMMA StreamReading ==
  ASSUME TypeOK, StreamInv, Reading \/ ReadHeader
  PROVE  StreamInv' /\ Grows
  <1>0. record.state # "success"
    BY DEF StreamInv, EndInv, Reading, OpenBody, ReadHeader, BeginRead, FinishRead, ReadTimedOut,
           FlushRest
  <1>1. CASE OpenBody \/ ReadHeader
    <2>1. /\ pc \in {"opening", "gunzip"} /\ pc' \in {"gunzip", "reading", "failed"}
          /\ record'.state # "success"
          /\ readErr' = readErr \/ readErr' \in {"broken", "idle"}
          /\ UNCHANGED <<kind, up, got, reply>>
      BY <1>0, <1>1 DEF OpenBody, ReadHeader, Recorded
    <2>2. QED
      BY <2>1, SameGrows DEF StreamInv, EndInv, BeginInv, AtEnd, Committed
  <1>2. CASE BeginRead \/ ReadTimedOut
    <2>1. /\ pc = "reading" /\ pc' \in {"armed", "closing"}
          /\ readErr' = readErr \/ readErr' = "idle"
          /\ UNCHANGED <<kind, up, got, reply, record>>
      BY <1>2 DEF BeginRead, ReadTimedOut
    <2>2. QED
      BY <1>0, <2>1, SameGrows DEF StreamInv, EndInv, BeginInv, AtEnd, Committed
  <1>3. CASE FinishRead
    <2>1. /\ pc = "returned" /\ pc' = IF readErr' = "none" THEN "reading" ELSE "closing"
          /\ got'.err = "none" /\ UNCHANGED <<kind, up, record, fired>>
          /\ readErr' \in ReaderErrors(ReadResult) /\ Take(ReadResult)
      BY <1>3 DEF FinishRead
    <2>2. readErr' = "eof" => AtEnd /\ "idle" \notin fired
      BY <2>1, ResultFacts DEF StreamInv, EndInv
    <2>3. \/ reply' = reply
          \/ /\ kind = "sse" /\ reply'.status = 200 /\ reply'.by = "upstream"
             /\ \/ reply'.items = reply.items
                \/ \E item \in Item : reply'.items = Append(reply.items, item)
      BY <2>1, ResultFacts, TakeFacts
    <2>4. StreamInv'
      BY <1>0, <2>1, <2>2, <2>3 DEF StreamInv, EndInv, BeginInv, AtEnd, Committed
    <2>5. Committed => reply'.status = reply.status /\ reply'.by = reply.by
      BY <2>1, <2>3 DEF StreamInv, BeginInv
    <2>6. CASE reply' = reply
      BY <2>4, <2>6, SameGrows
    <2>7. CASE reply' # reply
      <3>1. <<"other", TRUE>> \in Item
        BY DEF Item, Events
      <3>2. PICK item \in Item :
              reply'.items = reply.items \/ reply'.items = Append(reply.items, item)
        BY <2>3, <2>7, <3>1
      <3>3. QED
        BY <2>4, <2>5, <3>2, AppendGrows
    <2>8. QED
      BY <2>6, <2>7
  <1>4. CASE FlushRest
    <2>1. PICK whole \in BOOLEAN : FlushEvent(Head(body)[1], whole)
      BY <1>4 DEF FlushRest
    <2>2. Head(body) \in Pieces
      BY <1>4, TypeFacts DEF FlushRest
    <2>3. Head(body)[1] \in Events \cup Documents /\ <<Head(body)[1], whole>> \in Item
      BY <2>2 DEF Pieces, Item
    <2>4. \/ reply' = reply
          \/ /\ reply'.status = 200 /\ reply'.by = "upstream"
             /\ \/ reply'.items = reply.items
                \/ reply'.items = Append(reply.items, <<Head(body)[1], whole>>)
      BY <2>1, <2>3, FlushFacts
    <2>5. /\ pc = "closing" /\ kind = "sse" /\ UNCHANGED <<pc, kind, up, got, readErr, record, fired>>
      BY <1>4 DEF FlushRest
    <2>6. StreamInv'
      BY <1>0, <2>4, <2>5 DEF StreamInv, EndInv, BeginInv, AtEnd, Committed
    <2>7. Committed => reply'.status = reply.status /\ reply'.by = reply.by
      BY <2>4, <2>5 DEF StreamInv, BeginInv
    <2>8. Grows
      BY <2>3, <2>4, <2>7, AppendGrows, SameGrows
    <2>9. QED
      BY <2>6, <2>8
  <1>5. QED
    BY <1>1, <1>2, <1>3, <1>4 DEF Reading

\* The handler ends: with a success only after the whole body.
LEMMA StreamEnding ==
  ASSUME TypeOK, StreamInv, Ending
  PROVE  StreamInv' /\ Grows
  <1>0. record.state # "success"
    BY DEF StreamInv, EndInv, Ending, StreamFails, StreamUnheard, StreamSucceeds,
           DocumentFails, JSONAnswered, Non2xxAnswered, Fail
  <1>1. CASE StreamFails \/ StreamUnheard \/ DocumentFails
    <2>1. /\ pc = "closing" /\ pc' = "failed" /\ record'.state # "success"
          /\ UNCHANGED <<kind, up, got, readErr, reply, fired>>
      BY <1>1 DEF StreamFails, StreamUnheard, DocumentFails, Recorded, InterruptedState
    <2>2. QED
      BY <2>1, SameGrows DEF StreamInv, EndInv, BeginInv, AtEnd, Committed
  <1>2. CASE StreamSucceeds
    <2>1. /\ pc = "closing" /\ pc' = "done" /\ readErr = "eof" /\ ~writeErr
          /\ UNCHANGED <<up, got, readErr, writeErr, fired>>
          /\ IF Committed THEN reply' = reply ELSE reply'.by = "upstream"
      BY <1>2 DEF StreamSucceeds, Written
    <2>2. reply'.by = "upstream"
      BY <2>1 DEF StreamInv, BeginInv
    <2>3. StreamInv'
      BY <2>1, <2>2 DEF StreamInv, EndInv, BeginInv, AtEnd
    <2>4. Grows
      BY <2>1, SameGrows DEF Grows
    <2>5. QED
      BY <2>3, <2>4
  <1>3. CASE JSONAnswered
    <2>1. PICK written \in BOOLEAN :
            /\ writeErr' = ~written
            /\ record'.state = IF written THEN "success" ELSE "committed_failure"
      BY <1>3 DEF JSONAnswered, Recorded
    <2>2. /\ pc = "closing" /\ kind = "json" /\ pc' = "done" /\ readErr = "eof"
          /\ reply'.by = "upstream" /\ UNCHANGED <<up, got, readErr, fired>>
      BY <1>3 DEF JSONAnswered, Written
    <2>3. ~Committed
      BY <2>2 DEF StreamInv, BeginInv
    <2>4. QED
      BY <2>1, <2>2, <2>3 DEF StreamInv, EndInv, BeginInv, AtEnd, Grows
  <1>4. CASE Non2xxAnswered
    <2>1. /\ pc = "closing" /\ kind = "non2xx" /\ pc' = "done" /\ record'.state # "success"
          /\ UNCHANGED <<up, got, readErr, fired>>
      BY <1>4 DEF Non2xxAnswered, Recorded
    <2>2. ~Committed
      BY <2>1 DEF StreamInv, BeginInv
    <2>3. QED
      BY <2>1, <2>2 DEF StreamInv, EndInv, BeginInv, AtEnd, Grows
  <1>5. CASE Fail
    <2>1. /\ pc = "failed" /\ pc' = "done" /\ reply' = Answer(Classify(readErr))
          /\ record'.state = FailureState(Classify(readErr), record.state)
          /\ UNCHANGED <<up, got, readErr, fired>>
      BY <1>5 DEF Fail, Recorded
    <2>2. record'.state # "success"
      BY <1>0, <2>1, FailureFacts, TypeFacts DEF RecordRecord
    <2>3. Grows
      BY <2>1, AnswerFacts, SameGrows DEF Grows
    <2>4. QED
      BY <2>1, <2>2, <2>3 DEF StreamInv, EndInv, BeginInv, AtEnd
  <1>6. QED
    BY <1>1, <1>2, <1>3, <1>4, <1>5 DEF Ending

\* Every step keeps it, and no step takes back what the client was sent.
LEMMA StreamStep == TypeOK /\ StreamInv /\ [Next]_vars => StreamInv' /\ Grows
  <1> SUFFICES ASSUME TypeOK, StreamInv, [Next]_vars PROVE StreamInv' /\ Grows
    OBVIOUS
  <1>1. CASE UNCHANGED vars
    BY <1>1, SameGrows DEF vars, StreamInv, EndInv, BeginInv, AtEnd, Committed
  <1>2. CASE World \/ IdleTimerFires \/ ConnectionReturns
    BY <1>2, StreamWorld, SameGrows
  <1>3. QED
    BY <1>1, <1>2, StreamCalling, StreamReading, StreamEnding DEF Next, Finished

\* The bookkeeping holds of every reachable state.
LEMMA StreamInvariant == Spec => [](TypeOK /\ StreamInv)
  <1>1. Init => StreamInv
    BY DEF Init, StreamInv, EndInv, BeginInv, Committed
  <1>2. QED
    BY <1>1, StreamTypeCorrect, StreamStep, PTL DEF Spec

\* Success is recorded only of a body that was read to its end and written to the
\* client, whichever of the timers, the client and the upstream comes first
\* (forwardRaw, idleTimeoutBody.Read).
THEOREM SuccessIsWholeCorrect == Spec => []SuccessIsWhole
  <1>1. StreamInv => SuccessIsWhole
    BY DEF StreamInv, EndInv, AtEnd, SuccessIsWhole
  <1>2. QED
    BY <1>1, StreamInvariant, PTL

\* A reply that has begun keeps its status and its author and only grows: no failure
\* appends the proxy's error to a stream of any length.
THEOREM ReplyStaysCorrect == Spec => ReplyStays
  <1>1. TypeOK /\ StreamInv /\ [Next]_vars =>
          [Committed => /\ reply'.status = reply.status /\ reply'.by = reply.by
                        /\ Len(reply.items) <= Len(reply'.items)
                        /\ \A i \in 1..Len(reply.items) : reply'.items[i] = reply.items[i]]_vars
    BY StreamStep DEF Grows
  <1>2. QED
    BY <1>1, StreamInvariant, PTL DEF Spec, ReplyStays
-----------------------------------------------------------------------------
(* Nothing is lost between the connection and the client                   *)

\* An item is sent in its two halves, first and second.
SentInv ==
  /\ \A j \in Nat : 2 * j + 1 <= Len(up.sent) => up.sent[2 * j + 1][2] = 1
  /\ \A j \in Nat : 2 * j + 2 <= Len(up.sent) =>
       up.sent[2 * j + 2][2] = 2 /\ up.sent[2 * j + 2][1] = up.sent[2 * j + 1][1]

\* A piece that a Read returned is the last one that the connection handed over.
GotInv ==
  got.piece # Nothing => pc = "returned" /\ up.taken > 0 /\ got.piece = up.sent[up.taken]

\* Before the header there is nothing, and before the end no error.
FreshInv ==
  /\ kind = "none" => /\ up.sent = <<>> /\ up.taken = 0 /\ got.piece = Nothing
                      /\ body = <<>> /\ reply.items = <<>>
  /\ pc \notin {"inbound", "calling", "done"} => kind # "none"
  /\ pc \notin {"closing", "failed", "done"} => readErr = "none"
  /\ reply.status = 0 => reply.items = <<>> /\ reply.by = "none"
  /\ pc \in {"opening", "gunzip"} \/ (pc = "failed" /\ kind = "sse") => body = <<>>

\* The pieces that the reader has processed.
Processed == IF got.piece = Nothing THEN up.taken ELSE up.taken - 1

Heard(m) == \A i \in 1..m : reply.items[i] = <<up.sent[2 * i - 1][1], TRUE>>

\* Of a stream, m events were flushed, and of the next one there is nothing, its first
\* half, or a cut event that was flushed at the end.
Events3(m) ==
  \/ body = <<>> /\ Processed = 2 * m /\ Len(reply.items) = m
  \/ body = <<up.sent[2 * m + 1]>> /\ Processed = 2 * m + 1 /\ Len(reply.items) = m
  \/ /\ pc \in {"closing", "failed"} /\ body = <<>> /\ Processed = 2 * m + 1
     /\ Len(reply.items) = m + 1
     /\ \E whole \in BOOLEAN : reply.items[m + 1] = <<up.sent[2 * m + 1][1], whole>>

EventInv ==
  kind = "sse" /\ ~writeErr /\ readErr # "too_long" /\ pc # "done" =>
    \E m \in Nat : Heard(m) /\ Events3(m)

\* A document is kept as it comes.
DocumentInv ==
  kind \in {"json", "non2xx"} /\ pc # "done" =>
    /\ Len(up.sent) <= 2 /\ Len(body) = Processed
    /\ \A i \in 1..Processed : body[i] = up.sent[i]

LossInv == SentInv /\ GotInv /\ FreshInv /\ EventInv /\ DocumentInv /\ NothingLost

\* What the types say of the sequences.
LEMMA SeqFacts ==
  ASSUME TypeOK
  PROVE  /\ up \in UpRecord /\ up.sent \in Seq(Pieces) /\ up.taken \in Nat /\ Len(up.sent) \in Nat
         /\ up.taken <= Len(up.sent)
         /\ reply.items \in Seq(Item) /\ Len(reply.items) \in Nat
         /\ body \in Seq(Pieces) /\ Len(body) \in Nat /\ got.piece \in Pieces \cup {Nothing}
         /\ \A p \in Pieces : p # Nothing /\ p[2] \in {1, 2} /\ p = <<p[1], p[2]>>
                              /\ p[1] \in Events \cup Documents
  <1>1. ASSUME NEW p \in Pieces
        PROVE  /\ p # Nothing /\ p[2] \in {1, 2} /\ p = <<p[1], p[2]>>
               /\ p[1] \in Events \cup Documents
    <2>1. PICK e \in Events \cup Documents, h \in {1, 2} : p = <<e, h>>
      BY DEF Pieces, Halves
    <2>2. Len(p) = 2 /\ Len(Nothing) = 0
      BY <2>1 DEF Nothing
    <2>3. QED
      BY <2>1, <2>2
  <1>2. up \in UpRecord /\ got \in GotRecord /\ body \in Seq(Pieces) /\ reply \in ReplyRecord
        /\ up.taken <= Len(up.sent)
    BY TypeFacts
  <1>3. /\ up.sent \in Seq(Pieces) /\ up.taken \in Nat /\ reply.items \in Seq(Item)
        /\ got.piece \in Pieces \cup {Nothing}
    BY <1>2 DEF UpRecord, GotRecord, ReplyRecord
  <1>4. QED
    BY <1>1, <1>2, <1>3

\* Whole events are the items of their pieces.
LEMMA WholeItems ==
  ASSUME NEW p \in Seq(Pieces), NEW m \in Nat, NEW s \in Seq(Item),
         \A i \in 1..m : s[i] = <<p[2 * i - 1][1], TRUE>>, Len(p) = 2 * m, Len(s) = m
  PROVE  s = ItemsOf(p)
  <1>1. s = [i \in 1..m |-> s[i]]
    OBVIOUS
  <1>2. (Len(p) + 1) \div 2 = m
    OBVIOUS
  <1>3. ASSUME NEW i \in 1..m PROVE s[i] = <<p[2 * i - 1][1], 2 * i <= Len(p)>>
    <2>1. (2 * i <= Len(p)) = TRUE
      OBVIOUS
    <2>2. QED
      BY <2>1
  <1>4. QED
    BY <1>1, <1>2, <1>3 DEF ItemsOf

\* So they are with a cut one at the end.
LEMMA CutItems ==
  ASSUME NEW p \in Seq(Pieces), NEW m \in Nat, NEW s \in Seq(Item),
         \A i \in 1..m : s[i] = <<p[2 * i - 1][1], TRUE>>,
         Len(p) = 2 * m + 1, Len(s) = m + 1, s[m + 1] = <<p[2 * m + 1][1], FALSE>>
  PROVE  s = ItemsOf(p)
  <1>1. s = [i \in 1..(m + 1) |-> s[i]]
    OBVIOUS
  <1>2. (Len(p) + 1) \div 2 = m + 1
    OBVIOUS
  <1>3. ASSUME NEW i \in 1..(m + 1) PROVE s[i] = <<p[2 * i - 1][1], 2 * i <= Len(p)>>
    <2>1. CASE i \in 1..m
      <3>1. (2 * i <= Len(p)) = TRUE
        BY <2>1
      <3>2. QED
        BY <2>1, <3>1
    <2>2. CASE i = m + 1
      <3>1. (2 * i <= Len(p)) = FALSE /\ 2 * i - 1 = 2 * m + 1
        BY <2>2
      <3>2. QED
        BY <2>2, <3>1
    <2>3. QED
      BY <2>1, <2>2
  <1>4. QED
    BY <1>1, <1>2, <1>3 DEF ItemsOf

\* A document is one item, whole or not.
LEMMA WholeFacts ==
  ASSUME NEW p \in Seq(Pieces), NEW q \in Seq(Pieces), Len(p) <= 2, Len(q) = Len(p),
         \A i \in 1..Len(p) : q[i] = p[i]
  PROVE  Whole(q) = ItemsOf(p)
  <1>1. CASE Len(p) = 0
    <2>1. q = <<>> /\ (Len(p) + 1) \div 2 = 0 /\ 1..0 = {}
      BY <1>1
    <2>2. ItemsOf(p) = <<>>
      BY <2>1 DEF ItemsOf
    <2>3. QED
      BY <2>1, <2>2 DEF Whole
  <1>2. CASE Len(p) \in {1, 2}
    <2>1. q # <<>> /\ q[1] = p[1] /\ (Len(p) + 1) \div 2 = 1
      BY <1>2
    <2>2. \A i \in 1..1 : 2 * i - 1 = 1 /\ (2 * i <= Len(p)) = (Len(q) = 2)
      BY <1>2
    <2>3. ItemsOf(p) = [i \in 1..1 |-> <<p[1][1], Len(q) = 2>>]
      BY <2>1, <2>2 DEF ItemsOf
    <2>4. QED
      BY <2>1, <2>3 DEF Whole
  <1>3. QED
    BY <1>1, <1>2

\* What has been handed over.
LEMMA HandedFacts ==
  ASSUME TypeOK
  PROVE  /\ Handed \in Seq(Pieces) /\ Len(Handed) = up.taken
         /\ \A i \in 1..up.taken : Handed[i] = up.sent[i]
  BY SeqFacts DEF Handed

\* At the end of a stream that the client could be written to, nothing is missing.
LEMMA StreamWhole ==
  ASSUME TypeOK, SentInv, GotInv, EventInv, kind = "sse", ~writeErr, readErr # "too_long",
         pc \in {"closing", "failed"}, body = <<>>
  PROVE  \/ reply.items = ItemsOf(Handed)
         \/ /\ Handed # <<>> /\ LastOf(Handed)[2] = 1
            /\ reply.items = ItemsOf(Append(Handed, <<LastOf(Handed)[1], 2>>))
  <1>1. PICK m \in Nat : Heard(m) /\ Events3(m)
    BY DEF EventInv
  <1>2. Processed = up.taken
    BY DEF GotInv, Processed
  <1>3. \A i \in 1..m : 2 * i - 1 \in 1..(2 * m)
    OBVIOUS
  <1>4. CASE up.taken = 2 * m /\ Len(reply.items) = m
    <2>1. \A i \in 1..m : reply.items[i] = <<Handed[2 * i - 1][1], TRUE>>
      BY <1>1, <1>3, <1>4, HandedFacts DEF Heard
    <2>2. Handed \in Seq(Pieces) /\ Len(Handed) = 2 * m /\ reply.items \in Seq(Item)
      BY <1>4, HandedFacts, SeqFacts
    <2>3. QED
      BY <1>4, <2>1, <2>2, WholeItems
  <1>5. ASSUME up.taken = 2 * m + 1, Len(reply.items) = m + 1, NEW whole \in BOOLEAN,
               reply.items[m + 1] = <<up.sent[2 * m + 1][1], whole>>
        PROVE  \/ reply.items = ItemsOf(Handed)
               \/ /\ Handed # <<>> /\ LastOf(Handed)[2] = 1
                  /\ reply.items = ItemsOf(Append(Handed, <<LastOf(Handed)[1], 2>>))
    <2>1. /\ \A i \in 1..m : reply.items[i] = <<Handed[2 * i - 1][1], TRUE>>
          /\ 2 * m + 1 \in 1..up.taken /\ Handed[2 * m + 1] = up.sent[2 * m + 1]
      <3>1. \A i \in 1..m : 2 * i - 1 \in 1..up.taken
        BY <1>5
      <3>2. \A i \in 1..up.taken : Handed[i] = up.sent[i]
        BY HandedFacts
      <3>3. \A i \in 1..m : reply.items[i] = <<Handed[2 * i - 1][1], TRUE>>
        BY <1>1, <3>1, <3>2 DEF Heard
      <3>4. 2 * m + 1 \in 1..up.taken
        BY <1>5
      <3>5. QED
        BY <3>2, <3>3, <3>4
    <2>2. CASE whole = FALSE
      <3>1. Handed \in Seq(Pieces) /\ Len(Handed) = 2 * m + 1 /\ reply.items \in Seq(Item)
        BY <1>5, HandedFacts, SeqFacts
      <3>2. QED
        BY <1>5, <2>1, <2>2, <3>1, CutItems
    <2>3. CASE whole = TRUE
      <3> DEFINE p == Append(Handed, <<LastOf(Handed)[1], 2>>)
      <3>1. /\ Handed # <<>> /\ LastOf(Handed) = up.sent[2 * m + 1]
            /\ LastOf(Handed) \in Pieces
        BY <1>5, <2>1, HandedFacts, SeqFacts DEF LastOf
      <3>2. LastOf(Handed)[2] = 1
        BY <1>5, <3>1, SeqFacts DEF SentInv
      <3>3. <<LastOf(Handed)[1], 2>> \in Pieces
        BY <3>1, SeqFacts DEF Pieces, Halves
      <3>4. /\ p \in Seq(Pieces) /\ Len(p) = 2 * (m + 1)
            /\ \A i \in 1..up.taken : p[i] = Handed[i]
        BY <1>5, <3>3, HandedFacts
      <3> HIDE DEF p
      <3>5. ASSUME NEW i \in 1..(m + 1) PROVE reply.items[i] = <<p[2 * i - 1][1], TRUE>>
        <4>1. 2 * i - 1 \in 1..up.taken
          BY <1>5
        <4>2. p[2 * i - 1] = Handed[2 * i - 1]
          BY <3>4, <4>1
        <4>3. CASE i \in 1..m
          BY <2>1, <4>2, <4>3
        <4>4. CASE i = m + 1
          <5>1. 2 * i - 1 = 2 * m + 1
            BY <4>4
          <5>2. QED
            BY <1>5, <2>1, <2>3, <4>2, <4>4, <5>1
        <4>5. i \in 1..m \/ i = m + 1
          OBVIOUS
        <4>6. QED
          BY <4>3, <4>4, <4>5
      <3>6. reply.items \in Seq(Item) /\ m + 1 \in Nat /\ Len(reply.items) = m + 1
        BY <1>5, SeqFacts
      <3>7. reply.items = ItemsOf(p)
        BY <3>4, <3>5, <3>6, WholeItems
      <3>8. QED
        BY <3>1, <3>2, <3>7 DEF p
    <2>4. QED
      BY <2>2, <2>3
  <1>6. \/ up.taken = 2 * m /\ Len(reply.items) = m
        \/ /\ up.taken = 2 * m + 1 /\ Len(reply.items) = m + 1
           /\ \E whole \in BOOLEAN : reply.items[m + 1] = <<up.sent[2 * m + 1][1], whole>>
    <2>1. body # <<up.sent[2 * m + 1]>>
      OBVIOUS
    <2>2. QED
      BY <1>1, <1>2, <2>1 DEF Events3
  <1>7. QED
    BY <1>4, <1>5, <1>6

\* A step that only moves the handler on keeps all of it.
LEMMA LossFrame ==
  ASSUME LossInv, UNCHANGED <<kind, got, body, reply, writeErr>>,
         up'.sent = up.sent /\ up'.taken = up.taken,
         \/ UNCHANGED <<pc, readErr>>
         \/ /\ pc \in {"opening", "gunzip", "reading"}
            /\ pc' \in {"gunzip", "reading", "armed", "closing", "failed"}
            /\ readErr' # "too_long"
            /\ (pc' \in {"gunzip", "reading", "armed"} => readErr' = readErr)
            /\ (pc' \in {"gunzip", "failed"} => body = <<>>)
         \/ pc = "closing" /\ pc' = "failed" /\ readErr' = readErr /\ (kind = "sse" => body = <<>>)
  PROVE  LossInv'
  <1>1. SentInv' /\ FreshInv'
    BY DEF LossInv, SentInv, FreshInv
  <1>2. GotInv' /\ DocumentInv'
    BY DEF LossInv, GotInv, DocumentInv, Processed
  <1>3. NothingLost'
    BY DEF LossInv, NothingLost, Handed
  <1>4. EventInv'
    BY DEF LossInv, EventInv, FreshInv, Heard, Events3, Processed
  <1>5. QED
    BY <1>1, <1>2, <1>3, <1>4 DEF LossInv

\* The upstream appends, and moves nothing that was processed.
LEMMA LossSends ==
  ASSUME TypeOK, LossInv, UpstreamSends PROVE LossInv'
  <1>0. PICK p \in NextPieces : up' = [up EXCEPT !.sent = Append(@, p)]
    BY DEF UpstreamSends
  <1>1. /\ kind # "none" /\ pc # "done"
        /\ UNCHANGED <<pc, kind, got, body, readErr, writeErr, reply>>
    BY DEF UpstreamSends
  <1>2. /\ up'.sent = Append(up.sent, p) /\ up'.taken = up.taken
        /\ Len(up'.sent) = Len(up.sent) + 1 /\ up'.sent[Len(up.sent) + 1] = p
        /\ \A i \in 1..Len(up.sent) : up'.sent[i] = up.sent[i]
    BY <1>0, SeqFacts DEF UpRecord
  <1>10. Len(up.sent) \in Nat
    BY SeqFacts
  <1>3. SentInv'
    <2>1. CASE up.sent # <<>> /\ LastOf(up.sent)[2] = 1
      <3>1. p = <<LastOf(up.sent)[1], 2>>
        BY <2>1 DEF NextPieces
      <3>2. PICK j \in Nat : Len(up.sent) = 2 * j + 1
        <4>1. \A n \in Nat : n > 0 => \E j \in Nat : n = 2 * j + 1 \/ n = 2 * j + 2
          <5>1. ASSUME NEW n \in Nat, n > 0 PROVE \E j \in Nat : n = 2 * j + 1 \/ n = 2 * j + 2
            <6>1. (n - 1) \div 2 \in Nat
              BY <5>1
            <6>2. n = 2 * ((n - 1) \div 2) + 1 \/ n = 2 * ((n - 1) \div 2) + 2
              BY <5>1
            <6>3. QED
              BY <6>1, <6>2
          <5>2. QED
            BY <5>1
        <4>2. Len(up.sent) > 0
          BY <2>1, SeqFacts
        <4>3. \A k \in Nat : Len(up.sent) # 2 * k + 2
          BY <2>1 DEF LossInv, SentInv, LastOf
        <4>4. QED
          BY <1>10, <4>1, <4>2, <4>3
      <3>3. up'.sent[2 * j + 2] = p /\ p[2] = 2 /\ p[1] = up.sent[2 * j + 1][1]
        BY <1>2, <3>1, <3>2 DEF LastOf
      <3>4. ASSUME NEW i \in Nat, 2 * i + 1 <= Len(up'.sent) PROVE up'.sent[2 * i + 1][2] = 1
        <4>1. 2 * i + 1 \in 1..Len(up.sent)
          BY <1>2, <3>2, <3>4
        <4>2. QED
          BY <1>2, <4>1 DEF LossInv, SentInv
      <3>5. ASSUME NEW i \in Nat, 2 * i + 2 <= Len(up'.sent)
            PROVE  up'.sent[2 * i + 2][2] = 2 /\ up'.sent[2 * i + 2][1] = up'.sent[2 * i + 1][1]
        <4>1. 2 * i + 1 \in 1..Len(up.sent) /\ up'.sent[2 * i + 1] = up.sent[2 * i + 1]
          BY <1>2, <1>10, <3>2, <3>5
        <4>2. CASE i = j
          BY <3>3, <4>1, <4>2
        <4>3. CASE i # j
          <5>1. 2 * i + 2 \in 1..Len(up.sent)
            BY <1>2, <3>2, <3>5, <4>3
          <5>2. up.sent[2 * i + 2][2] = 2 /\ up.sent[2 * i + 2][1] = up.sent[2 * i + 1][1]
            <6>1. 2 * i + 2 <= Len(up.sent)
              BY <5>1
            <6>2. QED
              BY <6>1 DEF LossInv, SentInv
          <5>3. up'.sent[2 * i + 2] = up.sent[2 * i + 2]
            BY <1>2, <5>1
          <5>4. QED
            BY <4>1, <5>2, <5>3
        <4>4. QED
          BY <4>2, <4>3
      <3>6. QED
        BY <3>4, <3>5 DEF SentInv
    <2>2. CASE ~(up.sent # <<>> /\ LastOf(up.sent)[2] = 1)
      <3>1. p[2] = 1
        BY <2>2 DEF NextPieces
      <3>2. \A i \in Nat : Len(up.sent) # 2 * i + 1
        BY <2>2, SeqFacts DEF LossInv, SentInv, LastOf
      <3>3. ASSUME NEW i \in Nat, 2 * i + 1 <= Len(up'.sent) PROVE up'.sent[2 * i + 1][2] = 1
        <4>1. CASE 2 * i + 1 = Len(up.sent) + 1
          BY <1>2, <3>1, <4>1
        <4>2. CASE 2 * i + 1 # Len(up.sent) + 1
          <5>1. 2 * i + 1 \in 1..Len(up.sent)
            BY <1>2, <1>10, <3>3, <4>2
          <5>2. QED
            BY <1>2, <5>1 DEF LossInv, SentInv
        <4>3. QED
          BY <4>1, <4>2
      <3>4. ASSUME NEW i \in Nat, 2 * i + 2 <= Len(up'.sent)
            PROVE  up'.sent[2 * i + 2][2] = 2 /\ up'.sent[2 * i + 2][1] = up'.sent[2 * i + 1][1]
        <4>1. 2 * i + 2 \in 1..Len(up.sent) /\ 2 * i + 1 \in 1..Len(up.sent)
          <5>1. 2 * i + 2 # Len(up.sent) + 1
            BY <1>10, <3>2
          <5>2. QED
            BY <1>2, <1>10, <3>4, <5>1
        <4>2. QED
          BY <1>2, <4>1 DEF LossInv, SentInv
      <3>5. QED
        BY <3>3, <3>4 DEF SentInv
    <2>3. QED
      BY <2>1, <2>2
  <1>4. Processed' = Processed /\ Processed <= Len(up.sent)
    BY <1>1, <1>2, SeqFacts DEF Processed
  <1>5. GotInv' /\ FreshInv'
    BY <1>1, <1>2, SeqFacts DEF LossInv, GotInv, FreshInv
  <1>6. NothingLost'
    BY <1>1 DEF NothingLost
  <1>7. EventInv'
    <2> SUFFICES ASSUME kind = "sse", ~writeErr, readErr # "too_long"
                 PROVE  \E m \in Nat : Heard(m)' /\ Events3(m)'
      BY <1>1 DEF EventInv
    <2>1. PICK m \in Nat : Heard(m) /\ Events3(m)
      BY <1>1 DEF LossInv, EventInv
    <2>2. 2 * m <= Processed
      BY <2>1 DEF Events3
    <2>3. \A i \in 1..m : 2 * i - 1 \in 1..Len(up.sent)
      BY <1>4, <2>2, SeqFacts DEF Processed
    <2>4. Heard(m)'
      BY <1>1, <1>2, <2>1, <2>3 DEF Heard
    <2>5. Processed = 2 * m + 1 => up'.sent[2 * m + 1] = up.sent[2 * m + 1]
      BY <1>2, <1>4, SeqFacts
    <2>6. Events3(m)'
      BY <1>1, <1>4, <2>1, <2>5 DEF Events3
    <2>7. QED
      BY <2>4, <2>6
  <1>8. DocumentInv'
    <2> SUFFICES ASSUME kind \in {"json", "non2xx"}
                 PROVE  /\ Len(up'.sent) <= 2 /\ Len(body) = Processed
                        /\ \A i \in 1..Processed : body[i] = up'.sent[i]
      BY <1>1, <1>4 DEF DocumentInv
    <2>1. /\ Len(up.sent) <= 2 /\ Len(body) = Processed
          /\ \A i \in 1..Processed : body[i] = up.sent[i]
      BY <1>1 DEF LossInv, DocumentInv
    <2>2. Len(up.sent) < 2
      <3>1. CASE up.sent # <<>> /\ LastOf(up.sent)[2] = 1
        <4>1. Len(up.sent) # 2
          <5>1. SUFFICES ASSUME Len(up.sent) = 2 PROVE FALSE
            OBVIOUS
          <5>2. 2 * 0 + 2 <= Len(up.sent) /\ 2 * 0 + 2 = 2 /\ 0 \in Nat
            BY <5>1
          <5>3. up.sent[2][2] = 2
            BY <5>2 DEF LossInv, SentInv
          <5>4. QED
            BY <3>1, <5>1, <5>3 DEF LastOf
        <4>2. QED
          BY <2>1, <4>1, SeqFacts
      <3>2. CASE ~(up.sent # <<>> /\ LastOf(up.sent)[2] = 1)
        <4>1. Len(up.sent) < 2 * 1
          BY <3>2 DEF NextPieces
        <4>2. QED
          BY <4>1, SeqFacts
      <3>3. QED
        BY <3>1, <3>2
    <2>3. \A i \in 1..Processed : up'.sent[i] = up.sent[i]
      BY <1>2, <1>4, SeqFacts DEF Processed
    <2>4. Len(up'.sent) <= 2
      BY <1>2, <1>10, <2>2
    <2>5. QED
      BY <2>1, <2>3, <2>4
  <1>9. QED
    BY <1>3, <1>5, <1>6, <1>7, <1>8 DEF LossInv

\* A Read hands over the next piece, which is not processed yet, or none.
LEMMA LossReturns ==
  ASSUME TypeOK, LossInv, ConnectionReturns PROVE LossInv'
  <1>1. /\ pc = "armed" /\ pc' = "returned" /\ got.piece = Nothing
        /\ UNCHANGED <<kind, body, readErr, writeErr, reply>>
    BY DEF ConnectionReturns, LossInv, GotInv
  <1>2. /\ up'.sent = up.sent
        /\ \/ up'.taken = up.taken /\ got'.piece = Nothing
           \/ /\ up'.taken = up.taken + 1 /\ got'.piece = up.sent[up'.taken]
              /\ got'.piece # Nothing
    <2>1. up \in UpRecord /\ up.taken \in Nat /\ Len(up.sent) \in Nat /\ up.taken <= Len(up.sent)
      BY SeqFacts
    <2>2. Unread => up.sent[up.taken + 1] \in Pieces /\ up.sent[up.taken + 1] # Nothing
      BY SeqFacts DEF Unread
    <2>3. CASE /\ Unread /\ up' = [up EXCEPT !.taken = @ + 1]
               /\ got' = [piece |-> up.sent[up.taken + 1], err |-> "none"]
      BY <2>1, <2>2, <2>3 DEF UpRecord
    <2>4. CASE /\ Len(up.sent) <= up.taken + 1 /\ up' = [up EXCEPT !.taken = Len(up.sent)]
               /\ got' = [piece |-> IF Unread THEN up.sent[up.taken + 1] ELSE Nothing, err |-> "eof"]
      <3>1. up'.sent = up.sent /\ up'.taken = Len(up.sent)
        BY <2>1, <2>4 DEF UpRecord
      <3>2. CASE Unread
        BY <2>1, <2>2, <2>4, <3>1, <3>2 DEF Unread
      <3>3. CASE ~Unread
        BY <2>1, <2>4, <3>1, <3>3 DEF Unread
      <3>4. QED
        BY <3>2, <3>3
    <2>5. CASE got' = [piece |-> Nothing, err |-> "broken"] /\ up' = up
      BY <2>5
    <2>6. QED
      BY <2>3, <2>4, <2>5 DEF ConnectionReturns
  <1>3. Processed' = Processed
    BY <1>1, <1>2, SeqFacts DEF Processed
  <1>4. SentInv' /\ FreshInv' /\ GotInv'
    BY <1>1, <1>2, SeqFacts DEF LossInv, SentInv, FreshInv, GotInv
  <1>5. EventInv'
    <2>1. \A m : (Heard(m) <=> Heard(m)') /\ (Events3(m) => Events3(m)')
      BY <1>1, <1>2, <1>3 DEF Heard, Events3
    <2>2. QED
      BY <1>1, <2>1 DEF LossInv, EventInv
  <1>6. DocumentInv' /\ NothingLost'
    BY <1>1, <1>2, <1>3 DEF LossInv, DocumentInv, NothingLost
  <1>7. QED
    BY <1>4, <1>5, <1>6 DEF LossInv

\* Before the body there is nothing to lose.
LEMMA LossCalling ==
  ASSUME TypeOK, StreamInv, LossInv, Calling PROVE LossInv'
  <1>1. /\ kind = "none" /\ up.sent = <<>> /\ up.taken = 0 /\ got.piece = Nothing /\ body = <<>>
        /\ reply.items = <<>> /\ reply.status = 0 /\ reply.by = "none" /\ readErr = "none"
        /\ pc \in {"inbound", "calling"}
    BY DEF Calling, RefuseInbound, Call, RequestWritten, CallFails, HeaderArrives, LossInv, FreshInv,
       StreamInv, BeginInv, Committed
  <1>2. UNCHANGED <<up, got, body>>
    BY DEF Calling, RefuseInbound, Call, RequestWritten, CallFails, HeaderArrives
  <1>3. SentInv' /\ GotInv'
    BY <1>1, <1>2 DEF LossInv, SentInv, GotInv
  <1>4. CASE RefuseInbound \/ CallFails
    <2>1. /\ pc' = "done" /\ kind' = kind /\ reply'.by # "upstream" /\ reply'.items = <<>>
          /\ reply'.status = 0 => reply'.by = "none"
      BY <1>1, <1>4 DEF RefuseInbound, CallFails, Written, Answer, Committed, GatewayStatus
    <2>2. QED
      BY <1>1, <1>2, <1>3, <2>1 DEF LossInv, FreshInv, EventInv, DocumentInv, NothingLost
  <1>5. CASE Call \/ RequestWritten
    <2>1. pc' = "calling" /\ UNCHANGED <<kind, reply, readErr, writeErr>>
      BY <1>5 DEF Call, RequestWritten
    <2>2. QED
      BY <1>1, <1>2, <1>3, <2>1 DEF LossInv, FreshInv, EventInv, DocumentInv, NothingLost
  <1>6. CASE HeaderArrives
    <2>1. pc' = "opening" /\ kind' \in Kinds /\ UNCHANGED <<reply, readErr, writeErr>>
      BY <1>6 DEF HeaderArrives
    <2>2. Processed' = 0 /\ Len(up'.sent) = 0 /\ Len(body') = 0 /\ Len(reply'.items) = 0
      BY <1>1, <1>2, <2>1 DEF Processed
    <2>3. EventInv'
      <3>1. Heard(0)' /\ Events3(0)'
        BY <1>1, <1>2, <2>1, <2>2 DEF Heard, Events3
      <3>2. QED
        BY <3>1 DEF EventInv
    <2>4. DocumentInv'
      BY <2>2 DEF DocumentInv
    <2>5. FreshInv' /\ NothingLost'
      BY <1>1, <1>2, <2>1 DEF FreshInv, NothingLost, Kinds
    <2>6. QED
      BY <1>3, <2>3, <2>4, <2>5 DEF LossInv
  <1>7. QED
    BY <1>4, <1>5, <1>6 DEF Calling

\* A flushed event is appended, unless the client can no longer be written to.
LEMMA FlushAppends ==
  ASSUME TypeOK, NEW event \in Events \cup Documents, NEW whole \in BOOLEAN,
         FlushEvent(event, whole), ~writeErr'
  PROVE  /\ ~writeErr
         /\ reply'.items = Append(reply.items, <<event, whole>>)
         /\ Len(reply'.items) = Len(reply.items) + 1
         /\ reply'.items[Len(reply.items) + 1] = <<event, whole>>
         /\ \A i \in 1..Len(reply.items) : reply'.items[i] = reply.items[i]
  <1>1. ~writeErr /\ reply'.items = Append(reply.items, <<event, whole>>)
    BY DEF FlushEvent, Written
  <1>2. <<event, whole>> \in Item
    BY DEF Item
  <1>3. QED
    BY <1>1, <1>2, SeqFacts

\* The reader processes the piece that was handed over last.
LEMMA LossFinish ==
  ASSUME TypeOK, LossInv, FinishRead PROVE LossInv'
  <1>1. /\ pc = "returned" /\ pc' = IF readErr' = "none" THEN "reading" ELSE "closing"
        /\ Take(ReadResult) /\ got'.piece = Nothing /\ UNCHANGED <<kind, up>>
        /\ kind # "none" /\ readErr = "none"
    BY DEF FinishRead, LossInv, FreshInv
  <1>2. ReadResult.piece = got.piece
    <2>1. got \in GotRecord
      BY TypeFacts
    <2>2. QED
      BY <2>1 DEF ReadResult, GotRecord
  <1>3. Processed' = up.taken
    BY <1>1 DEF Processed
  <1>4. SentInv' /\ GotInv'
    BY <1>1 DEF LossInv, SentInv, GotInv
  <1>5. FreshInv'
    <2>1. ReadResult.piece \in Pieces \cup {Nothing}
      BY ResultFacts
    <2>2. reply' = reply \/ reply'.status = 200
      BY <1>1, <2>1, TakeFacts
    <2>3. QED
      BY <1>1, <2>2 DEF LossInv, FreshInv
  <1>6. NothingLost'
    BY <1>1 DEF NothingLost
  <1>7. CASE got.piece = Nothing \/ readErr' = "too_long"
    <2>1. UNCHANGED <<body, reply, writeErr>>
      BY <1>1, <1>2, <1>7 DEF Take
    <2>2. CASE got.piece = Nothing
      <3>1. Processed' = Processed
        BY <1>3, <2>2 DEF Processed
      <3>2. DocumentInv'
        BY <1>1, <2>1, <3>1 DEF LossInv, DocumentInv
      <3>3. \A m : (Heard(m) <=> Heard(m)') /\ (Events3(m) => Events3(m)')
        BY <1>1, <2>1, <3>1 DEF Heard, Events3
      <3>4. EventInv'
        BY <1>1, <2>1, <3>3 DEF LossInv, EventInv
      <3>5. QED
        BY <1>4, <1>5, <1>6, <3>2, <3>4 DEF LossInv
    <2>3. CASE got.piece # Nothing
      <3>1. readErr' = "too_long" /\ kind = "sse"
        BY <1>2, <1>7, <2>3, ResultFacts DEF FinishRead, ReaderErrors
      <3>2. QED
        BY <1>1, <1>4, <1>5, <1>6, <3>1 DEF LossInv, EventInv, DocumentInv
    <2>4. QED
      BY <2>2, <2>3
  <1>8. CASE got.piece # Nothing /\ readErr' # "too_long"
    <2>1. /\ up.taken > 0 /\ got.piece = up.sent[up.taken] /\ Processed = up.taken - 1
          /\ got.piece \in Pieces
      BY <1>8, SeqFacts DEF LossInv, GotInv, Processed
    <2>2. CASE kind # "sse"
      <3>1. kind \in {"json", "non2xx"}
        BY <1>1, <2>2, TypeFacts DEF Kinds
      <3>2. body' = Append(body, got.piece) /\ UNCHANGED <<reply, writeErr>>
        BY <1>1, <1>2, <1>8, <2>2 DEF Take
      <3>3. /\ Len(up.sent) <= 2 /\ Len(body) = up.taken - 1
            /\ \A i \in 1..(up.taken - 1) : body[i] = up.sent[i]
        BY <1>1, <2>1, <3>1 DEF LossInv, DocumentInv
      <3>4. Len(body') = up.taken /\ \A i \in 1..up.taken : body'[i] = up.sent[i]
        BY <2>1, <3>2, <3>3, SeqFacts
      <3>5. DocumentInv' /\ EventInv'
        BY <1>1, <1>3, <2>2, <3>3, <3>4 DEF DocumentInv, EventInv
      <3>6. QED
        BY <1>4, <1>5, <1>6, <3>5 DEF LossInv
    <2>3. CASE kind = "sse"
      <3>1. DocumentInv'
        BY <1>1, <2>3 DEF DocumentInv
      <3>2. ASSUME ~writeErr' PROVE \E m \in Nat : Heard(m)' /\ Events3(m)'
        <4>1. ~writeErr
          <5>1. <<got.piece[1], TRUE>> \in Item /\ got.piece[1] \in Events \cup Documents
            BY <2>1, SeqFacts DEF Item
          <5>2. writeErr' = writeErr \/ FlushEvent(got.piece[1], TRUE)
            BY <1>1, <1>2, <1>8, <2>3 DEF Take
          <5>3. QED
            BY <3>2, <5>1, <5>2, FlushAppends
        <4>2. PICK m \in Nat : Heard(m) /\ Events3(m)
          BY <1>1, <2>3, <4>1 DEF LossInv, EventInv
        <4>3. CASE Processed = 2 * m
          <5>1. /\ body = <<>> /\ Len(reply.items) = m /\ up.taken = 2 * m + 1
                /\ up.sent[2 * m + 1] = got.piece
            BY <2>1, <4>2, <4>3, SeqFacts DEF Events3
          <5>2. got.piece[2] = 1
            BY <5>1, SeqFacts DEF LossInv, SentInv
          <5>3. body' = <<up.sent[2 * m + 1]>> /\ UNCHANGED reply
            BY <1>1, <1>2, <1>8, <5>1, <5>2 DEF Take
          <5>4. Heard(m)' /\ Events3(m)'
            BY <1>1, <1>3, <4>2, <5>1, <5>3 DEF Heard, Events3
          <5>5. QED
            BY <5>4
        <4>4. CASE Processed = 2 * m + 1
          <5>1. /\ body # <<>> /\ Len(reply.items) = m /\ up.taken = 2 * m + 2
                /\ up.sent[2 * m + 2] = got.piece
            <6>0. up.taken \in Nat
              BY SeqFacts
            <6>1. up.taken = 2 * m + 2
              <7>1. up.taken - 1 = 2 * m + 1
                BY <2>1, <4>4
              <7>2. QED
                BY <6>0, <7>1
            <6>2. pc \notin {"closing", "failed"} /\ Processed # 2 * m
              BY <1>1, <4>4
            <6>3. body = <<up.sent[2 * m + 1]>> /\ Len(reply.items) = m
              BY <4>2, <6>2 DEF Events3
            <6>4. QED
              BY <2>1, <6>1, <6>3
          <5>2. got.piece[2] = 2 /\ got.piece[1] = up.sent[2 * m + 1][1]
            BY <5>1, SeqFacts DEF LossInv, SentInv
          <5>3. body' = <<>> /\ FlushEvent(got.piece[1], TRUE)
            BY <1>1, <1>2, <1>8, <2>3, <5>2 DEF Take
          <5>4. /\ Len(reply'.items) = m + 1
                /\ reply'.items[m + 1] = <<up.sent[2 * m + 1][1], TRUE>>
                /\ \A i \in 1..m : reply'.items[i] = reply.items[i]
            BY <2>1, <3>2, <5>1, <5>2, <5>3, SeqFacts, FlushAppends
          <5>5. ASSUME NEW i \in 1..(m + 1)
                PROVE  reply'.items[i] = <<up'.sent[2 * i - 1][1], TRUE>>
            <6>1. CASE i \in 1..m
              BY <1>1, <4>2, <5>4, <6>1 DEF Heard
            <6>2. CASE i = m + 1
              <7>1. 2 * i - 1 = 2 * m + 1
                BY <6>2
              <7>2. QED
                BY <1>1, <5>4, <6>2, <7>1
            <6>3. i \in 1..m \/ i = m + 1
              OBVIOUS
            <6>4. QED
              BY <6>1, <6>2, <6>3
          <5>6. Processed' = 2 * (m + 1) /\ m + 1 \in Nat
            BY <1>3, <5>1
          <5>7. Heard(m + 1)' /\ Events3(m + 1)'
            BY <5>3, <5>4, <5>5, <5>6 DEF Heard, Events3
          <5>8. QED
            BY <5>6, <5>7
        <4>5. QED
          BY <4>2, <4>3, <4>4 DEF Events3
      <3>3. EventInv'
        BY <3>2 DEF EventInv
      <3>4. QED
        BY <1>4, <1>5, <1>6, <3>1, <3>3 DEF LossInv
    <2>4. QED
      BY <2>2, <2>3
  <1>9. QED
    BY <1>7, <1>8

\* An event that the end of the stream cut is heard, too.
LEMMA LossRest ==
  ASSUME TypeOK, LossInv, FlushRest PROVE LossInv'
  <1>1. /\ pc = "closing" /\ kind = "sse" /\ body # <<>> /\ body' = <<>>
        /\ UNCHANGED <<pc, kind, up, got, readErr>>
    BY DEF FlushRest
  <1>2. PICK whole \in BOOLEAN : FlushEvent(Head(body)[1], whole)
    BY DEF FlushRest
  <1>3. Head(body) \in Pieces /\ Head(body)[1] \in Events \cup Documents
    BY <1>1, SeqFacts
  <1>4. Processed' = Processed
    BY <1>1 DEF Processed
  <1>5. SentInv' /\ GotInv' /\ DocumentInv' /\ NothingLost'
    BY <1>1 DEF LossInv, SentInv, GotInv, DocumentInv, NothingLost
  <1>6. FreshInv'
    <2>1. reply' = reply \/ reply'.status = 200
      BY <1>2, <1>3, FlushFacts
    <2>2. QED
      BY <1>1, <2>1 DEF LossInv, FreshInv
  <1>7. ASSUME ~writeErr', readErr # "too_long" PROVE \E m \in Nat : Heard(m)' /\ Events3(m)'
    <2>1. ~writeErr
      BY <1>2, <1>3, <1>7, FlushAppends
    <2>2. PICK m \in Nat : Heard(m) /\ Events3(m)
      BY <1>1, <1>7, <2>1 DEF LossInv, EventInv
    <2>3. /\ body = <<up.sent[2 * m + 1]>> /\ Processed = 2 * m + 1 /\ Len(reply.items) = m
      BY <1>1, <2>2 DEF Events3
    <2>4. Head(body) = up.sent[2 * m + 1]
      BY <2>3
    <2>5. /\ Len(reply'.items) = m + 1
          /\ reply'.items[m + 1] = <<up.sent[2 * m + 1][1], whole>>
          /\ \A i \in 1..m : reply'.items[i] = reply.items[i]
      BY <1>2, <1>3, <1>7, <2>3, <2>4, FlushAppends
    <2>6. Heard(m)' /\ Events3(m)'
      BY <1>1, <1>4, <2>2, <2>3, <2>5 DEF Heard, Events3
    <2>7. QED
      BY <2>6
  <1>8. EventInv'
    BY <1>1, <1>7 DEF EventInv
  <1>9. QED
    BY <1>5, <1>6, <1>8 DEF LossInv

\* The handler ends with all that was handed over.
LEMMA LossEnding ==
  ASSUME TypeOK, StreamInv, LossInv, Ending PROVE LossInv'
  <1>1. CASE StreamFails \/ StreamUnheard \/ DocumentFails
    <2>1. /\ pc = "closing" /\ pc' = "failed" /\ (kind = "sse" => body = <<>>)
          /\ UNCHANGED <<kind, up, got, body, reply, writeErr, readErr>>
      BY <1>1 DEF StreamFails, StreamUnheard, DocumentFails
    <2>2. QED
      BY <2>1, LossFrame
  <1>2. ASSUME StreamSucceeds \/ JSONAnswered \/ Non2xxAnswered \/ Fail PROVE LossInv'
    <2>1. /\ pc \in {"closing", "failed"} /\ pc' = "done"
          /\ UNCHANGED <<kind, up, got, body, readErr>>
      BY <1>2 DEF StreamSucceeds, JSONAnswered, Non2xxAnswered, Fail
    <2>2. got.piece = Nothing /\ kind # "none" /\ Processed = up.taken
      BY <2>1 DEF LossInv, GotInv, FreshInv, Processed
    <2>3. Handed' = Handed
      BY <2>1 DEF Handed
    <2>4. SentInv' /\ GotInv' /\ EventInv' /\ DocumentInv'
      BY <2>1, <2>2 DEF LossInv, SentInv, GotInv, EventInv, DocumentInv
    <2>5. CASE StreamSucceeds
      <3>1. /\ kind = "sse" /\ body = <<>> /\ readErr = "eof" /\ ~writeErr
            /\ pc = "closing"
            /\ reply' = IF Committed THEN reply ELSE Written(200, "upstream", <<>>, "none")
        BY <2>5 DEF StreamSucceeds
      <3>2. reply'.items = reply.items /\ reply'.status # 0
        BY <3>1 DEF LossInv, FreshInv, Committed, Written
      <3>3. NothingLost'
        BY <2>3, <3>1, <3>2, StreamWhole DEF LossInv, NothingLost
      <3>4. FreshInv'
        BY <2>1, <2>2, <3>2 DEF FreshInv
      <3>5. QED
        BY <2>4, <3>3, <3>4 DEF LossInv
    <2>6. CASE JSONAnswered \/ Non2xxAnswered
      <3>1. /\ kind \in {"json", "non2xx"} /\ reply'.status # 0
            /\ reply'.items = Whole(body) \/ writeErr'
        <4>1. CASE JSONAnswered
          <5>1. PICK written \in BOOLEAN :
                  /\ \E length : reply' = Written(200, "upstream", IF written THEN Whole(body) ELSE <<>>, length)
                  /\ writeErr' = ~written
            BY <4>1 DEF JSONAnswered
          <5>2. kind = "json" /\ reply'.status # 0
            BY <4>1, <5>1 DEF JSONAnswered, Written
          <5>3. written => reply'.items = Whole(body)
            BY <5>1 DEF Written
          <5>4. QED
            BY <5>1, <5>2, <5>3
        <4>2. CASE Non2xxAnswered
          BY <4>2 DEF Non2xxAnswered, Written
        <4>3. QED
          BY <2>6, <4>1, <4>2
      <3>2. Whole(body) = ItemsOf(Handed)
        <4>1. /\ Len(up.sent) <= 2 /\ Len(body) = up.taken
              /\ \A i \in 1..up.taken : body[i] = up.sent[i]
          BY <2>1, <2>2, <3>1 DEF LossInv, DocumentInv
        <4>2. QED
          BY <4>1, SeqFacts, HandedFacts, WholeFacts
      <3>3. NothingLost'
        BY <2>3, <3>1, <3>2 DEF NothingLost
      <3>4. FreshInv'
        BY <2>1, <2>2, <3>1 DEF FreshInv
      <3>5. QED
        BY <2>4, <3>3, <3>4 DEF LossInv
    <2>7. CASE Fail
      <3>1. pc = "failed" /\ reply' = Answer(Classify(readErr)) /\ writeErr' = writeErr
        BY <2>7 DEF Fail
      <3>2. FreshInv'
        BY <2>1, <2>2, <3>1 DEF LossInv, FreshInv, Answer, Written, GatewayStatus, Committed
      <3>3. NothingLost'
        <4>1. CASE Committed
          <5>1. kind = "sse" /\ body = <<>> /\ reply' = reply
            BY <3>1, <4>1 DEF StreamInv, BeginInv, LossInv, FreshInv, Answer
          <5>2. QED
            BY <2>1, <2>3, <3>1, <5>1, StreamWhole DEF LossInv, NothingLost
        <4>2. CASE ~Committed
          <5>1. reply'.by # "upstream"
            BY <3>1, <4>2 DEF Answer, Committed, Written, LossInv, FreshInv
          <5>2. QED
            BY <5>1 DEF NothingLost
        <4>3. QED
          BY <4>1, <4>2
      <3>4. QED
        BY <2>4, <3>2, <3>3 DEF LossInv
    <2>8. QED
      BY <1>2, <2>5, <2>6, <2>7
  <1>3. QED
    BY <1>1, <1>2 DEF Ending

\* Every step keeps it.
LEMMA LossStep == TypeOK /\ StreamInv /\ LossInv /\ [Next]_vars => LossInv'
  <1> SUFFICES ASSUME TypeOK, StreamInv, LossInv, [Next]_vars PROVE LossInv'
    OBVIOUS
  <1>1. CASE UNCHANGED vars \/ HardLimitFires \/ ClientLeaves \/ BranchChanges \/ IdleTimerFires
    <2>1. UNCHANGED <<pc, kind, up, got, body, readErr, writeErr, reply>>
      BY <1>1 DEF vars, HardLimitFires, ClientLeaves, BranchChanges, IdleTimerFires
    <2>2. QED
      BY <2>1, LossFrame
  <1>2. CASE UpstreamEnds
    <2>1. UNCHANGED <<pc, kind, got, body, readErr, writeErr, reply>>
      BY <1>2 DEF UpstreamEnds
    <2>2. up'.sent = up.sent /\ up'.taken = up.taken
      BY <1>2, SeqFacts DEF UpstreamEnds, UpRecord
    <2>3. QED
      BY <2>1, <2>2, LossFrame
  <1>3. CASE OpenBody \/ ReadHeader \/ BeginRead \/ ReadTimedOut
    <2>1. /\ UNCHANGED <<kind, up, got, body, writeErr, reply>>
          /\ pc \in {"opening", "gunzip", "reading"}
          /\ pc' \in {"gunzip", "reading", "armed", "closing", "failed"}
          /\ pc' \in {"gunzip", "reading", "armed"} => readErr' = readErr
          /\ readErr' \in {readErr, "broken", "idle"}
      BY <1>3 DEF OpenBody, ReadHeader, BeginRead, ReadTimedOut
    <2>2. readErr' # "too_long"
      BY <2>1 DEF LossInv, FreshInv
    <2>3. pc' \in {"gunzip", "failed"} => body = <<>>
      BY <1>3 DEF OpenBody, ReadHeader, BeginRead, ReadTimedOut, LossInv, FreshInv
    <2>4. QED
      BY <2>1, <2>2, <2>3, LossFrame
  <1>4. QED
    BY <1>1, <1>2, <1>3, LossSends, LossReturns, LossCalling, LossFinish, LossRest, LossEnding
    DEF Next, World, Reading, Finished

\* It holds of every reachable state.
LEMMA LossInvariant == Spec => []LossInv
  <1>1. Init => LossInv
    <2> SUFFICES ASSUME Init PROVE LossInv
      OBVIOUS
    <2>1. /\ pc = "inbound" /\ kind = "none" /\ up.sent = <<>> /\ up.taken = 0
          /\ got.piece = Nothing /\ body = <<>> /\ readErr = "none"
          /\ reply.status = 0 /\ reply.by = "none" /\ reply.items = <<>>
      BY DEF Init
    <2>2. QED
      BY <2>1 DEF LossInv, SentInv, GotInv, FreshInv, EventInv, DocumentInv, NothingLost
  <1>2. QED
    BY <1>1, StreamInvariant, LossStep, PTL DEF Spec

\* What the connection handed over reaches the client in order and without a gap, for
\* bodies of any length (idleTimeoutBody.Read, handleSSE, flushEvent).
THEOREM NothingLostCorrect == Spec => []NothingLost
  <1>1. LossInv => NothingLost
    BY DEF LossInv
  <1>2. QED
    BY <1>1, LossInvariant, PTL
-----------------------------------------------------------------------------
(* Only a whole response calibrates the baseline                           *)

\* What the client was sent when sseBaselineState is fresh, and when it is started.
OnlyOthers(items) == \A i \in 1..Len(items) : items[i][1] = "other"

OneStart(items) ==
  \E start \in 1..Len(items) :
    /\ items[start] = <<"message_start", TRUE>>
    /\ \A i \in 1..Len(items) : i # start => items[i][1] = "other"

\* The state of the baseline says what the events that were heard hold.
Observed(state, items) ==
  /\ state = "fresh" => OnlyOthers(items)
  /\ state = "started" => OneStart(items)
  /\ state = "stopped" => OneLifecycle(items)

\* The baseline follows the events until the handler is done, and only then is there
\* a usage.
UsageInv ==
  /\ pc # "done" => usage = "none"
  /\ pc # "done" /\ ~writeErr => Observed(baseline, reply.items)
  /\ UsageIsOfWhole

\* An event that is observed as it is heard.
LEMMA ObserveFacts ==
  ASSUME NEW state \in {"fresh", "started", "stopped", "invalid"}, NEW items \in Seq(Item),
         NEW event \in Events \cup Documents, NEW whole \in BOOLEAN, Observed(state, items)
  PROVE  Observed(Observe(state, event, whole), Append(items, <<event, whole>>))
  <1> DEFINE n == Len(items)
             more == Append(items, <<event, whole>>)
  <1>1. <<event, whole>> \in Item
    BY DEF Item
  <1>2. /\ n \in Nat /\ Len(more) = n + 1 /\ more[n + 1] = <<event, whole>>
        /\ \A i \in 1..n : more[i] = items[i]
        /\ 1..Len(more) = (1..n) \cup {n + 1}
    BY <1>1
  <1> HIDE DEF more, n
  <1>3. CASE event = "other"
    <2>1. Observe(state, event, whole) = state /\ more[n + 1][1] = "other"
      BY <1>2, <1>3 DEF Observe
    <2>2. OnlyOthers(items) => OnlyOthers(more)
      BY <1>2, <2>1 DEF OnlyOthers, n
    <2>3. OneStart(items) => OneStart(more)
      <3> SUFFICES ASSUME OneStart(items) PROVE OneStart(more)
        OBVIOUS
      <3>1. PICK start \in 1..n : /\ items[start] = <<"message_start", TRUE>>
                                  /\ \A i \in 1..n : i # start => items[i][1] = "other"
        BY DEF OneStart, n
      <3>2. start \in 1..Len(more) /\ more[start] = <<"message_start", TRUE>>
        BY <1>2, <3>1
      <3>3. \A i \in 1..Len(more) : i # start => more[i][1] = "other"
        BY <1>2, <2>1, <3>1
      <3>4. QED
        BY <3>2, <3>3 DEF OneStart
    <2>4. OneLifecycle(items) => OneLifecycle(more)
      <3> SUFFICES ASSUME OneLifecycle(items) PROVE OneLifecycle(more)
        OBVIOUS
      <3>1. PICK start \in 1..n, stop \in 1..n :
              /\ start < stop
              /\ items[start] = <<"message_start", TRUE>> /\ items[stop] = <<"message_stop", TRUE>>
              /\ \A i \in 1..n : i \notin {start, stop} => items[i][1] = "other"
        BY DEF OneLifecycle, n
      <3>2. /\ start \in 1..Len(more) /\ more[start] = <<"message_start", TRUE>>
            /\ stop \in 1..Len(more) /\ more[stop] = <<"message_stop", TRUE>>
        BY <1>2, <3>1
      <3>3. \A i \in 1..Len(more) : i \notin {start, stop} => more[i][1] = "other"
        BY <1>2, <2>1, <3>1
      <3>4. QED
        BY <3>1, <3>2, <3>3 DEF OneLifecycle
    <2>5. QED
      BY <2>1, <2>2, <2>3, <2>4 DEF Observed, more
  <1>4. CASE event = "message_start" /\ whole /\ state = "fresh"
    <2>1. Observe(state, event, whole) = "started"
      BY <1>4 DEF Observe
    <2>2. /\ n + 1 \in 1..Len(more) /\ more[n + 1] = <<"message_start", TRUE>>
          /\ \A i \in 1..Len(more) : i # n + 1 => more[i][1] = "other"
      BY <1>2, <1>4 DEF Observed, OnlyOthers, n
    <2>3. OneStart(more)
      BY <2>2 DEF OneStart
    <2>4. QED
      BY <2>1, <2>3 DEF Observed, more
  <1>5. CASE event = "message_stop" /\ whole /\ state = "started"
    <2>1. Observe(state, event, whole) = "stopped"
      BY <1>5 DEF Observe
    <2>2. PICK start \in 1..n : /\ items[start] = <<"message_start", TRUE>>
                                /\ \A i \in 1..n : i # start => items[i][1] = "other"
      BY <1>5 DEF Observed, OneStart, n
    <2>3. /\ start \in 1..Len(more) /\ more[start] = <<"message_start", TRUE>> /\ start < n + 1
          /\ n + 1 \in 1..Len(more) /\ more[n + 1] = <<"message_stop", TRUE>>
      <3>1. start < n + 1
        BY <1>2
      <3>2. more[start] = <<"message_start", TRUE>> /\ more[n + 1] = <<"message_stop", TRUE>>
        BY <1>2, <1>5, <2>2
      <3>3. start \in 1..Len(more) /\ n + 1 \in 1..Len(more)
        BY <1>2
      <3>4. QED
        BY <3>1, <3>2, <3>3
    <2>4. \A i \in 1..Len(more) : i \notin {start, n + 1} => more[i][1] = "other"
      BY <1>2, <2>2
    <2>5. OneLifecycle(more)
      BY <2>3, <2>4 DEF OneLifecycle
    <2>6. QED
      BY <2>1, <2>5 DEF Observed, more
  <1>6. CASE /\ event # "other" /\ ~(event = "message_start" /\ whole /\ state = "fresh")
             /\ ~(event = "message_stop" /\ whole /\ state = "started")
    <2>1. Observe(state, event, whole) = "invalid"
      BY <1>6 DEF Observe
    <2>2. QED
      BY <2>1 DEF Observed
  <1>7. QED
    BY <1>3, <1>4, <1>5, <1>6

\* A flushed event is observed if the client heard it.
LEMMA FlushObserves ==
  ASSUME TypeOK, ~writeErr => Observed(baseline, reply.items),
         NEW event \in Events \cup Documents, NEW whole \in BOOLEAN, FlushEvent(event, whole)
  PROVE  ~writeErr' => Observed(baseline', reply'.items)
  <1>1. SUFFICES ASSUME ~writeErr' PROVE Observed(baseline', reply'.items)
    OBVIOUS
  <1>2. ~writeErr /\ reply'.items = Append(reply.items, <<event, whole>>)
    BY <1>1, FlushAppends
  <1>3. baseline' = Observe(baseline, event, whole)
    BY <1>2 DEF FlushEvent
  <1>4. baseline \in {"fresh", "started", "stopped", "invalid"} /\ reply.items \in Seq(Item)
    BY TypeFacts, SeqFacts
  <1>5. QED
    BY <1>2, <1>3, <1>4, ObserveFacts

\* A step that is no end of the handler keeps it if it leaves the baseline and the
\* reply alone, or flushes an event.
LEMMA UsageFrame ==
  ASSUME UsageInv, pc # "done", usage' = usage,
         pc' # "done" /\ ~writeErr' => Observed(baseline', reply'.items)
  PROVE  UsageInv'
  BY DEF UsageInv, UsageIsOfWhole

\* The whole document is in the body when it parses.
LEMMA DocumentFacts ==
  ASSUME TypeOK, LossInv, kind = "json", pc = "closing", AtEnd, Document = "usage"
  PROVE  up.sent = <<<<"usage", 1>>, <<"usage", 2>>>>
  <1>1. Len(body) = 2 /\ body[1][1] = "usage"
    BY DEF Document
  <1>2. Processed = up.taken
    BY DEF LossInv, GotInv, Processed
  <1>3. Len(up.sent) = 2 /\ body[1] = up.sent[1]
    BY <1>1, <1>2 DEF LossInv, DocumentInv, AtEnd
  <1>4. /\ 0 \in Nat /\ 2 * 0 + 1 = 1 /\ 2 * 0 + 2 = 2
        /\ 2 * 0 + 1 <= Len(up.sent) /\ 2 * 0 + 2 <= Len(up.sent)
    BY <1>3
  <1>5. up.sent[1][2] = 1 /\ up.sent[2][2] = 2 /\ up.sent[2][1] = up.sent[1][1]
    BY <1>4 DEF LossInv, SentInv
  <1>6. up.sent[1] \in Pieces /\ up.sent[2] \in Pieces /\ up.sent = <<up.sent[1], up.sent[2]>>
    BY <1>3, SeqFacts
  <1>7. up.sent[1] = <<"usage", 1>> /\ up.sent[2] = <<"usage", 2>>
    BY <1>1, <1>3, <1>5, <1>6, SeqFacts
  <1>8. QED
    BY <1>6, <1>7

\* Every step keeps it.
LEMMA UsageStep == TypeOK /\ StreamInv /\ LossInv /\ UsageInv /\ [Next]_vars => UsageInv'
  <1> SUFFICES ASSUME TypeOK, StreamInv, LossInv, UsageInv, [Next]_vars PROVE UsageInv'
    OBVIOUS
  <1>1. CASE UNCHANGED vars
    BY <1>1 DEF vars, UsageInv, UsageIsOfWhole
  <1>2. CASE Calling
    <2>1. pc # "done" /\ UNCHANGED <<usage, baseline, writeErr>> /\ (pc' # "done" => reply' = reply)
      BY <1>2 DEF Calling, RefuseInbound, Call, RequestWritten, CallFails, HeaderArrives
    <2>2. QED
      BY <2>1, UsageFrame DEF UsageInv
  <1>3. CASE World \/ IdleTimerFires \/ ConnectionReturns
    <2>1. pc # "done" /\ UNCHANGED <<usage, baseline, writeErr, reply>>
      BY <1>3 DEF World, HardLimitFires, ClientLeaves, BranchChanges, UpstreamSends, UpstreamEnds,
                  IdleTimerFires, ConnectionReturns, Started
    <2>2. QED
      BY <2>1, UsageFrame DEF UsageInv
  <1>4. CASE \/ OpenBody \/ ReadHeader \/ BeginRead \/ ReadTimedOut
             \/ StreamFails \/ StreamUnheard \/ DocumentFails
    <2>1. pc # "done" /\ UNCHANGED <<usage, baseline, writeErr, reply>>
      BY <1>4 DEF OpenBody, ReadHeader, BeginRead, ReadTimedOut, StreamFails, StreamUnheard, DocumentFails
    <2>2. QED
      BY <2>1, UsageFrame DEF UsageInv
  <1>5. CASE FinishRead
    <2>1. pc # "done" /\ usage' = usage /\ Take(ReadResult)
      BY <1>5 DEF FinishRead
    <2>2. \/ UNCHANGED <<baseline, reply, writeErr>>
          \/ ReadResult.piece # Nothing /\ FlushEvent(ReadResult.piece[1], TRUE)
      BY <2>1 DEF Take
    <2>3. ReadResult.piece # Nothing => ReadResult.piece[1] \in Events \cup Documents
      BY ResultFacts, SeqFacts
    <2>4. ~writeErr' => Observed(baseline', reply'.items)
      BY <2>1, <2>2, <2>3, FlushObserves DEF UsageInv
    <2>5. QED
      BY <2>1, <2>4, UsageFrame
  <1>6. CASE FlushRest
    <2>1. pc # "done" /\ usage' = usage /\ body # <<>>
      BY <1>6 DEF FlushRest
    <2>2. PICK whole \in BOOLEAN : FlushEvent(Head(body)[1], whole)
      BY <1>6 DEF FlushRest
    <2>3. Head(body)[1] \in Events \cup Documents
      BY <2>1, SeqFacts
    <2>4. ~writeErr' => Observed(baseline', reply'.items)
      BY <2>1, <2>2, <2>3, FlushObserves DEF UsageInv
    <2>5. QED
      BY <2>1, <2>4, UsageFrame
  <1>7. CASE StreamSucceeds
    <2>1. /\ kind = "sse" /\ pc = "closing" /\ readErr = "eof" /\ ~writeErr /\ UNCHANGED <<kind, up>>
          /\ pc' = "done" /\ record'.state = "success"
          /\ usage' = IF baseline = "stopped" THEN TakeUsage ELSE usage
      BY <1>7 DEF StreamSucceeds, Recorded
    <2>2. reply'.items = reply.items
      BY <1>7 DEF StreamSucceeds, LossInv, FreshInv, Committed, Written
    <2>3. AtEnd /\ usage = "none"
      BY <2>1 DEF StreamInv, EndInv, UsageInv
    <2>4. usage' # "none" => OneLifecycle(reply'.items)
      BY <2>1, <2>2, <2>3 DEF UsageInv, Observed
    <2>5. QED
      BY <2>1, <2>3, <2>4 DEF UsageInv, UsageIsOfWhole, AtEnd
  <1>8. CASE JSONAnswered
    <2>1. /\ kind = "json" /\ pc = "closing" /\ readErr = "eof" /\ UNCHANGED <<kind, up>>
          /\ pc' = "done" /\ usage' = IF Document = "usage" THEN TakeUsage ELSE usage
      BY <1>8 DEF JSONAnswered
    <2>2. AtEnd /\ usage = "none"
      BY <2>1 DEF StreamInv, EndInv, UsageInv
    <2>3. usage' # "none" => up'.sent = <<<<"usage", 1>>, <<"usage", 2>>>>
      BY <2>1, <2>2, DocumentFacts
    <2>4. QED
      BY <2>1, <2>2, <2>3 DEF UsageInv, UsageIsOfWhole, AtEnd
  <1>9. CASE Non2xxAnswered \/ Fail
    <2>1. pc # "done" /\ pc' = "done" /\ usage' = usage
      BY <1>9 DEF Non2xxAnswered, Fail
    <2>2. QED
      BY <2>1, UsageFrame
  <1>10. QED
    BY <1>1, <1>2, <1>3, <1>4, <1>5, <1>6, <1>7, <1>8, <1>9 DEF Next, Reading, Ending, Finished

\* A response calibrates the baseline only if it is whole: a stream of any length with
\* one start and then one stop, ended by the upstream and heard by the client, or a
\* document that parses (sseBaselineState, handleSSE, handleJSON).
THEOREM UsageIsOfWholeCorrect == Spec => []UsageIsOfWhole
  <1>1. Init => UsageInv
    <2> SUFFICES ASSUME Init PROVE UsageInv
      OBVIOUS
    <2>1. usage = "none" /\ reply.items = <<>> /\ baseline = "fresh"
      BY DEF Init
    <2>2. OnlyOthers(reply.items)
      BY <2>1 DEF OnlyOthers
    <2>3. QED
      BY <2>1, <2>2 DEF UsageInv, UsageIsOfWhole, Observed
  <1>2. UsageInv => UsageIsOfWhole
    BY DEF UsageInv
  <1>3. QED
    BY <1>1, <1>2, StreamInvariant, LossInvariant, UsageStep, PTL DEF Spec
=============================================================================
