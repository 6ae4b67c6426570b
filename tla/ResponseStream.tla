--------------------------- MODULE ResponseStream ---------------------------
(***************************************************************************)
(* One request between forwardRaw (forward.go) and the upstream: the call, *)
(* the response's body behind the idle timer (transport.go), the reply to  *)
(* the client, and what is recorded about it.  The upstream sends, ends or *)
(* breaks its body, the timers fire and the client leaves at any moment.   *)
(*                                                                         *)
(* A body is a sequence of items (events of a stream, or one document) and *)
(* an item travels in two halves, so that it can be cut.  The second half  *)
(* of an event holds the blank line that ends it.                          *)
(***************************************************************************)
EXTENDS Naturals, Sequences

CONSTANTS
  MaxItems,      \* bound: the items of a body
  HardLimit,     \* the absolute time limit is configured (0 disables it)
  IdleLimit      \* the idle time limit is configured (0 disables it)

ASSUME BoundAssumption == MaxItems \in Nat \ {0}
ASSUME LimitAssumption == HardLimit \in BOOLEAN /\ IdleLimit \in BOOLEAN

Kinds     == {"sse", "json", "non2xx"}
Events    == {"message_start", "message_stop", "other", "malformed"}
Documents == {"usage", "object", "text"}
Halves    == {1, 2}
Items(k)  == IF k = "sse" THEN Events ELSE IF k = "json" THEN Documents ELSE {"text"}
Pieces    == (Events \cup Documents) \X Halves
Nothing   == <<>>

Phases   == {"connect", "awaiting_headers", "reading_body"}
Errors   == {"none", "eof", "broken", "timeout", "idle", "too_long"}
Sources  == {"downstream_context", "proxy_hard_limit", "response_idle_timeout",
             "header_timeout", "upstream_transport"}
States   == {"unknown", "not_started", "transport_failure", "body_read_failure",
             "committed_failure", "non_2xx", "success", "unavailable",
             "hard_timeout", "idle_timeout", "header_timeout"}

VARIABLES
  pc,        \* the handler: inbound, calling, opening, gunzip, reading, armed, returned,
             \* closing, failed, done
  kind,      \* the response's kind, once its header arrived
  phase,     \* upstreamPhaseTracker
  up,        \* the body: what was sent, how much the connection handed over, how it ended
  got,       \* what the Read of the connection returned, before the timer is stopped
  body,      \* the halves the reader has and has not processed
  baseline,  \* sseBaselineState: fresh, started, stopped, invalid
  readErr,   \* the reader's error, or the error of the call
  writeErr,  \* a write to the client failed
  reply,     \* status, author and items of what the client was sent
  record,    \* the request's record: upstream state, failure class, error logged
  usage,     \* what became of the response's usage
  fired,     \* the timers that fired
  gone,      \* the client left: its context is cancelled
  moved      \* another request changed the session's branch

vars == <<pc, kind, phase, up, got, body, baseline, readErr, writeErr, reply,
          record, usage, fired, gone, moved>>

Init ==
  /\ pc = "inbound" /\ kind = "none" /\ phase = "connect"
  /\ up = [sent |-> <<>>, taken |-> 0, end |-> "open"]
  /\ got = [piece |-> Nothing, err |-> "none"]
  /\ body = <<>> /\ baseline = "fresh"
  /\ readErr = "none" /\ writeErr = FALSE
  /\ reply = [status |-> 0, by |-> "none", items |-> <<>>, length |-> "none"]
  /\ record = [state |-> "unknown", class |-> "none", log |-> "none"]
  /\ usage = "none" /\ fired = {} /\ gone = FALSE /\ moved = FALSE

-----------------------------------------------------------------------------
(* The surroundings. *)

Started == pc \notin {"inbound", "done"}

\* ResponseHeaderTimeout has its own error and is part of CallFails.
HardLimitFires ==
  /\ HardLimit /\ Started /\ "hard" \notin fired
  /\ fired' = fired \cup {"hard"}
  /\ UNCHANGED <<pc, kind, phase, up, got, body, baseline, readErr, writeErr, reply, record, usage, gone, moved>>

ClientLeaves ==
  /\ ~gone /\ pc # "done" /\ gone' = TRUE
  /\ UNCHANGED <<pc, kind, phase, up, got, body, baseline, readErr, writeErr, reply, record, usage, fired, moved>>

BranchChanges ==
  /\ ~moved /\ Started /\ moved' = TRUE
  /\ UNCHANGED <<pc, kind, phase, up, got, body, baseline, readErr, writeErr, reply, record, usage, fired, gone>>

LastOf(pieces) == pieces[Len(pieces)]

\* The first half of a new item or the second half of the last one.
NextPieces ==
  IF up.sent # <<>> /\ LastOf(up.sent)[2] = 1 THEN {<<LastOf(up.sent)[1], 2>>}
  ELSE IF Len(up.sent) < 2 * (IF kind = "sse" THEN MaxItems ELSE 1)
       THEN Items(kind) \X {1} ELSE {}

UpstreamSends ==
  /\ kind # "none" /\ pc # "done" /\ up.end = "open"
  /\ \E p \in NextPieces : up' = [up EXCEPT !.sent = Append(@, p)]
  /\ UNCHANGED <<pc, kind, phase, got, body, baseline, readErr, writeErr, reply, record, usage, fired, gone, moved>>

\* A body may end after any half, and may break.
UpstreamEnds ==
  /\ kind # "none" /\ pc # "done" /\ up.end = "open"
  /\ \E e \in {"eof", "reset"} : up' = [up EXCEPT !.end = e]
  /\ UNCHANGED <<pc, kind, phase, got, body, baseline, readErr, writeErr, reply, record, usage, fired, gone, moved>>

-----------------------------------------------------------------------------
(* What is recorded and what the client is told of a failure. *)

Written(status, by, items, length) ==
  [status |-> status, by |-> by, items |-> items, length |-> length]

Classify(err) ==
  IF gone THEN "downstream_context"
  ELSE IF "hard" \in fired THEN "proxy_hard_limit"
  ELSE IF err = "idle" \/ "idle" \in fired THEN "response_idle_timeout"
  ELSE IF phase = "awaiting_headers" /\ err = "timeout" THEN "header_timeout"
  ELSE "upstream_transport"

\* upstreamTimeoutState, with the state of a failure that is no timeout.
FailureState(source, otherwise) ==
  CASE source = "downstream_context"    -> "unavailable"
    [] source = "proxy_hard_limit"      -> "hard_timeout"
    [] source = "response_idle_timeout" -> "idle_timeout"
    [] source = "header_timeout"        -> "header_timeout"
    [] OTHER                            -> otherwise

GatewayStatus(source) == IF source = "upstream_transport" THEN 502 ELSE 504

Committed == reply.status # 0

\* Mutated form of Answer.
AnswerAgain(source) ==
  IF source = "downstream_context" THEN reply
  ELSE Written(GatewayStatus(source), "proxy", <<>>, "none")

\* writeClassifiedGatewayError behind `decision.silent || result.committed`.
Answer(source) ==
  IF source = "downstream_context" \/ Committed THEN reply
  ELSE Written(GatewayStatus(source), "proxy", <<>>, "none")

Recorded(state, class, log) ==
  record' = [state |-> state, class |-> class, log |-> log]

-----------------------------------------------------------------------------
(* Before the response. *)

RefuseInbound ==
  /\ pc = "inbound" /\ pc' = "done"
  /\ \E status \in {500, 413} : reply' = Written(status, "proxy", <<>>, "none")
  /\ Recorded("not_started", "none", "none")
  /\ UNCHANGED <<kind, phase, up, got, body, baseline, readErr, writeErr, usage, fired, gone, moved>>

Call ==
  /\ pc = "inbound" /\ pc' = "calling"
  /\ UNCHANGED <<kind, phase, up, got, body, baseline, readErr, writeErr, reply, record, usage, fired, gone, moved>>

\* The trace's WroteRequest and GotFirstResponseByte.
RequestWritten ==
  /\ pc = "calling" /\ phase = "connect" /\ phase' = "awaiting_headers"
  /\ UNCHANGED <<pc, kind, up, got, body, baseline, readErr, writeErr, reply, record, usage, fired, gone, moved>>

\* The call fails: the connection, a cancelled context, or the header's time limit.
CallFails ==
  /\ pc = "calling" /\ pc' = "done"
  /\ \E err \in {"broken", "timeout"} :
       /\ readErr' = err
       /\ reply' = Answer(Classify(err))
       /\ Recorded(FailureState(Classify(err), "transport_failure"), "upstream", "upstream")
  /\ UNCHANGED <<kind, phase, up, got, body, baseline, writeErr, usage, fired, gone, moved>>

HeaderArrives ==
  /\ pc = "calling" /\ phase = "awaiting_headers"
  /\ \E k \in Kinds : kind' = k
  /\ phase' = "reading_body" /\ pc' = "opening"
  /\ UNCHANGED <<up, got, body, baseline, readErr, writeErr, reply, record, usage, fired, gone, moved>>

\* A body that the proxy has to decompress is opened by gzip.NewReader.
OpenBody ==
  /\ pc = "opening"
  /\ \/ pc' = "reading"
     \/ kind # "non2xx" /\ pc' = "gunzip"
  /\ UNCHANGED <<kind, phase, up, got, body, baseline, readErr, writeErr, reply, record, usage, fired, gone, moved>>

\* It reads the header under the idle timer; the header may be bad, cut or not come.
ReadHeader ==
  /\ pc = "gunzip"
  /\ \/ pc' = "reading" /\ UNCHANGED <<readErr, record>>
     \/ /\ pc' = "failed"
        /\ readErr' \in {"broken"} \cup (IF "idle" \in fired THEN {"idle"} ELSE {})
        /\ Recorded("body_read_failure", "upstream", "none")
  /\ UNCHANGED <<kind, phase, up, got, body, baseline, writeErr, reply, usage, fired, gone, moved>>

-----------------------------------------------------------------------------
(* idleTimeoutBody.Read. *)

BeginRead ==
  /\ pc = "reading" /\ readErr = "none" /\ ~(IdleLimit /\ "idle" \in fired)
  /\ pc' = "armed"
  /\ UNCHANGED <<kind, phase, up, got, body, baseline, readErr, writeErr, reply, record, usage, fired, gone, moved>>

\* The timer of the Read in progress, which also closes the connection.
IdleTimerFires ==
  /\ IdleLimit /\ pc \in {"gunzip", "armed", "returned"} /\ "idle" \notin fired
  /\ fired' = fired \cup {"idle"}
  /\ UNCHANGED <<pc, kind, phase, up, got, body, baseline, readErr, writeErr, reply, record, usage, gone, moved>>

Unread == up.taken < Len(up.sent)

\* A Read that has data returns it even if the connection was closed under it.
ConnectionReturns ==
  /\ pc = "armed" /\ pc' = "returned"
  /\ \/ /\ Unread
        /\ up' = [up EXCEPT !.taken = @ + 1]
        /\ got' = [piece |-> up.sent[up.taken + 1], err |-> "none"]
     \/ /\ up.end = "eof" /\ Len(up.sent) <= up.taken + 1
        /\ up' = [up EXCEPT !.taken = Len(up.sent)]
        /\ got' = [piece |-> IF Unread THEN up.sent[up.taken + 1] ELSE Nothing, err |-> "eof"]
     \/ /\ gone \/ fired # {} \/ up.end = "reset"
        /\ got' = [piece |-> Nothing, err |-> "broken"] /\ UNCHANGED up
  /\ UNCHANGED <<kind, phase, body, baseline, readErr, writeErr, reply, record, usage, fired, gone, moved>>

\* Mutated form of ReadResult.
ReadResultDropsData ==
  IF "idle" \notin fired THEN got ELSE [piece |-> Nothing, err |-> "idle"]

\* Mutated form of ReadResult.
ReadResultLate == got

\* What Read answers once the timer is stopped: data goes before the timeout.
ReadResult ==
  IF "idle" \notin fired THEN got
  ELSE IF got.piece # Nothing THEN [got EXCEPT !.err = "none"]
  ELSE [got EXCEPT !.err = "idle"]

-----------------------------------------------------------------------------
(* The stream: events are processed as they end. *)

\* Mutated form of Observe.
ObserveRestart(state, event, whole) ==
  IF state = "invalid" \/ event = "other" THEN state
  ELSE IF ~whole \/ event = "malformed" THEN "invalid"
  ELSE IF event = "message_start" THEN "started"
  ELSE IF event = "message_stop" /\ state = "started" THEN "stopped"
  ELSE "invalid"

\* sseBaselineState.observe: one message_start, then one message_stop, both whole.
Observe(state, event, whole) ==
  IF state = "invalid" \/ event = "other" THEN state
  ELSE IF ~whole \/ event = "malformed" THEN "invalid"
  ELSE IF event = "message_start" /\ state = "fresh" THEN "started"
  ELSE IF event = "message_stop" /\ state = "started" THEN "stopped"
  ELSE "invalid"

\* flushEvent: the first event commits the reply; a failed write, which may have
\* sent a part of its event, silences the rest.
FlushEvent(event, whole) ==
  IF writeErr THEN UNCHANGED <<baseline, reply, writeErr>>
  ELSE /\ baseline' = Observe(baseline, event, whole)
       /\ \/ /\ reply' = Written(200, "upstream", Append(reply.items, <<event, whole>>), "none")
             /\ UNCHANGED writeErr
          \/ /\ reply' = Written(200, "upstream", reply.items, "none")
             /\ writeErr' = TRUE

\* The reader's error: the Read's; a compressed body that ends too early; for a
\* stream also a line longer than the scanner's buffer.
ReaderErrors(result) ==
  {result.err}
    \cup (IF result.err = "eof" /\ kind # "non2xx" THEN {"broken"} ELSE {})
    \cup (IF result.piece # Nothing /\ kind = "sse" THEN {"too_long"} ELSE {})

\* What the reader does with a piece.
Take(result) ==
  IF result.piece = Nothing \/ readErr' = "too_long" THEN UNCHANGED <<body, baseline, reply, writeErr>>
  ELSE IF kind = "sse" /\ result.piece[2] = 2
  THEN body' = <<>> /\ FlushEvent(result.piece[1], TRUE)
  ELSE body' = Append(body, result.piece) /\ UNCHANGED <<baseline, reply, writeErr>>

FinishRead ==
  /\ pc = "returned"
  /\ readErr' \in ReaderErrors(ReadResult)
  /\ Take(ReadResult)
  /\ got' = [piece |-> Nothing, err |-> "none"]
  /\ pc' = IF readErr' = "none" THEN "reading" ELSE "closing"
  /\ UNCHANGED <<kind, phase, up, record, usage, fired, gone, moved>>

\* Mutated form of ReadTimedOut.
ReadTimedOutRetried ==
  /\ pc = "reading" /\ IdleLimit /\ "idle" \in fired
  /\ pc' = "reading"
  /\ UNCHANGED <<kind, phase, up, got, body, baseline, readErr, writeErr, reply, record, usage, fired, gone, moved>>

\* A Read after the timer fired fails at once.
ReadTimedOut ==
  /\ pc = "reading" /\ IdleLimit /\ "idle" \in fired
  /\ readErr' = "idle" /\ pc' = "closing"
  /\ UNCHANGED <<kind, phase, up, got, body, baseline, writeErr, reply, record, usage, fired, gone, moved>>

\* An event that the end of the stream cut is flushed as well; it is whole if it
\* lacks no more than its blank line.
FlushRest ==
  /\ pc = "closing" /\ kind = "sse" /\ body # <<>>
  /\ \E whole \in BOOLEAN : FlushEvent(Head(body)[1], whole)
  /\ body' = <<>>
  /\ UNCHANGED <<pc, kind, phase, up, got, readErr, record, usage, fired, gone, moved>>

-----------------------------------------------------------------------------
(* The end of the body. *)

InterruptedState == IF Committed THEN "committed_failure" ELSE "body_read_failure"

\* applyPressureBaselineUsage: IsCurrent refuses the usage of an abandoned branch.
TakeUsage == IF moved THEN "stale" ELSE "taken"

StreamFails ==
  /\ pc = "closing" /\ kind = "sse" /\ body = <<>> /\ readErr # "eof"
  /\ Recorded(InterruptedState, "upstream", "none")
  /\ pc' = "failed"
  /\ UNCHANGED <<kind, phase, up, got, body, baseline, readErr, writeErr, reply, usage, fired, gone, moved>>

\* A client that cannot be written to: no failure class, and then the common path.
StreamUnheard ==
  /\ pc = "closing" /\ kind = "sse" /\ body = <<>> /\ readErr = "eof" /\ writeErr
  /\ Recorded(InterruptedState, record.class, "none")
  /\ pc' = "failed"
  /\ UNCHANGED <<kind, phase, up, got, body, baseline, readErr, writeErr, reply, usage, fired, gone, moved>>

StreamSucceeds ==
  /\ pc = "closing" /\ kind = "sse" /\ body = <<>> /\ readErr = "eof" /\ ~writeErr
  /\ usage' = IF baseline = "stopped" THEN TakeUsage ELSE usage
  /\ reply' = IF Committed THEN reply ELSE Written(200, "upstream", <<>>, "none")
  /\ Recorded("success", record.class, "none")
  /\ pc' = "done"
  /\ UNCHANGED <<kind, phase, up, got, body, baseline, readErr, writeErr, fired, gone, moved>>

DocumentFails ==
  /\ pc = "closing" /\ kind # "sse" /\ readErr # "eof"
  /\ Recorded("body_read_failure", "upstream", "none")
  /\ pc' = "failed"
  /\ UNCHANGED <<kind, phase, up, got, body, baseline, readErr, writeErr, reply, usage, fired, gone, moved>>

\* A document that was cut is text that does not parse.
Document == IF Len(body) = 2 THEN body[1][1] ELSE "text"

Whole(pieces) == IF pieces = <<>> THEN <<>> ELSE <<<<pieces[1][1], Len(pieces) = 2>>>>

\* A document that is rewritten loses the header fields that describe the old one.
JSONAnswered ==
  /\ pc = "closing" /\ kind = "json" /\ readErr = "eof"
  /\ usage' = IF Document = "usage" THEN TakeUsage ELSE usage
  /\ \E written \in BOOLEAN, recoded \in BOOLEAN :
       /\ reply' = Written(200, "upstream",
                           IF written THEN Whole(body) ELSE <<>>,
                           IF recoded \/ Document # "text" THEN "none" ELSE "upstream")
       /\ writeErr' = ~written
       /\ IF written THEN Recorded("success", record.class, "none")
                     ELSE Recorded("committed_failure", record.class, "downstream_write")
  /\ pc' = "done"
  /\ UNCHANGED <<kind, phase, up, got, body, baseline, readErr, fired, gone, moved>>

\* The upstream's own error: the result of the write is not looked at.
Non2xxAnswered ==
  /\ pc = "closing" /\ kind = "non2xx" /\ readErr = "eof"
  /\ reply' = Written(400, "upstream", Whole(body), "upstream")
  /\ Recorded("non_2xx", "upstream", "none")
  /\ pc' = "done"
  /\ UNCHANGED <<kind, phase, up, got, body, baseline, readErr, writeErr, usage, fired, gone, moved>>

\* The common path of forwardRaw after a handler's error.
Fail ==
  /\ pc = "failed" /\ pc' = "done"
  /\ reply' = Answer(Classify(readErr))
  /\ Recorded(FailureState(Classify(readErr), record.state), record.class, "upstream")
  /\ UNCHANGED <<kind, phase, up, got, body, baseline, readErr, writeErr, usage, fired, gone, moved>>

Calling  == RefuseInbound \/ Call \/ RequestWritten \/ CallFails \/ HeaderArrives
Reading  == OpenBody \/ BeginRead \/ FinishRead \/ ReadTimedOut \/ FlushRest
Ending   == \/ StreamFails \/ StreamUnheard \/ StreamSucceeds
            \/ DocumentFails \/ JSONAnswered \/ Non2xxAnswered \/ Fail
World    == \/ HardLimitFires \/ ClientLeaves \/ BranchChanges
            \/ UpstreamSends \/ UpstreamEnds
Finished == pc = "done" /\ UNCHANGED vars

Next == \/ Calling \/ Reading \/ ReadHeader \/ Ending
        \/ ConnectionReturns \/ IdleTimerFires \/ World \/ Finished

\* A header that is on its way, or a connection that is closed, ends the wait for it.
HeaderReturns ==
  (up.sent # <<>> \/ up.end # "open" \/ fired # {} \/ gone) /\ ReadHeader

(* The handler runs.  The dial, TLS and header limits of the transport end a *)
(* call that hangs, an armed timer fires, and a connection that has data, an *)
(* end or a closed descriptor returns from its Read.  The upstream and the   *)
(* client owe nothing.                                                       *)
Fairness ==
  /\ WF_vars(Calling) /\ WF_vars(Reading) /\ WF_vars(Ending)
  /\ WF_vars(ConnectionReturns) /\ WF_vars(HeaderReturns)
  /\ WF_vars(IdleTimerFires) /\ WF_vars(HardLimitFires)

Spec == Init /\ [][Next]_vars
LiveSpec == Spec /\ Fairness

-----------------------------------------------------------------------------
(* Properties. *)

TypeOK ==
  /\ pc \in {"inbound", "calling", "opening", "gunzip", "reading", "armed", "returned",
             "closing", "failed", "done"}
  /\ kind \in Kinds \cup {"none"} /\ phase \in Phases
  /\ up \in [sent : Seq(Pieces), taken : Nat, end : {"open", "eof", "reset"}]
  /\ up.taken <= Len(up.sent)
  /\ got \in [piece : Pieces \cup {Nothing}, err : {"none", "eof", "broken"}]
  /\ body \in Seq(Pieces)
  /\ baseline \in {"fresh", "started", "stopped", "invalid"}
  /\ readErr \in Errors /\ writeErr \in BOOLEAN
  /\ reply \in [status : {0, 200, 400, 413, 500, 502, 504}, by : {"none", "proxy", "upstream"},
                items : Seq((Events \cup Documents) \X BOOLEAN), length : {"none", "upstream"}]
  /\ record \in [state : States, class : {"none", "upstream"},
                 log : {"none", "upstream", "downstream_write"}]
  /\ usage \in {"none", "stale", "taken"}
  /\ fired \subseteq {"hard", "idle"} /\ gone \in BOOLEAN /\ moved \in BOOLEAN

\* A reply that has begun keeps its status and its author and only grows: no
\* failure after the first event appends the proxy's JSON to it, whichever of the
\* timers, the client and the upstream ends the stream.
ReplyStays ==
  [][Committed => /\ reply'.status = reply.status /\ reply'.by = reply.by
                  /\ Len(reply.items) <= Len(reply'.items)
                  /\ \A i \in 1..Len(reply.items) : reply'.items[i] = reply.items[i]]_vars

\* The items that pieces make up, the last of them whole or not.
ItemsOf(pieces) ==
  [i \in 1..((Len(pieces) + 1) \div 2) |-> <<pieces[2 * i - 1][1], 2 * i <= Len(pieces)>>]
Handed == SubSeq(up.sent, 1, up.taken)

\* What the connection handed over reaches the client in order and without a gap,
\* although the idle timer may fire between the Read and its Stop: only a client
\* that cannot be written to or a line that is too long loses a part.
NothingLost ==
  pc = "done" /\ reply.by = "upstream" /\ ~writeErr /\ readErr # "too_long"
    => \/ reply.items = ItemsOf(Handed)
       \/ /\ Handed # <<>> /\ LastOf(Handed)[2] = 1
          /\ reply.items = ItemsOf(Append(Handed, <<LastOf(Handed)[1], 2>>))

\* Success is recorded only of a body that was read to its end and written to the
\* client, and never of one that the idle timer cut.
SuccessIsWhole ==
  record.state = "success" =>
    /\ up.end = "eof" /\ up.taken = Len(up.sent)
    /\ ~writeErr /\ "idle" \notin fired /\ reply.by = "upstream"

\* Of all that the baseline depends on, the items hold a start and then a stop, both
\* whole.
OneLifecycle(items) ==
  \E start, stop \in 1..Len(items) :
    /\ start < stop
    /\ items[start] = <<"message_start", TRUE>> /\ items[stop] = <<"message_stop", TRUE>>
    /\ \A i \in 1..Len(items) : i \notin {start, stop} => items[i][1] = "other"

\* A baseline is only calibrated by a response that is whole: a stream with one
\* start and one stop in this order, ended by the upstream and heard by the client,
\* or a document that parses.
UsageIsOfWhole ==
  usage # "none" =>
    /\ up.end = "eof" /\ up.taken = Len(up.sent)
    /\ kind = "sse" => record.state = "success" /\ OneLifecycle(reply.items)
    /\ kind = "json" => up.sent = <<<<"usage", 1>>, <<"usage", 2>>>>

\* A handler ends, whatever the upstream and the client do.
HandlerEnds == <>(pc = "done")

\* forward.go:575-576: a failed write to the client is a class of its own and is not
\* reported as a failure to read the upstream's response.
ClientFailureIsItsOwn ==
  pc = "done" /\ writeErr /\ readErr = "eof" /\ ~gone => record.log # "upstream"

=============================================================================
