--------------------------- MODULE RequestPipeline ---------------------------
(***************************************************************************)
(* HandleMessages (proxy.go) on the requests of one session, one after     *)
(* another: the state a request reads (pressure baseline, calibration,     *)
(* frozen prefix, marks of stubbed messages, archive rows), the pressure   *)
(* decision, recall, and the ways the messages leave: as they are, with a  *)
(* frozen prefix, collapsed, stubbed and compacted, or not at all.  What   *)
(* each stage does to the messages is in Conversation; that the messages   *)
(* belong to the branch of the keyed state is the matter of HistoryArchive,*)
(* and requests that overlap that of FrozenStubs and SawtoothTrigger.      *)
(***************************************************************************)
EXTENDS Conversation

CONSTANTS
  Margin,        \* what Evaluate adds to the threshold for an emergency
  TokenMinimum,  \* sawtooth.token_minimum, of the pause trigger
  MinFloor,      \* the 10000 below which tokenFloor does not fall
  Reserve,       \* collapseArchiveReserveTokens
  Tops,          \* tokens of system and tools; another number, another print
  Factors,       \* tokens the provider counts for ten of the local estimate
  Window,        \* calibrationSampleWindow
  FirstEpoch,    \* the session is in its first epoch, whose row of marks is read
  Beginnings,    \* the conversations the runs start from
  MaxExchanges,  \* bound: exchanges of a conversation
  MaxFaults,     \* bound: crashes, evictions, failed reads, writes and commits, and
                 \* the requests sent again, spelled anew or with another top
  Nothing,       \* no state, no request, no message
  Unloaded       \* not read from the database yet

ASSUME PipelineAssumption ==
  /\ {Margin, TokenMinimum, MinFloor, Reserve, Window, MaxExchanges, MaxFaults} \subseteq Nat
  /\ Window > 0 /\ Tops \subseteq Nat /\ Factors \subseteq Nat \ {0}
  /\ Beginnings \subseteq Seq(ExchangeKinds) /\ FirstEpoch \in BOOLEAN

\* What stands for "no state" is no state.
ASSUME NothingAssumption ==
  /\ Nothing \notin [top : Tops, print : {0, 1}]
  /\ Unloaded \notin [kind : {"none", "failed", "legacy", "conservative", "exact"},
                      actual : Nat, count : Nat, top : Nat, print : Nat]

VARIABLES
  kinds,     \* the exchanges of the conversation the client holds
  wording,   \* how the client spells them: equivalent spellings, one epoch
  top,       \* system and tools of the request
  enabled,   \* collapse.enabled
  recorded,  \* the spelling the record of the epoch holds
  pc,        \* where the request is
  req,       \* the local variables of HandleMessages
  frozen,    \* the frozen prefix, in memory and in its row
  base,      \* the pressure baseline, in memory and in its row
  samples,   \* the last ratios of actual and estimate, in tenths
  marks,     \* indices DecayTracker holds as stubbed, those of its row, and if it was read
  archive,   \* the prefixes stored as archive rows, by their length
  known,     \* lastRequestTime is known
  answered,  \* ghost: system and tools, and spelling, of the last measured answer
  faults     \* ghost: counts to MaxFaults

vars == <<kinds, wording, top, enabled, recorded, pc, req, frozen, base, samples,
          marks, archive, known, answered, faults>>
client == <<kinds, wording, top, enabled>>
session == <<client, recorded>>
keyed == <<frozen, base, samples, marks, known>>

Raw == RawMessages(kinds)

Baseline(kind, actual, count, t, print) ==
  [kind |-> kind, actual |-> actual, count |-> count, top |-> t, print |-> print]
NoBaseline == Baseline("none", 0, 0, 0, 0)
ReadFailed == Baseline("failed", 0, 0, 0, 0)

\* Rows an earlier release left: without prints, and with a conservative floor.
EarlierRows == {NoBaseline, Baseline("legacy", Threshold + 1, 1, 0, 0),
                Baseline("conservative", Threshold + 1, 1, 0, 0)}

Blank == [baseline |-> NoBaseline, spliced |-> FALSE,
          messages |-> <<>>, source |-> "none", pressure |-> 0,
          trigger |-> "none", blocked |-> FALSE, action |-> "none", measured |-> FALSE]

Init ==
  /\ kinds \in Beginnings /\ wording = 0 /\ recorded = 0 /\ top \in Tops /\ enabled \in BOOLEAN
  /\ pc = "idle" /\ req = Blank
  /\ frozen = [mem |-> Unloaded, row |-> Nothing]
  /\ base \in [mem : {Unloaded}, row : EarlierRows]
  /\ samples = <<>> /\ archive = {} /\ known = FALSE
  /\ marks = [mem |-> {}, row |-> {}, loaded |-> FALSE]
  /\ answered = Nothing /\ faults = 0

\* A step that may meet a fault, or another event that is bounded with the faults.
May(fault) ==
  /\ fault => faults < MaxFaults
  /\ faults' = IF fault THEN faults + 1 ELSE faults

\* A state write changes the memory; the row follows unless the write is lost.
Written(state, value, lost) ==
  [mem |-> value, row |-> IF lost THEN state.row ELSE value]

\* DecayTracker writes all the marks it holds, after the fallback and when it is cleared.
MarksWritten(value, lost) ==
  [mem |-> value, row |-> IF lost THEN marks.row ELSE value, loaded |-> marks.loaded]

-----------------------------------------------------------------------------
(* The client. *)

Send(t, spelling) ==
  /\ pc = "idle" /\ t \in Tops
  /\ top' = t /\ wording' = spelling
  /\ pc' = "begin"
  /\ UNCHANGED <<enabled, recorded, req, keyed, archive, answered>>

Ask(kind, t, spelling) ==
  /\ pc = "idle" /\ Len(kinds) < MaxExchanges
  /\ kinds' = Append(kinds, kind)
  /\ May(spelling # wording \/ t # top)
  /\ Send(t, spelling)

Resend == Send(top, wording) /\ May(TRUE) /\ UNCHANGED kinds

-----------------------------------------------------------------------------
(* The gate of the epoch, and the state the request reads. *)

\* Another spelling of a history that goes on: nothing kept for it may be reused.
ReuseSafe == wording = recorded

\* The history cannot be read or stored: the messages go out, no state is touched.
PassThrough ==
  /\ pc = "begin" /\ May(TRUE)
  /\ req' = [req EXCEPT !.messages = Raw, !.action = "fail_closed"]
  /\ pc' = "sent"
  /\ UNCHANGED <<session, keyed, archive, answered>>

\* MigrateLegacyState of the marks, on every request of the first epoch until it read
\* the row, which it adds to what the memory holds; in a later epoch the row is not read.
MarksRead(unread) ==
  LET due == FirstEpoch /\ ~marks.loaded
  IN /\ unread => due
     /\ marks' = IF due /\ ~unread THEN [marks EXCEPT !.mem = @ \cup marks.row, !.loaded = TRUE]
                 ELSE marks

StartUnsafe(lostPrefix, lostBaseline, unread) ==
  /\ pc = "begin" /\ ~ReuseSafe
  /\ frozen' = Written(frozen, Nothing, lostPrefix)
  /\ base' = Written(base, NoBaseline, lostBaseline)
  /\ May(lostPrefix \/ lostBaseline \/ unread)
  /\ recorded' = wording
  /\ known' = FALSE /\ answered' = Nothing
  /\ req' = [req EXCEPT !.messages = Raw]
  /\ pc' = "decide"
  /\ MarksRead(unread)
  /\ UNCHANGED <<client, samples, archive>>

StartSafe(failed, unread) ==
  /\ pc = "begin" /\ ReuseSafe
  /\ failed => base.mem = Unloaded
  /\ May(failed \/ unread)
  /\ base' = IF failed \/ base.mem # Unloaded THEN base ELSE [base EXCEPT !.mem = base.row]
  /\ req' = [req EXCEPT !.baseline = IF failed THEN ReadFailed ELSE base'.mem]
  /\ pc' = "splice"
  /\ MarksRead(unread)
  /\ UNCHANGED <<session, frozen, samples, archive, known, answered>>

Verified(prefix) == prefix.print = wording /\ prefix.cutoff \in 1..Len(Raw)

Splice(failed, lost) ==
  LET prefix == IF frozen.mem = Unloaded THEN frozen.row ELSE frozen.mem
      hit == ~failed /\ prefix # Nothing /\ Verified(prefix)
      refused == ~failed /\ prefix # Nothing /\ ~Verified(prefix)
  IN /\ pc = "splice"
     /\ failed => frozen.mem = Unloaded
     /\ lost => refused
     /\ May(failed \/ lost)
     /\ frozen' = IF failed THEN frozen
                  ELSE IF refused THEN Written(frozen, Nothing, lost)
                  ELSE [frozen EXCEPT !.mem = prefix]
     /\ req' = [req EXCEPT !.spliced = hit,
                           !.messages = IF hit THEN prefix.messages \o After(Raw, prefix.cutoff)
                                        ELSE Raw]
     /\ pc' = "decide"
     /\ UNCHANGED <<session, base, samples, marks, archive, known, answered>>

-----------------------------------------------------------------------------
(* The pressure decision. *)

Within(low, high, r) == IF r < low THEN low ELSE IF r > high THEN high ELSE r

\* CalibrationRatio, in tenths: the median of the samples, within its limits.
CalibrationRatio ==
  LET n == Len(samples)
      sorted == SortSeq(samples, <)
      median == IF n % 2 = 1 THEN sorted[n \div 2 + 1]
                ELSE (sorted[n \div 2] + sorted[n \div 2 + 1]) \div 2
  IN IF samples = <<>> THEN 15 ELSE Within(5, 18, median)

\* The one source of the pressure of `candidate`, and the pressure it gives.
Pressure(candidate) ==
  LET b == req.baseline
      full == Tokens(candidate) + top
      localFull == <<"local_full", (full * CalibrationRatio) \div 10>>
      fits == b.count <= Len(Raw)
      highWater(source) == <<source, Max({full, b.actual})>>
  IN CASE b.kind = "legacy" /\ b.actual > Threshold /\ fits -> highWater("legacy_high_water")
       [] b.kind = "exact" /\ fits /\ b.top = top /\ b.print = wording ->
            <<"actual_plus_delta", b.actual + Tokens(After(Raw, b.count))>>
       [] b.kind = "exact" /\ fits /\ b.top = top /\ b.print # wording
            /\ b.actual > Threshold /\ b.actual > full ->
            highWater("conservative_high_water")
       [] OTHER -> localFull

Trigger(pressure, waited) ==
  IF pressure > Threshold + Margin THEN "emergency"
  ELSE IF pressure > Threshold THEN "tokens"
  ELSE IF known /\ waited /\ pressure > TokenMinimum THEN "pause"
  ELSE "none"

\* A prefix that is not enough is dropped, and the whole history decided on.
Decide(waited, lost) ==
  LET first == Pressure(req.messages)
      drop == req.spliced /\ Trigger(first[2], waited) # "none"
      candidate == IF drop THEN Raw ELSE req.messages
      final == Pressure(candidate)
  IN /\ pc = "decide"
     /\ lost => drop
     /\ May(lost)
     /\ frozen' = IF drop THEN Written(frozen, Nothing, lost) ELSE frozen
     /\ req' = [req EXCEPT !.messages = candidate, !.spliced = @ /\ ~drop,
                           !.source = final[1], !.pressure = final[2],
                           !.trigger = Trigger(final[2], waited), !.measured = TRUE]
     /\ pc' = "recall"
     /\ UNCHANGED <<session, base, samples, marks, archive, known, answered>>

\* One archive is put back, or none is found or affordable.
Recall ==
  /\ pc = "recall"
  /\ \/ UNCHANGED req
     \/ /\ archive # {}
        /\ \E i \in RecallPlaces(req.messages) :
             req' = [req EXCEPT !.messages = Recalled(@, i), !.action = "light"]
  /\ pc' = IF req.trigger = "none" THEN "direct" ELSE "compress"
  /\ UNCHANGED <<session, keyed, archive, answered, faults>>

-----------------------------------------------------------------------------
(* What is archived before it is replaced, and the replacement. *)

\* commitArchiveIntent: the prefix of length n is a row, or nothing may be replaced.
Commit(n, ok) ==
  /\ May(~ok)
  /\ archive' = IF ok THEN archive \cup {n} ELSE archive

\* Mutated form of CompressContext.
CompressContextUnstored(ok) ==
  /\ pc = "compress"
  /\ IF Compressible(req.messages) = {}
     THEN ok /\ UNCHANGED <<req, archive, faults>>
     ELSE /\ Commit(ScanEnd(req.messages), ok)
          /\ req' = [req EXCEPT !.blocked = ~ok, !.messages = Compressed(@, ScanEnd(@))]
  /\ pc' = "collapse"
  /\ UNCHANGED <<session, keyed, answered>>

CompressContext(ok) ==
  LET ms == req.messages
  IN /\ pc = "compress"
     /\ IF Compressible(ms) = {}
        THEN ok /\ UNCHANGED <<req, archive, faults>>
        ELSE /\ Commit(ScanEnd(ms), ok)
             /\ req' = [req EXCEPT !.blocked = ~ok,
                          !.messages = IF ok THEN Compressed(ms, ScanEnd(ms)) ELSE ms]
     /\ pc' = "collapse"
     /\ UNCHANGED <<session, keyed, answered>>

\* The tokens a collapse leaves: half the threshold, as the local estimate counts it.
TokenFloor ==
  LET half == (Threshold * 10) \div (2 * CalibrationRatio)
  IN IF half < top + Reserve + MinFloor THEN MinFloor ELSE half - top - Reserve

Cut == IF req.blocked \/ ~enabled THEN 0 ELSE GuardedCutoff(req.messages, TokenFloor)

\* FrozenStubs.Store: what goes out stands for the raw messages there are.
Prefix(messages) == [messages |-> messages, cutoff |-> Len(Raw), print |-> wording]

CollapseHistory(ok, lost, lostMarks) ==
  LET after == ValidateToolPairs(Collapse(req.messages, Cut, Cut))
  IN /\ pc = "collapse" /\ Cut > 0
     /\ archive' = IF ok THEN archive \cup {Cut} ELSE archive
     /\ lost \/ lostMarks => ok
     /\ May(~ok \/ lost \/ lostMarks)
     /\ IF ok
        THEN /\ marks' = MarksWritten({}, lostMarks) /\ frozen' = Written(frozen, Prefix(after), lost)
             /\ req' = [req EXCEPT !.messages = after, !.action = "collapse"]
             /\ pc' = "sent"
        ELSE /\ req' = [req EXCEPT !.blocked = TRUE] /\ pc' = "fallback"
             /\ UNCHANGED <<marks, frozen>>
     /\ UNCHANGED <<session, base, samples, known, answered>>

NoCollapse ==
  /\ pc = "collapse" /\ Cut = 0
  /\ pc' = "fallback"
  /\ UNCHANGED <<session, req, keyed, archive, answered, faults>>

WouldDestroy(ms) == Len(ms) >= 2 /\ Tokens(ms) > Threshold

\* The stubs and summaries of the fallback: `aged` are the marks of Stage 1 and
\* later, `old` those of Stage 3, by their age.
Fallback(ok, aged, old, lost, lostMarks) ==
  LET ms == req.messages
      destroy == WouldDestroy(ms)
      stubbed == IF destroy THEN Stubify(ms, Len(Raw)) ELSE ms
      marked == marks.mem \cup IF destroy THEN Stubbed(ms) ELSE {}
      after == ValidateToolPairs(Compact(Decayed(stubbed, aged), old))
  IN /\ pc = "fallback" /\ ~req.blocked
     /\ old \subseteq aged /\ aged \subseteq marks.mem
     /\ ~ok => destroy
     /\ archive' = IF destroy /\ ok THEN archive \cup {Len(Raw)} ELSE archive
     /\ lost \/ lostMarks => ok
     /\ May(~ok \/ lost \/ lostMarks)
     /\ IF ok
        THEN /\ marks' = MarksWritten(marked, lostMarks) /\ frozen' = Written(frozen, Prefix(after), lost)
             /\ req' = [req EXCEPT !.messages = after, !.action = "fallback"]
             /\ pc' = "sent"
        ELSE /\ old = {} /\ aged = {}
             /\ req' = [req EXCEPT !.blocked = TRUE]
             /\ UNCHANGED <<pc, marks, frozen>>
     /\ UNCHANGED <<session, base, samples, known, answered>>

\* The archive is not available: refused in an emergency, else sent as it is.
Refuse ==
  /\ pc = "fallback" /\ req.blocked /\ req.pressure > Threshold + Margin
  /\ pc' = "idle" /\ req' = Blank
  /\ UNCHANGED <<session, keyed, archive, answered, faults>>

SendUnreplaced ==
  /\ pc = "fallback" /\ req.blocked /\ req.pressure <= Threshold + Margin
  /\ req' = [req EXCEPT !.action = "fail_closed"]
  /\ pc' = "sent"
  /\ UNCHANGED <<session, keyed, archive, answered, faults>>

Direct ==
  /\ pc = "direct"
  /\ req' = [req EXCEPT !.messages = ValidateToolPairs(@),
                        !.action = IF @ = "light" THEN "light" ELSE "direct"]
  /\ pc' = "sent"
  /\ UNCHANGED <<session, keyed, archive, answered, faults>>

-----------------------------------------------------------------------------
(* The answer, applyPressureBaselineUsage, and the faults. *)

Estimate == Tokens(req.messages) + top

\* Mutated form of NewBaseline.
WireBaseline(actual) ==
  Baseline("exact", actual, Len(req.messages), top,
           IF req.messages = Raw THEN wording ELSE wording + 2)

\* The baseline is bound to what the client sent, not to what went out.
NewBaseline(actual) == Baseline("exact", actual, Len(Raw), top, wording)

Answer(factor, lost) ==
  /\ pc = "sent" /\ req.measured
  /\ LET actual == (Estimate * factor) \div 10
         ratios == Append(samples, (actual * 10) \div Estimate)
     IN /\ base' = Written(base, NewBaseline(actual), lost)
        /\ samples' = After(ratios, IF Len(ratios) > Window THEN Len(ratios) - Window ELSE 0)
  /\ May(lost)
  /\ known' = TRUE
  /\ answered' = [top |-> top, print |-> wording]
  /\ pc' = "idle" /\ req' = Blank
  /\ UNCHANGED <<session, frozen, marks, archive>>

\* The answer fails, is cut short or belongs to a request that measured nothing.
NoAnswer ==
  /\ pc = "sent"
  /\ pc' = "idle" /\ req' = Blank
  /\ UNCHANGED <<session, keyed, archive, answered, faults>>

\* FrozenStubs.Evict, after a time without an access.
Evict ==
  /\ pc = "idle" /\ frozen.mem # Unloaded /\ May(TRUE)
  /\ frozen' = [frozen EXCEPT !.mem = Unloaded]
  /\ UNCHANGED <<session, pc, req, base, samples, marks, archive, known, answered>>

\* The process stops and starts again with its rows, which are read when they are needed.
Restart ==
  /\ May(TRUE)
  /\ pc' = "idle" /\ req' = Blank
  /\ frozen' = [frozen EXCEPT !.mem = Unloaded]
  /\ base' = [base EXCEPT !.mem = Unloaded]
  /\ samples' = <<>> /\ known' = FALSE
  /\ marks' = [marks EXCEPT !.mem = {}, !.loaded = FALSE]
  /\ answered' = IF base.mem \in {Unloaded, base.row} THEN answered ELSE Nothing
  /\ UNCHANGED <<session, archive>>

Next ==
  \/ \E kind \in ExchangeKinds, t \in Tops, spelling \in 0..1 : Ask(kind, t, spelling)
  \/ Resend
  \/ PassThrough
  \/ \E lostPrefix, lostBaseline, unread \in BOOLEAN : StartUnsafe(lostPrefix, lostBaseline, unread)
  \/ \E failed, unread \in BOOLEAN : StartSafe(failed, unread)
  \/ \E failed, lost \in BOOLEAN : Splice(failed, lost)
  \/ \E waited, lost \in BOOLEAN : Decide(waited, lost)
  \/ Recall
  \/ \E ok \in BOOLEAN : CompressContext(ok)
  \/ \E ok, lost, lostMarks \in BOOLEAN : CollapseHistory(ok, lost, lostMarks)
  \/ NoCollapse
  \/ \E ok, lost, lostMarks \in BOOLEAN, aged \in SUBSET marks.mem : \E old \in SUBSET aged :
       Fallback(ok, aged, old, lost, lostMarks)
  \/ Refuse
  \/ SendUnreplaced
  \/ Direct
  \/ \E factor \in Factors, lost \in BOOLEAN : Answer(factor, lost)
  \/ NoAnswer
  \/ Evict
  \/ Restart

Spec == Init /\ [][Next]_vars

-----------------------------------------------------------------------------
(* Properties. *)

\* What an archive row holds can be read again.
Archived == UNION {1..n : n \in archive}

\* Every message the client sent is on the wire or in an archive row, and what is on
\* the wire is there once and in its order: a frozen prefix that is put back with the
\* wrong cutoff, a cut that strands a tool result for the repair to drop, or a summary
\* that leaves a message out, breaks it (proxy.go, collapse.go, compaction.go).
HistoryIsWhole ==
  pc = "sent" =>
    LET ms == req.messages
    IN /\ 1..Len(Raw) \subseteq PositionsOf(ms) \cup Archived
       /\ \A i \in DOMAIN ms : \A j \in 1..(i - 1) : \A p \in ms[j].at, q \in ms[i].at : p < q

\* Nothing is replaced whose text is not in a committed archive row, on this request or
\* on an earlier one whose prefix is reused (commitArchiveIntent before Materialize).
ReplacedIsStored ==
  \A i \in DOMAIN req.messages :
    LET m == req.messages[i]
    IN m.form \in {"compressed", "block", "stub", "summary"} =>
         /\ m.at \subseteq Archived
         /\ m.ref # 0 => m.ref \in archive /\ m.at \subseteq 1..m.ref

\* A tool result that goes out comes after the use it answers, whatever was collapsed,
\* stubbed, merged or frozen before it (validate_pairs.go).
ResultsHaveUses ==
  pc = "sent" =>
    \A i \in DOMAIN req.messages :
      req.messages[i].results \subseteq UNION {req.messages[j].uses : j \in 1..(i - 1)}

\* The tool use that is being answered goes out with its answer, as the last two
\* messages, whatever becomes of the rest (activeToolPairIndices).
ActivePairIsWhole ==
  pc = "sent" /\ HasActivePair(Raw) =>
    LET ms == req.messages
        n == Len(Raw)
    IN /\ Len(ms) >= 2
       /\ Raw[n].results \subseteq ms[Len(ms)].results
       /\ Raw[n - 1].uses \subseteq ms[Len(ms) - 1].uses

\* Roles alternate on what the fallback sends, as they do on what the client sent
\* (compactedRolesForNeighbors, fixAlternation).
FallbackAlternates ==
  pc = "sent" /\ req.action = "fallback" =>
    \A i \in 1..(Len(req.messages) - 1) : req.messages[i].role # req.messages[i + 1].role

\* While system and tools stay the same, the usage of the last answer decides: neither
\* a collapse nor a frozen prefix between them makes the pressure fall back on the
\* local estimate, as it once did until every request was folded again (proxy.go:614-619).
AnswerIsUsed ==
  pc = "recall" /\ answered = [top |-> top, print |-> wording]
    /\ req.baseline.kind # "failed" =>
      req.source = "actual_plus_delta"

\* FOLLOWUPS.md:16 says that a prefix that is not found costs no more than one more
\* fold.  Here it cannot be read: the request is decided on the usage of the folded one
\* before it, below the threshold, and the whole history goes out above the emergency
\* line (selectPressure takes the baseline of what was sent for what is about to be).
LostPrefixIsRefolded ==
  pc = "sent" /\ req.measured /\ req.action \in {"direct", "light"} /\ frozen.mem = Unloaded =>
    Estimate <= Threshold + Margin

=============================================================================
