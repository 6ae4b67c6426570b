---------------------------- MODULE Conversation ----------------------------
(***************************************************************************)
(* What the compressing stages of HandleMessages do with the messages of a *)
(* request: CompressContext (compress.go), the cut and the block of a      *)
(* collapse (collapse.go, proxy.go), the stubs of the fallback             *)
(* (stubify.go), the merging of old stubs (compaction.go), the repair of   *)
(* tool pairs (validate_pairs.go) and recall (reexpand.go).                *)
(*                                                                         *)
(* A message stands for positions of the conversation the client sent.     *)
(* Positions count from 1; a cut c folds the messages 1..c away, so it is  *)
(* the index c of the code, which counts from 0.  0 is "no cut".           *)
(***************************************************************************)
EXTENDS Naturals, Sequences, SequencesExt, FiniteSetsExt

CONSTANTS
  Threshold,     \* stubify.token_threshold
  KeepRecent,    \* stubify.keep_recent
  GuardMargin,   \* the 4 of collapseCutoffWithBoundaryGuard
  BulkWeight,    \* the tokens of a tool result CompressContext calls large
  MinRun,        \* minCompactableRun
  MaxTries       \* collapseFloorRetryLimit

ASSUME ConversationAssumption ==
  /\ {Threshold, KeepRecent, GuardMargin, MaxTries} \subseteq Nat
  /\ BulkWeight \in Nat /\ BulkWeight > 1
  /\ MinRun \in Nat \ {0}

(* The roles are "user" and "assistant".  The forms: "short" and "long" are   *)
(* texts the client sent; "tool", "bulk" (a large one) and "plan" (a task    *)
(* list) tool blocks; "compressed", "block", "stub", "summary" and           *)
(* "recalled" what the proxy puts in their place, "blank" what it leaves of  *)
(* the first message.  `ref' is the archive row the marker names, or 0.      *)
Text(role, form, at, weight) ==
  [role |-> role, form |-> form, at |-> at, uses |-> {}, results |-> {},
   weight |-> weight, ref |-> 0]

ExchangeKinds == {"talk", "tool", "plan"}

\* Position i of a conversation: the first message of the user, then, for every
\* exchange, the answer of the model and what the user sends next.
RawMessage(kinds, i) ==
  IF i = 1 THEN Text("user", "short", {1}, 1)
  ELSE LET kind == kinds[i \div 2] IN
       IF i % 2 = 0
       THEN IF kind = "talk" THEN Text("assistant", "long", {i}, 2)
            ELSE [Text("assistant", kind, {i}, 1) EXCEPT !.uses = {i}]
       ELSE IF kind = "talk" THEN Text("user", "short", {i}, 1)
            ELSE [Text("user", IF kind = "tool" THEN "bulk" ELSE "tool", {i},
                       IF kind = "tool" THEN BulkWeight ELSE 1) EXCEPT !.results = {i - 1}]

RawMessages(kinds) == [i \in 1..(2 * Len(kinds) + 1) |-> RawMessage(kinds, i)]

Tokens(ms) == FoldLeft(LAMBDA sum, m : sum + m.weight, 0, ms)
After(ms, c) == SubSeq(ms, c + 1, Len(ms))

\* activeToolPairIndices: the last message answers a tool use of the one before.
HasActivePair(ms) ==
  /\ Len(ms) >= 2
  /\ ms[Len(ms)].role = "user" /\ ms[Len(ms) - 1].role = "assistant"
  /\ ms[Len(ms)].results \cap ms[Len(ms) - 1].uses # {}
ActivePair(ms) == IF HasActivePair(ms) THEN {Len(ms) - 1, Len(ms)} ELSE {}

-----------------------------------------------------------------------------
(* CompressContext. *)

ScanEnd(ms) == IF Len(ms) > KeepRecent THEN Len(ms) - KeepRecent ELSE 1

Compressible(ms) ==
  {i \in 2..ScanEnd(ms) : ms[i].form = "bulk"} \ ActivePair(ms)

Compressed(ms, ref) ==
  [i \in DOMAIN ms |->
     IF i \in Compressible(ms)
     THEN [ms[i] EXCEPT !.form = "compressed", !.weight = 1, !.ref = ref]
     ELSE ms[i]]

-----------------------------------------------------------------------------
(* Collapse. *)

\* The largest index a tail may start at: keep_recent, and the active pair whole.
CutLimit(ms) ==
  LET recent == IF Len(ms) > KeepRecent THEN Len(ms) - KeepRecent ELSE 0
  IN IF HasActivePair(ms) /\ recent > Len(ms) - 2 THEN Len(ms) - 2 ELSE recent

StartsWithResult(ms, c) == ms[c + 1].role = "user" /\ ms[c + 1].results # {}

\* A tail that starts with tool results: fold the pair, or keep it, if it must stay.
PairCut(ms, c, limit) ==
  IF c = Len(ms) \/ ~StartsWithResult(ms, c) THEN c
  ELSE IF c + 1 <= limit THEN c + 1
  ELSE IF c > 1 /\ ms[c].role = "assistant" /\ ms[c].uses # {} THEN c - 1
  ELSE c

\* Mutated form of CalcCollapseCutoff.
UnpairedCutoff(ms, floor) ==
  LET longEnough == {c \in 1..(Len(ms) - 1) : Tokens(After(ms, c)) >= floor}
      limit == CutLimit(ms)
  IN IF longEnough = {} \/ Max(longEnough) < 2 \/ limit < 2 THEN 0
     ELSE IF Max(longEnough) < limit THEN Max(longEnough) ELSE limit

CalcCollapseCutoff(ms, floor) ==
  LET longEnough == {c \in 1..(Len(ms) - 1) : Tokens(After(ms, c)) >= floor}
      limit == CutLimit(ms)
      first == IF longEnough = {} THEN 0 ELSE Max(longEnough)
      cut == PairCut(ms, IF first < limit THEN first ELSE limit, limit)
  IN IF first < 2 \/ limit = 0 \/ cut < 2 \/ cut >= Len(ms) \/ cut > limit THEN 0 ELSE cut

\* collapseCutoffWithBoundaryGuard: a higher floor while too few messages would stay.
GuardedCutoff(ms, floor) ==
  LET floors[k \in 0..MaxTries] ==
        IF k = 0 THEN floor ELSE (floors[k - 1] * 11) \div 10 + 1
      cut == [k \in 0..MaxTries |-> CalcCollapseCutoff(ms, floors[k])]
      last == Max({0} \cup {k \in 1..MaxTries : floors[k] <= (Threshold * 8) \div 10})
      roomy == {k \in 0..last : cut[k] # 0 /\ Len(ms) - cut[k] >= KeepRecent + GuardMargin}
  IN IF roomy = {} THEN cut[last] ELSE cut[Min(roomy)]

PositionsOf(ms) == UNION {ms[i].at : i \in DOMAIN ms}

BlankFirst(m) == [m EXCEPT !.form = "blank", !.at = {}, !.weight = 1]

\* The block is built from the texts before CompressContext, at the same positions.
Collapse(ms, c, ref) ==
  <<BlankFirst(ms[1]),
    [Text("user", "block", PositionsOf(SubSeq(ms, 1, c)), 1) EXCEPT !.ref = ref]>>
    \o After(ms, c)

-----------------------------------------------------------------------------
(* The fallback. *)

\* Messages before the protected tail; the first message is never touched.
Unprotected(ms) == 2..ScanEnd(ms)

\* Mutated form of Stubbed.
StubbedActivePair(ms) ==
  {i \in Unprotected(ms) : ms[i].weight > 1 \/ ms[i].uses \cup ms[i].results # {}}

\* stubifyMessages; `had[i]` is prevHadToolUse after the message i.
Stubbed(ms) ==
  LET worthwhile(i) == ms[i].weight > 1 \/ ms[i].uses \cup ms[i].results # {}
      stubs(i, prevHadToolUse) ==
        /\ i \notin ActivePair(ms) /\ worthwhile(i)
        /\ \/ prevHadToolUse /\ ms[i].results # {}
           \/ i \in Unprotected(ms) /\ ms[i].form # "plan"
      had[i \in DOMAIN ms] ==
        IF i = 1 THEN FALSE
        ELSE IF stubs(i, had[i - 1]) THEN ms[i].uses # {} ELSE had[i - 1]
  IN {i \in 2..Len(ms) : stubs(i, had[i - 1])}

StubOf(m, ref) ==
  [m EXCEPT !.form = "stub", !.uses = {}, !.results = {}, !.weight = 1,
            !.ref = IF m.results # {} THEN ref ELSE @]

Stubify(ms, ref) ==
  [i \in DOMAIN ms |-> IF i \in Stubbed(ms) THEN StubOf(ms[i], ref) ELSE ms[i]]

\* ApplyDecayBatch: the texts of the messages `aged` are cut; tool blocks stay.
Decayed(ms, aged) ==
  [i \in DOMAIN ms |->
     IF i \in aged \ ActivePair(ms) /\ ms[i].form = "long"
     THEN [ms[i] EXCEPT !.form = "stub", !.weight = 1]
     ELSE ms[i]]

-----------------------------------------------------------------------------
(* Compaction: runs of the messages `old` become summaries. *)

Mergeable(ms, old) == (old \cap Unprotected(ms)) \ ActivePair(ms)

Runs(ms, old) ==
  LET m == Mergeable(ms, old)
  IN {r \in m \X m :
        /\ r[2] >= r[1] + MinRun - 1 /\ r[1]..r[2] \subseteq m
        /\ r[1] - 1 \notin m /\ r[2] + 1 \notin m}

Opposite(role) == IF role = "user" THEN "assistant" ELSE "user"

\* Mutated form of RolesBetween.
OneRoleBetween(left, right) == <<Opposite(left)>>

\* compactedRolesForNeighbors; a run has a left neighbour, the first message.
RolesBetween(left, right) ==
  IF right \in {"none", left} THEN <<Opposite(left)>> ELSE <<Opposite(left), Opposite(right)>>

Summary(ms, s, e, role) == Text(role, "summary", PositionsOf(SubSeq(ms, s, e)), 1)

\* A run of one message has no room for two summaries and stays.
Summaries(ms, s, e) ==
  LET roles == RolesBetween(ms[s - 1].role, IF e < Len(ms) THEN ms[e + 1].role ELSE "none")
      mid == s + (e - s) \div 2
  IN IF Len(roles) = 1 THEN <<Summary(ms, s, e, roles[1])>>
     ELSE IF s = e THEN <<ms[s]>>
     ELSE <<Summary(ms, s, mid, roles[1]), Summary(ms, mid + 1, e, roles[2])>>

Compact(ms, old) ==
  LET merged(i) ==
        LET run == {r \in Runs(ms, old) : i \in r[1]..r[2]}
        IN IF run = {} THEN <<ms[i]>>
           ELSE LET r == CHOOSE r \in run : TRUE
                IN IF i = r[1] THEN Summaries(ms, r[1], r[2]) ELSE <<>>
  IN IF Runs(ms, old) = {} THEN ms ELSE FlattenSeq([i \in DOMAIN ms |-> merged(i)])

-----------------------------------------------------------------------------
(* validateToolPairs and recall. *)

AllUses(ms) == UNION {ms[i].uses : i \in DOMAIN ms}

Orphaned(ms, i) == ms[i].results \ AllUses(ms) # {}

\* A message of orphaned results goes, unless recalled text was added to it.
WithoutOrphans(ms) ==
  FlattenSeq([i \in DOMAIN ms |->
    IF ~Orphaned(ms, i) THEN <<ms[i]>>
    ELSE IF ms[i].form # "recalled" THEN <<>>
    ELSE <<[ms[i] EXCEPT !.at = {}, !.results = @ \cap AllUses(ms)]>>])

Merged(a, b) ==
  [a EXCEPT !.at = @ \cup b.at, !.uses = @ \cup b.uses, !.results = @ \cup b.results,
            !.weight = @ + b.weight]

\* mergeAdjacent: a message joins the last one if that is of the same role.
Joined(fixed, m) ==
  IF fixed # <<>> /\ Last(fixed).role = m.role
  THEN Append(Front(fixed), Merged(Last(fixed), m))
  ELSE Append(fixed, m)

FixAlternation(ms) ==
  LET fixed[k \in 0..Len(ms)] ==
        IF k = 0 THEN <<>> ELSE Joined(fixed[k - 1], ms[k])
  IN fixed[Len(ms)]

\* Mutated form of ValidateToolPairs.
UnrepairedPairs(ms) == ms

ValidateToolPairs(ms) ==
  IF \E i \in DOMAIN ms : Orphaned(ms, i) THEN FixAlternation(WithoutOrphans(ms)) ELSE ms

\* The recalled text replaces a stub or is added to the last message of the user.
RecallPlaces(ms) ==
  {i \in DOMAIN ms : ms[i].form = "stub"}
    \cup {Max({i \in DOMAIN ms : ms[i].role = "user"})}

Recalled(ms, i) ==
  [ms EXCEPT ![i] = [ms[i] EXCEPT !.form = "recalled", !.weight = @ + 1]]

=============================================================================
