------------------------ MODULE RequestPipelineProofs ------------------------
(***************************************************************************)
(* Theorems about RequestPipeline, for conversations of any length, any    *)
(* thresholds and any number of faults: what goes out has every message or *)
(* an archive row that has it, every tool result after its use, the tool   *)
(* use that is being answered, and roles that alternate after a fallback;  *)
(* and the usage of the last answer decides the next request.              *)
(***************************************************************************)
EXTENDS RequestPipeline, WellFoundedInduction, SequenceTheorems, TLAPS

-----------------------------------------------------------------------------
(* Induction and recursion                                                 *)

\* A set that holds 0 and the successors of its numbers holds them all.
LEMMA NatSetInduction ==
  ASSUME NEW S, 0 \in S, \A n \in Nat : n \in S => n + 1 \in S
  PROVE  \A n \in Nat : n \in S
  <1> SUFFICES ASSUME Nat \ S # {} PROVE FALSE
    OBVIOUS
  <1> DEFINE R == {ss \in Nat \X Nat : ss[1] < ss[2]}
             T == Nat \ S
  <1>1. IsWellFoundedOn(R, Nat)
    BY NatLessThanWellFounded DEF OpToRel
  <1>2. T \subseteq Nat /\ T # {}
    OBVIOUS
  <1> HIDE DEF T, R
  <1>3. \E x \in T : \A y \in T : <<y, x>> \notin R
    BY <1>1, <1>2, WFMin
  <1> USE DEF T, R
  <1>4. PICK x \in T : \A y \in T : ~(y < x)
    BY <1>3
  <1>5. x # 0 /\ x - 1 \in Nat /\ x - 1 \in T
    BY <1>4
  <1>6. QED
    BY <1>4, <1>5

\* f starts at index a with `first', and g makes every value of it from the one before.
Recursive(f, a, n, first, g) ==
  \A k \in a..n : f[k] = IF k = a THEN first ELSE g[k][f[k - 1]]

\* Such a function exists on every interval.
LEMMA RecursionExists ==
  ASSUME NEW V, NEW a \in Nat, NEW first \in V, NEW g \in [Nat -> [V -> V]], NEW last \in Nat
  PROVE  \E f \in [a..last -> V] : Recursive(f, a, last, first, g)
  <1> DEFINE S == {n \in Nat : \E f \in [a..n -> V] : Recursive(f, a, n, first, g)}
  <1>1. 0 \in S
    <2>1. Recursive([k \in a..0 |-> first], a, 0, first, g)
      BY DEF Recursive
    <2>2. QED
      BY <2>1
  <1>2. ASSUME NEW n \in Nat, n \in S PROVE n + 1 \in S
    <2>1. PICK f \in [a..n -> V] : Recursive(f, a, n, first, g)
      BY <1>2
    <2> DEFINE v == IF n + 1 = a THEN first ELSE IF n < a THEN first ELSE g[n + 1][f[n]]
               h == [k \in a..(n + 1) |-> IF k = n + 1 THEN v ELSE f[k]]
    <2>2. v \in V
      <3>1. CASE n < a
        BY <3>1
      <3>2. CASE ~(n < a)
        <4>1. f[n] \in V /\ g[n + 1] \in [V -> V]
          BY <3>2
        <4>2. g[n + 1][f[n]] \in V
          BY <4>1
        <4>3. QED
          BY <4>2
      <3>3. QED
        BY <3>1, <3>2
    <2> HIDE DEF v
    <2>3. h \in [a..(n + 1) -> V]
      <3>1. \A k \in a..(n + 1) : k # n + 1 => k \in a..n
        OBVIOUS
      <3>2. QED
        BY <2>2, <3>1
    <2>4. ASSUME NEW k \in a..(n + 1)
          PROVE  h[k] = IF k = a THEN first ELSE g[k][h[k - 1]]
      <3>1. CASE k = n + 1
        <4>1. h[k] = v
          BY <3>1
        <4>2. k # a => n \in a..n /\ h[n] = f[n]
          BY <3>1
        <4>3. QED
          BY <3>1, <4>1, <4>2 DEF v
      <3>2. CASE k # n + 1
        <4>1. k \in a..n /\ h[k] = f[k] /\ (k # a => k - 1 \in a..n /\ h[k - 1] = f[k - 1])
          BY <3>2
        <4>2. QED
          BY <2>1, <4>1 DEF Recursive
      <3>3. QED
        BY <3>1, <3>2
    <2>5. Recursive(h, a, n + 1, first, g)
      BY <2>4 DEF Recursive
    <2>6. QED
      BY <2>3, <2>5
  <1>3. \A n \in Nat : n \in S
    <2> HIDE DEF S
    <2>1. QED
      BY <1>1, <1>2, NatSetInduction
  <1>4. QED
    BY <1>3

\* A set of numbers that is bounded and not empty has its maximum and its minimum.
LEMMA Extrema ==
  ASSUME NEW n \in Nat, NEW S \in SUBSET (0..n), S # {}
  PROVE  /\ Max(S) \in S /\ \A y \in S : y <= Max(S)
         /\ Min(S) \in S /\ \A y \in S : Min(S) <= y
  <1> DEFINE Up == {k \in Nat : \A x \in S : x >= n - k => \E m \in S : \A y \in S : m >= y}
             Down == {k \in Nat : \A x \in S : x <= k => \E m \in S : \A y \in S : m <= y}
  <1>1. 0 \in Up
    OBVIOUS
  <1>2. ASSUME NEW k \in Nat, k \in Up PROVE k + 1 \in Up
    <2>1. ASSUME NEW x \in S, x >= n - (k + 1) PROVE \E m \in S : \A y \in S : m >= y
      <3>1. CASE \E z \in S : z >= n - k
        BY <1>2, <3>1
      <3>2. CASE \A z \in S : ~(z >= n - k)
        <4>1. \A y \in S : x >= y
          BY <2>1, <3>2
        <4>2. QED
          BY <4>1
      <3>3. QED
        BY <3>1, <3>2
    <2>2. QED
      BY <2>1
  <1>3. 0 \in Down
    OBVIOUS
  <1>4. ASSUME NEW k \in Nat, k \in Down PROVE k + 1 \in Down
    <2>1. ASSUME NEW x \in S, x <= k + 1 PROVE \E m \in S : \A y \in S : m <= y
      <3>1. CASE \E z \in S : z <= k
        BY <1>4, <3>1
      <3>2. CASE \A z \in S : ~(z <= k)
        <4>1. \A y \in S : x <= y
          BY <2>1, <3>2
        <4>2. QED
          BY <4>1
      <3>3. QED
        BY <3>1, <3>2
    <2>2. QED
      BY <2>1
  <1>5. n \in Up /\ n \in Down
    <2> HIDE DEF Up, Down
    <2>1. (\A k \in Nat : k \in Up) /\ (\A k \in Nat : k \in Down)
      BY <1>1, <1>2, <1>3, <1>4, NatSetInduction
    <2>2. QED
      BY <2>1
  <1>6. /\ \E m \in S : \A y \in S : m >= y
        /\ \E m \in S : \A y \in S : m <= y
    <2>1. PICK x \in S : TRUE
      OBVIOUS
    <2>2. x >= n - n /\ x <= n
      OBVIOUS
    <2>3. QED
      BY <1>5, <2>2
  <1>7. /\ Max(S) \in S /\ \A y \in S : Max(S) >= y
        /\ Min(S) \in S /\ \A y \in S : Min(S) <= y
    BY <1>6 DEF Max, Min
  <1>8. QED
    BY <1>7

-----------------------------------------------------------------------------
(* Messages                                                                *)

Roles == {"user", "assistant"}
RawForms == {"short", "long", "tool", "bulk", "plan"}
Replacing == {"compressed", "block", "stub", "summary"}
Forms == RawForms \cup Replacing \cup {"recalled", "blank"}

Message ==
  [role : Roles, form : Forms, at : SUBSET Nat, uses : SUBSET Nat, results : SUBSET Nat,
   weight : Nat, ref : Nat]

\* The positions that the archive rows `rows' can give back.
Rows(rows) == UNION {1..n : n \in rows}

\* A tool is used by the assistant, and answered by the user.
Sided(m) == (m.uses # {} => m.role = "assistant") /\ (m.results # {} => m.role = "user")

\* A text that was replaced is in the rows, and in the one that its marker names.
Stored(m, rows) ==
  m.form \in Replacing =>
    /\ m.at \subseteq Rows(rows)
    /\ m.ref # 0 => m.ref \in rows /\ m.at \subseteq 1..m.ref

Ordered(ms) ==
  \A i, j \in 1..Len(ms) : j < i => \A p \in ms[j].at, q \in ms[i].at : p < q

\* Every result comes after its use.
Answering(ms) ==
  \A i \in 1..Len(ms) : \A u \in ms[i].results :
    \E j \in 1..Len(ms) : j < i /\ u \in ms[j].uses

Alternates(ms) == \A i \in 1..Len(ms) : i + 1 \in 1..Len(ms) => ms[i].role # ms[i + 1].role

\* The tool use that the n-th message of raw answers is answered by the last message.
EndsAs(ms, raw, n) ==
  raw[n].results # {} =>
    /\ Len(ms) >= 2
    /\ raw[n].results \subseteq ms[Len(ms)].results
    /\ raw[n - 1].uses \subseteq ms[Len(ms) - 1].uses

\* ms and the rows hold the first n messages of a conversation.
Holds(ms, n, rows) ==
  /\ ms \in Seq(Message)
  /\ \A i \in 1..Len(ms) : Sided(ms[i]) /\ Stored(ms[i], rows) /\ ms[i].at \subseteq 1..n
  /\ \A p \in 1..n : p \in Rows(rows) \/ \E i \in 1..Len(ms) : p \in ms[i].at
  /\ Ordered(ms) /\ Answering(ms)

\* ms stands for the first n messages of raw, if the rows are stored.
Stands(ms, raw, n, rows) == Holds(ms, n, rows) /\ EndsAs(ms, raw, n)

\* m is the message at position i, in its place and with its tools.
InPlace(m, raw, i) ==
  /\ m \in Message /\ m.at = {i}
  /\ m.role = raw[i].role /\ m.uses = raw[i].uses /\ m.results = raw[i].results

\* What the stages before a collapse or a fallback leave of a message.
Shaped(ms, raw, rows) ==
  /\ ms \in Seq(Message) /\ Len(ms) = Len(raw)
  /\ \A i \in 1..Len(raw) :
       /\ InPlace(ms[i], raw, i) /\ Stored(ms[i], rows)
       /\ ms[i].form \in {raw[i].form, "recalled", "compressed"}
       /\ ms[i].form # "compressed" => ms[i].ref = 0

\* What the stubs and the cut texts of the fallback leave of the messages.
Reduced(ms, raw, rows) ==
  /\ ms \in Seq(Message) /\ Len(ms) = Len(raw)
  /\ \A i \in 1..Len(raw) :
       /\ ms[i].at = {i} /\ ms[i].role = raw[i].role /\ Stored(ms[i], rows)
       /\ ms[i].uses \in {raw[i].uses, {}} /\ ms[i].results \in {raw[i].results, {}}
       /\ ms[i].results # {} => ms[i - 1].uses = raw[i - 1].uses
       /\ ms[i].form = "long" => ms[i].ref = 0
  /\ raw[Len(raw)].results # {} => /\ ms[Len(raw)].results = raw[Len(raw)].results
                                   /\ ms[Len(raw) - 1].uses = raw[Len(raw) - 1].uses

-----------------------------------------------------------------------------
(* The conversation of the client                                          *)

\* What is used in a conversation the client sends.
Conversational(raw) ==
  /\ raw \in Seq(Message) /\ Len(raw) \in Nat /\ Len(raw) % 2 = 1
  /\ \A i \in 1..Len(raw) :
       /\ InPlace(raw[i], raw, i) /\ raw[i].form \in RawForms /\ raw[i].ref = 0
       /\ raw[i].role = IF i % 2 = 0 THEN "assistant" ELSE "user"
       /\ raw[i].uses # {} => /\ raw[i].uses = {i} /\ i % 2 = 0 /\ i + 1 <= Len(raw)
                              /\ raw[i + 1].results = {i}
       /\ raw[i].results # {} => /\ raw[i].results = {i - 1} /\ i % 2 = 1 /\ i > 1
                                 /\ raw[i - 1].uses = {i - 1}

\* The four messages of RawMessage.
LEMMA RawCases ==
  ASSUME NEW ks, NEW i, i # 1
  PROVE  LET kind == ks[i \div 2]
             even == i % 2 = 0
         IN  /\ even /\ kind = "talk" => RawMessage(ks, i) = Text("assistant", "long", {i}, 2)
             /\ even /\ kind # "talk" =>
                  RawMessage(ks, i) = [Text("assistant", kind, {i}, 1) EXCEPT !.uses = {i}]
             /\ ~even /\ kind = "talk" => RawMessage(ks, i) = Text("user", "short", {i}, 1)
             /\ ~even /\ kind # "talk" =>
                  RawMessage(ks, i) =
                    [Text("user", IF kind = "tool" THEN "bulk" ELSE "tool", {i},
                          IF kind = "tool" THEN BulkWeight ELSE 1) EXCEPT !.results = {i - 1}]
  BY Zenon DEF RawMessage

LEMMA RawConversational ==
  ASSUME NEW ks \in Seq(ExchangeKinds)
  PROVE  /\ Conversational(RawMessages(ks)) /\ Len(RawMessages(ks)) = 2 * Len(ks) + 1
  <1> DEFINE n == 2 * Len(ks) + 1
             raw == RawMessages(ks)
  <1>0. Len(ks) \in Nat /\ n \in Nat /\ n % 2 = 1
    OBVIOUS
  <1>1. raw = [i \in 1..n |-> RawMessage(ks, i)]
    BY DEF RawMessages
  <1> HIDE DEF raw
  <1>2. \A i \in 1..n : raw[i] = RawMessage(ks, i)
    BY <1>1
  <1>3. ASSUME NEW i \in 1..n, i > 1
        PROVE  /\ i \div 2 \in 1..Len(ks) /\ ks[i \div 2] \in {"talk", "tool", "plan"}
               /\ i % 2 = 0 => i + 1 <= n /\ (i + 1) % 2 = 1 /\ (i + 1) \div 2 = i \div 2
               /\ i % 2 # 0 => i % 2 = 1 /\ (i - 1) % 2 = 0 /\ (i - 1) \div 2 = i \div 2 /\ i - 1 > 1
    <2>1. i \div 2 \in 1..Len(ks)
      BY <1>0, <1>3
    <2>2. ks[i \div 2] \in {"talk", "tool", "plan"}
      BY <2>1 DEF ExchangeKinds
    <2>3. i % 2 = 0 => i + 1 <= n /\ (i + 1) % 2 = 1 /\ (i + 1) \div 2 = i \div 2
      BY <1>0, <1>3
    <2>4. i % 2 # 0 => i % 2 = 1 /\ (i - 1) % 2 = 0 /\ (i - 1) \div 2 = i \div 2 /\ i - 1 > 1
      BY <1>0, <1>3
    <2>5. QED
      BY <2>1, <2>2, <2>3, <2>4
  <1> HIDE DEF n
  <1>4. ASSUME NEW i \in 1..n
        PROVE  /\ raw[i] \in Message /\ raw[i].at = {i} /\ raw[i].form \in RawForms /\ raw[i].ref = 0
               /\ raw[i].role = IF i % 2 = 0 THEN "assistant" ELSE "user"
               /\ raw[i].uses = IF i > 1 /\ i % 2 = 0 /\ ks[i \div 2] # "talk" THEN {i} ELSE {}
               /\ raw[i].results = IF i > 1 /\ i % 2 # 0 /\ ks[i \div 2] # "talk" THEN {i - 1} ELSE {}
    <2>0. {} \in SUBSET Nat /\ {i} \in SUBSET Nat /\ {i - 1} \in SUBSET Nat /\ BulkWeight \in Nat
      BY ConversationAssumption
    <2>1. CASE i = 1
      <3>1. raw[i] = Text("user", "short", {i}, 1)
        BY <1>2, <2>1 DEF RawMessage
      <3>2. 1 % 2 = 1
        OBVIOUS
      <3>3. QED
        BY <2>0, <2>1, <3>1, <3>2 DEF Text, Message, Roles, Forms, RawForms
    <2>2. CASE i > 1 /\ i % 2 = 0 /\ ks[i \div 2] = "talk"
      <3>1. raw[i] = Text("assistant", "long", {i}, 2)
        <4>1. i # 1
          BY <1>0, <2>2
        <4>2. RawMessage(ks, i) = Text("assistant", "long", {i}, 2)
          BY <2>2, <4>1, RawCases, Zenon
        <4>3. QED
          BY <1>2, <4>2
      <3>2. QED
        BY <2>0, <2>2, <3>1 DEF Text, Message, Roles, Forms, RawForms
    <2>3. CASE i > 1 /\ i % 2 = 0 /\ ks[i \div 2] # "talk"
      <3>1. raw[i] = [Text("assistant", ks[i \div 2], {i}, 1) EXCEPT !.uses = {i}]
        <4>1. i # 1
          BY <1>0, <2>3
        <4>2. RawMessage(ks, i) = [Text("assistant", ks[i \div 2], {i}, 1) EXCEPT !.uses = {i}]
          BY <2>3, <4>1, RawCases, Zenon
        <4>3. QED
          BY <1>2, <4>2
      <3>2. ks[i \div 2] \in {"tool", "plan"}
        BY <1>3, <2>3
      <3>3. QED
        BY <2>0, <2>3, <3>1, <3>2 DEF Text, Message, Roles, Forms, RawForms
    <2>4. CASE i > 1 /\ i % 2 # 0 /\ ks[i \div 2] = "talk"
      <3>1. raw[i] = Text("user", "short", {i}, 1)
        <4>1. i # 1
          BY <1>0, <2>4
        <4>2. RawMessage(ks, i) = Text("user", "short", {i}, 1)
          BY <2>4, <4>1, RawCases, Zenon
        <4>3. QED
          BY <1>2, <4>2
      <3>2. QED
        BY <2>0, <2>4, <3>1 DEF Text, Message, Roles, Forms, RawForms
    <2>5. CASE i > 1 /\ i % 2 # 0 /\ ks[i \div 2] # "talk"
      <3> DEFINE form == IF ks[i \div 2] = "tool" THEN "bulk" ELSE "tool"
                 weight == IF ks[i \div 2] = "tool" THEN BulkWeight ELSE 1
      <3>1. raw[i] = [Text("user", form, {i}, weight) EXCEPT !.results = {i - 1}]
        <4>1. i # 1
          BY <1>0, <2>5
        <4>2. RawMessage(ks, i) = [Text("user", form, {i}, weight) EXCEPT !.results = {i - 1}]
          BY <2>5, <4>1, RawCases, Zenon
        <4>3. QED
          BY <1>2, <4>2
      <3>2. form \in {"bulk", "tool"} /\ weight \in Nat
        BY <2>0
      <3> HIDE DEF form, weight
      <3>3. /\ raw[i] \in Message /\ raw[i].at = {i} /\ raw[i].form \in RawForms /\ raw[i].ref = 0
            /\ raw[i].role = "user" /\ raw[i].uses = {} /\ raw[i].results = {i - 1}
        BY <2>0, <3>1, <3>2 DEF Text, Message, Roles, Forms, RawForms
      <3>4. QED
        BY <2>5, <3>3
    <2>6. QED
      BY <1>0, <2>1, <2>2, <2>3, <2>4, <2>5
  <1>5. Len(raw) = n /\ raw \in Seq(Message)
    <2>1. raw = [i \in 1..n |-> raw[i]] /\ \A i \in 1..n : raw[i] \in Message
      BY <1>1, <1>4
    <2>2. QED
      BY <1>0, <2>1
  <1>6. ASSUME NEW i \in 1..n
        PROVE  /\ raw[i].uses # {} => /\ raw[i].uses = {i} /\ i % 2 = 0 /\ i + 1 <= n
                                      /\ raw[i + 1].results = {i}
               /\ raw[i].results # {} => /\ raw[i].results = {i - 1} /\ i % 2 = 1 /\ i > 1
                                         /\ raw[i - 1].uses = {i - 1}
    <2>1. CASE raw[i].uses # {}
      <3>1. i > 1 /\ i % 2 = 0 /\ ks[i \div 2] # "talk" /\ raw[i].uses = {i} /\ raw[i].results = {}
        BY <1>4, <2>1
      <3>2. i + 1 \in 1..n /\ (i + 1) % 2 = 1 /\ (i + 1) \div 2 = i \div 2
        BY <1>0, <1>3, <3>1
      <3>3. raw[i + 1].results = {(i + 1) - 1}
        <4>1. (i + 1) % 2 # 0 /\ i + 1 > 1
          BY <1>0, <3>2
        <4>2. QED
          BY <1>4, <3>1, <3>2, <4>1
      <3>4. (i + 1) - 1 = i /\ i + 1 <= n
        BY <1>0, <3>2
      <3>5. QED
        BY <3>1, <3>3, <3>4
    <2>2. CASE raw[i].results # {}
      <3>1. i > 1 /\ i % 2 # 0 /\ ks[i \div 2] # "talk" /\ raw[i].results = {i - 1} /\ raw[i].uses = {}
        BY <1>4, <2>2
      <3>2. i % 2 = 1 /\ i - 1 \in 1..n /\ (i - 1) % 2 = 0 /\ (i - 1) \div 2 = i \div 2 /\ i - 1 > 1
        BY <1>0, <1>3, <3>1
      <3>3. raw[i - 1].uses = {i - 1}
        BY <1>4, <3>1, <3>2
      <3>4. QED
        BY <3>1, <3>2, <3>3
    <2>3. QED
      BY <2>1, <2>2
  <1>7. Conversational(raw)
    BY <1>0, <1>4, <1>5, <1>6 DEF Conversational, InPlace
  <1>8. QED
    BY <1>5, <1>7 DEF raw, n

\* Roles alternate, tools have their side, and only the last pair can be active.
LEMMA ConversationFacts ==
  ASSUME NEW raw, Conversational(raw)
  PROVE  /\ raw \in Seq(Message) /\ Len(raw) \in Nat /\ Len(raw) >= 1 /\ Len(raw) % 2 = 1
         /\ raw[1].role = "user" /\ raw[1].uses = {} /\ raw[1].results = {}
         /\ \A i \in 1..Len(raw) :
              /\ raw[i] \in Message /\ raw[i].at = {i} /\ raw[i].form \in RawForms /\ raw[i].ref = 0
              /\ Sided(raw[i]) /\ raw[i].role \in Roles
              /\ i + 1 \in 1..Len(raw) => raw[i].role # raw[i + 1].role
              /\ raw[i].uses # {} => /\ raw[i].uses = {i} /\ raw[i].results = {} /\ i + 1 \in 1..Len(raw)
                                     /\ raw[i + 1].results = {i}
                                     /\ i + 1 # Len(raw) => i + 3 <= Len(raw)
              /\ raw[i].results # {} => /\ raw[i].results = {i - 1} /\ raw[i].uses = {}
                                        /\ i - 1 \in 1..Len(raw) /\ i > 2
                                        /\ raw[i - 1].uses = {i - 1}
              /\ i % 2 = 0 => raw[i].results = {}
              /\ i % 2 # 0 => raw[i].uses = {}
  <1>1. raw \in Seq(Message) /\ Len(raw) \in Nat /\ Len(raw) % 2 = 1
    BY DEF Conversational
  <1>2. Len(raw) >= 1
    BY <1>1
  <1>3. ASSUME NEW i \in 1..Len(raw)
        PROVE  /\ raw[i] \in Message /\ raw[i].at = {i} /\ raw[i].form \in RawForms /\ raw[i].ref = 0
               /\ raw[i].role = IF i % 2 = 0 THEN "assistant" ELSE "user"
               /\ raw[i].uses # {} => /\ raw[i].uses = {i} /\ i % 2 = 0 /\ i + 1 <= Len(raw)
                                      /\ raw[i + 1].results = {i}
               /\ raw[i].results # {} => /\ raw[i].results = {i - 1} /\ i % 2 = 1 /\ i > 1
                                         /\ raw[i - 1].uses = {i - 1}
    BY DEF Conversational, InPlace
  <1>4. 1 % 2 = 1
    OBVIOUS
  <1>5. raw[1].role = "user" /\ raw[1].uses = {} /\ raw[1].results = {}
    BY <1>2, <1>3, <1>4
  <1>6. ASSUME NEW i \in 1..Len(raw)
        PROVE  /\ Sided(raw[i]) /\ raw[i].role \in Roles
               /\ i + 1 \in 1..Len(raw) => raw[i].role # raw[i + 1].role
               /\ raw[i].uses # {} => /\ raw[i].uses = {i} /\ raw[i].results = {} /\ i + 1 \in 1..Len(raw)
                                      /\ raw[i + 1].results = {i}
                                      /\ i + 1 # Len(raw) => i + 3 <= Len(raw)
               /\ raw[i].results # {} => /\ raw[i].results = {i - 1} /\ raw[i].uses = {}
                                         /\ i - 1 \in 1..Len(raw) /\ i > 2
                                         /\ raw[i - 1].uses = {i - 1}
               /\ i % 2 = 0 => raw[i].results = {}
               /\ i % 2 # 0 => raw[i].uses = {}
    <2>1. Sided(raw[i]) /\ raw[i].role \in Roles
      BY <1>3 DEF Sided, Roles
    <2>2. i + 1 \in 1..Len(raw) => raw[i].role # raw[i + 1].role
      <3>1. (i % 2 = 0) # ((i + 1) % 2 = 0)
        BY <1>1
      <3>2. QED
        BY <1>3, <3>1
    <2>3. i % 2 = 0 => raw[i].results = {}
      BY <1>3
    <2>4. i % 2 # 0 => raw[i].uses = {}
      BY <1>3
    <2>5. raw[i].uses # {} => /\ raw[i].uses = {i} /\ raw[i].results = {} /\ i + 1 \in 1..Len(raw)
                              /\ raw[i + 1].results = {i}
                              /\ i + 1 # Len(raw) => i + 3 <= Len(raw)
      <3>1. SUFFICES ASSUME raw[i].uses # {}
                     PROVE  /\ raw[i].uses = {i} /\ raw[i].results = {} /\ i + 1 \in 1..Len(raw)
                            /\ raw[i + 1].results = {i}
                            /\ i + 1 # Len(raw) => i + 3 <= Len(raw)
        OBVIOUS
      <3>2. raw[i].uses = {i} /\ i % 2 = 0 /\ i + 1 <= Len(raw) /\ raw[i + 1].results = {i}
        BY <1>3, <3>1
      <3>3. i + 1 # Len(raw) => i + 3 <= Len(raw)
        BY <1>1, <3>2
      <3>4. i + 1 \in 1..Len(raw)
        BY <1>1, <3>2
      <3>5. QED
        BY <2>3, <3>2, <3>3, <3>4
    <2>6. raw[i].results # {} => /\ raw[i].results = {i - 1} /\ raw[i].uses = {}
                                 /\ i - 1 \in 1..Len(raw) /\ i > 2
                                 /\ raw[i - 1].uses = {i - 1}
      <3>1. SUFFICES ASSUME raw[i].results # {}
                     PROVE  /\ raw[i].results = {i - 1} /\ raw[i].uses = {}
                            /\ i - 1 \in 1..Len(raw) /\ i > 2 /\ raw[i - 1].uses = {i - 1}
        OBVIOUS
      <3>2. raw[i].results = {i - 1} /\ i % 2 = 1 /\ i > 1 /\ raw[i - 1].uses = {i - 1}
        BY <1>3, <3>1
      <3>3. i - 1 \in 1..Len(raw) /\ i > 2
        BY <1>1, <3>2
      <3>4. QED
        BY <2>4, <3>2, <3>3
    <2>7. QED
      BY <2>1, <2>2, <2>3, <2>4, <2>5, <2>6
  <1>7. QED
    BY <1>1, <1>2, <1>3, <1>5, <1>6

-----------------------------------------------------------------------------
(* Messages that stand for the conversation                                *)

\* What is stored stays stored.
LEMMA RowsGrow ==
  ASSUME NEW rows, NEW more, rows \subseteq more
  PROVE  /\ Rows(rows) \subseteq Rows(more)
         /\ \A m : Stored(m, rows) => Stored(m, more)
  <1>1. Rows(rows) \subseteq Rows(more)
    BY DEF Rows
  <1>2. QED
    BY <1>1 DEF Stored

LEMMA StandsStored ==
  ASSUME NEW ms, NEW raw, NEW n, NEW rows, NEW more, rows \subseteq more, Stands(ms, raw, n, rows)
  PROVE  Stands(ms, raw, n, more)
  BY RowsGrow DEF Stands, Holds

LEMMA ShapedStored ==
  ASSUME NEW ms, NEW raw, NEW rows, NEW more, rows \subseteq more, Shaped(ms, raw, rows)
  PROVE  Shaped(ms, raw, more)
  BY RowsGrow DEF Shaped

\* The client's own messages.
LEMMA RawShaped ==
  ASSUME NEW raw, NEW rows, Conversational(raw) PROVE Shaped(raw, raw, rows)
  <1>1. \A i \in 1..Len(raw) : /\ raw[i] \in Message /\ raw[i].at = {i} /\ raw[i].ref = 0
                               /\ raw[i].form \in RawForms
    BY ConversationFacts
  <1>2. \A i \in 1..Len(raw) : Stored(raw[i], rows)
    BY <1>1 DEF Stored, RawForms, Replacing
  <1>3. QED
    BY <1>1, <1>2, ConversationFacts DEF Shaped, InPlace

\* Messages in their places stand for all of the conversation.
LEMMA ShapedStands ==
  ASSUME NEW raw, NEW rows, NEW ms, Conversational(raw), Shaped(ms, raw, rows)
  PROVE  Stands(ms, raw, Len(raw), rows)
  <1>1. /\ ms \in Seq(Message) /\ Len(ms) = Len(raw)
        /\ \A i \in 1..Len(raw) :
             /\ ms[i].at = {i} /\ Stored(ms[i], rows)
             /\ ms[i].role = raw[i].role /\ ms[i].uses = raw[i].uses /\ ms[i].results = raw[i].results
    BY DEF Shaped, InPlace
  <1>2. /\ Len(raw) \in Nat /\ Len(raw) >= 1
        /\ \A i \in 1..Len(raw) :
             /\ Sided(raw[i])
             /\ raw[i].results # {} => /\ raw[i].results = {i - 1} /\ i - 1 \in 1..Len(raw) /\ i > 2
                                       /\ raw[i - 1].uses = {i - 1}
    BY ConversationFacts
  <1>3. \A i \in 1..Len(ms) : Sided(ms[i]) /\ Stored(ms[i], rows) /\ ms[i].at \subseteq 1..Len(raw)
    BY <1>1, <1>2 DEF Sided
  <1>4. \A p \in 1..Len(raw) : \E i \in 1..Len(ms) : p \in ms[i].at
    BY <1>1
  <1>5. Ordered(ms)
    BY <1>1, <1>2 DEF Ordered
  <1>6. Answering(ms)
    <2> SUFFICES ASSUME NEW i \in 1..Len(ms), NEW u \in ms[i].results
                 PROVE  \E j \in 1..Len(ms) : j < i /\ u \in ms[j].uses
      BY DEF Answering
    <2>1. u = i - 1 /\ i - 1 \in 1..Len(ms) /\ i - 1 < i /\ raw[i - 1].uses = {i - 1}
      BY <1>1, <1>2
    <2>2. QED
      BY <1>1, <2>1
  <1>7. EndsAs(ms, raw, Len(raw))
    <2>1. raw[Len(raw)].results # {} => Len(ms) >= 2 /\ Len(raw) - 1 \in 1..Len(raw)
      BY <1>1, <1>2
    <2>2. QED
      BY <1>1, <1>2, <2>1 DEF EndsAs
  <1>8. QED
    BY <1>1, <1>3, <1>4, <1>5, <1>6, <1>7 DEF Stands, Holds

\* The conversation goes on behind what stands for its beginning.
LEMMA StandsLonger ==
  ASSUME NEW ms, NEW raw, NEW longer, NEW n, NEW rows, Stands(ms, raw, n, rows),
         longer[n] = raw[n], longer[n - 1] = raw[n - 1]
  PROVE  Stands(ms, longer, n, rows)
  BY DEF Stands, Holds, EndsAs

\* A recalled text is a text of the client again.
LEMMA RecalledFacts ==
  ASSUME NEW ms \in Seq(Message), NEW k
  PROVE  /\ Recalled(ms, k) \in Seq(Message) /\ Len(Recalled(ms, k)) = Len(ms)
         /\ \A i \in 1..Len(ms) :
              /\ Recalled(ms, k)[i].role = ms[i].role /\ Recalled(ms, k)[i].at = ms[i].at
              /\ Recalled(ms, k)[i].uses = ms[i].uses /\ Recalled(ms, k)[i].results = ms[i].results
              /\ Recalled(ms, k)[i].form \in {ms[i].form, "recalled"}
              /\ Recalled(ms, k)[i].ref = ms[i].ref
              /\ Recalled(ms, k)[i].form # "recalled" => Recalled(ms, k)[i] = ms[i]
              /\ Recalled(ms, k)[i] \in Message
  <1> DEFINE r == [i \in 1..Len(ms) |->
                     IF i = k THEN [ms[k] EXCEPT !.form = "recalled", !.weight = @ + 1] ELSE ms[i]]
  <1>1. Len(ms) \in Nat /\ \A i \in 1..Len(ms) : ms[i] \in Message
    OBVIOUS
  <1>2. Recalled(ms, k) = r
    BY <1>1 DEF Recalled
  <1>3. ASSUME NEW i \in 1..Len(ms)
        PROVE  /\ r[i] \in Message
               /\ r[i].role = ms[i].role /\ r[i].at = ms[i].at
               /\ r[i].uses = ms[i].uses /\ r[i].results = ms[i].results
               /\ r[i].form \in {ms[i].form, "recalled"} /\ r[i].ref = ms[i].ref
               /\ r[i].form # "recalled" => r[i] = ms[i]
    <2>1. CASE i = k
      <3>1. r[i] = [ms[i] EXCEPT !.form = "recalled", !.weight = @ + 1] /\ ms[i] \in Message
        BY <1>1, <2>1
      <3>2. "recalled" \in Forms
        BY DEF Forms
      <3>3. ms[i].weight \in Nat /\ ms[i].weight + 1 \in Nat
        BY <3>1 DEF Message
      <3>4. r[i] \in Message
        BY <3>1, <3>2, <3>3 DEF Message
      <3>5. /\ r[i].role = ms[i].role /\ r[i].at = ms[i].at
            /\ r[i].uses = ms[i].uses /\ r[i].results = ms[i].results
            /\ r[i].form = "recalled" /\ r[i].ref = ms[i].ref
        BY <3>1 DEF Message
      <3>6. QED
        BY <3>4, <3>5
    <2>2. CASE i # k
      BY <1>1, <2>2
    <2>3. QED
      BY <2>1, <2>2
  <1>4. r \in Seq(Message) /\ Len(r) = Len(ms)
    <2>1. r = [i \in 1..Len(ms) |-> r[i]] /\ \A i \in 1..Len(ms) : r[i] \in Message
      BY <1>3
    <2> HIDE DEF r
    <2>2. QED
      BY <1>1, <2>1
  <1> HIDE DEF r
  <1>5. QED
    BY <1>2, <1>3, <1>4

LEMMA RecalledStands ==
  ASSUME NEW ms, NEW raw, NEW n, NEW rows, NEW k, Stands(ms, raw, n, rows)
  PROVE  Stands(Recalled(ms, k), raw, n, rows)
  <1> DEFINE r == Recalled(ms, k)
  <1>1. ms \in Seq(Message) /\ Len(ms) \in Nat
    BY DEF Stands, Holds
  <1>2. /\ r \in Seq(Message) /\ Len(r) = Len(ms)
        /\ \A i \in 1..Len(ms) :
             /\ r[i].role = ms[i].role /\ r[i].at = ms[i].at
             /\ r[i].uses = ms[i].uses /\ r[i].results = ms[i].results
             /\ r[i].form # "recalled" => r[i] = ms[i]
    BY <1>1, RecalledFacts
  <1> HIDE DEF r
  <1>3. \A i \in 1..Len(r) : Sided(r[i]) /\ Stored(r[i], rows) /\ r[i].at \subseteq 1..n
    <2> SUFFICES ASSUME NEW i \in 1..Len(r)
                 PROVE  Sided(r[i]) /\ Stored(r[i], rows) /\ r[i].at \subseteq 1..n
      OBVIOUS
    <2>1. Sided(ms[i]) /\ Stored(ms[i], rows) /\ ms[i].at \subseteq 1..n
      BY <1>2 DEF Stands, Holds
    <2>2. Sided(r[i]) /\ r[i].at \subseteq 1..n
      BY <1>2, <2>1 DEF Sided
    <2>3. Stored(r[i], rows)
      <3>1. CASE r[i].form = "recalled"
        BY <3>1 DEF Stored, Replacing
      <3>2. CASE r[i].form # "recalled"
        BY <1>2, <2>1, <3>2
      <3>3. QED
        BY <3>1, <3>2
    <2>4. QED
      BY <2>2, <2>3
  <1>4. \A p \in 1..n : p \in Rows(rows) \/ \E i \in 1..Len(r) : p \in r[i].at
    BY <1>2 DEF Stands, Holds
  <1>5. Ordered(r) /\ Answering(r)
    BY <1>2 DEF Stands, Holds, Ordered, Answering
  <1>6. EndsAs(r, raw, n)
    <2>1. EndsAs(ms, raw, n)
      BY DEF Stands, Holds
    <2>2. Len(ms) >= 2 => Len(ms) \in 1..Len(ms) /\ Len(ms) - 1 \in 1..Len(ms)
      BY <1>1
    <2>3. QED
      BY <1>2, <2>1, <2>2 DEF EndsAs
  <1>7. QED
    BY <1>2, <1>3, <1>4, <1>5, <1>6 DEF Stands, Holds, r

LEMMA RecalledShaped ==
  ASSUME NEW raw, NEW rows, NEW k, Conversational(raw)
  PROVE  Shaped(Recalled(raw, k), raw, rows)
  <1> DEFINE r == Recalled(raw, k)
  <1>1. /\ raw \in Seq(Message)
        /\ \A i \in 1..Len(raw) : /\ raw[i].at = {i} /\ raw[i].ref = 0 /\ raw[i].form \in RawForms
    BY ConversationFacts
  <1>2. /\ r \in Seq(Message) /\ Len(r) = Len(raw)
        /\ \A i \in 1..Len(raw) :
             /\ r[i].role = raw[i].role /\ r[i].at = raw[i].at
             /\ r[i].uses = raw[i].uses /\ r[i].results = raw[i].results
             /\ r[i].form \in {raw[i].form, "recalled"} /\ r[i].ref = raw[i].ref
             /\ r[i] \in Message
    BY <1>1, RecalledFacts
  <1> HIDE DEF r
  <1>3. \A i \in 1..Len(raw) : Stored(r[i], rows)
    BY <1>1, <1>2 DEF Stored, RawForms, Replacing
  <1>4. \A i \in 1..Len(raw) : InPlace(r[i], raw, i)
    BY <1>1, <1>2 DEF InPlace
  <1>5. QED
    BY <1>1, <1>2, <1>3, <1>4 DEF Shaped, r

\* Where every result has its use there is nothing to repair.
LEMMA NothingOrphaned ==
  ASSUME NEW ms \in Seq(Message), Answering(ms)
  PROVE  ValidateToolPairs(ms) = ms
  <1>1. \A i \in DOMAIN ms : i \in 1..Len(ms)
    OBVIOUS
  <1>2. \A i \in DOMAIN ms : ms[i].results \subseteq AllUses(ms)
    BY <1>1 DEF Answering, AllUses
  <1>3. \A i \in DOMAIN ms : ~Orphaned(ms, i)
    BY <1>2 DEF Orphaned
  <1>4. QED
    BY <1>3 DEF ValidateToolPairs

LEMMA AfterFacts ==
  ASSUME NEW ms \in Seq(Message), NEW c \in Nat, c <= Len(ms)
  PROVE  /\ After(ms, c) \in Seq(Message) /\ Len(After(ms, c)) = Len(ms) - c
         /\ \A i \in 1..(Len(ms) - c) : c + i \in 1..Len(ms) /\ After(ms, c)[i] = ms[c + i]
  <1>1. Len(ms) \in Nat
    OBVIOUS
  <1>2. /\ After(ms, c) \in Seq(Message) /\ Len(After(ms, c)) = Len(ms) - c
        /\ \A i \in 1..(Len(ms) - c) : After(ms, c)[i] = ms[c + i]
    BY <1>1 DEF After
  <1>3. QED
    BY <1>1, <1>2

LEMMA JoinFacts ==
  ASSUME NEW p \in Seq(Message), NEW t \in Seq(Message)
  PROVE  /\ p \o t \in Seq(Message) /\ Len(p \o t) = Len(p) + Len(t)
         /\ \A i \in 1..Len(p) : (p \o t)[i] = p[i]
         /\ \A i \in (Len(p) + 1)..(Len(p) + Len(t)) :
              i - Len(p) \in 1..Len(t) /\ (p \o t)[i] = t[i - Len(p)]
  OBVIOUS

\* What holds the first c messages, with the messages behind them in their places.
LEMMA TailHolds ==
  ASSUME NEW raw, Conversational(raw), NEW rows, NEW ms, Shaped(ms, raw, rows),
         NEW p, NEW c \in 1..Len(raw), Holds(p, c, rows),
         c # Len(raw) => raw[c + 1].results = {}
  PROVE  /\ Holds(p \o After(ms, c), Len(raw), rows)
         /\ c # Len(raw) => EndsAs(p \o After(ms, c), raw, Len(raw))
  <1> DEFINE t == After(ms, c)
             s == p \o t
             n == Len(raw)
             l == Len(p)
  <1>0. n \in Nat /\ c \in Nat /\ c >= 1 /\ c <= n
    BY ConversationFacts
  <1>1. /\ ms \in Seq(Message) /\ Len(ms) = n
        /\ \A i \in 1..n :
             /\ ms[i].at = {i} /\ Sided(ms[i]) /\ Stored(ms[i], rows)
             /\ ms[i].results = raw[i].results
             /\ ms[i].results # {} => /\ ms[i].results = {i - 1} /\ i - 1 \in 1..n
                                      /\ ms[i - 1].uses = {i - 1}
    <2>1. /\ ms \in Seq(Message) /\ Len(ms) = n
          /\ \A i \in 1..n :
               /\ ms[i].at = {i} /\ Stored(ms[i], rows)
               /\ ms[i].role = raw[i].role /\ ms[i].results = raw[i].results /\ ms[i].uses = raw[i].uses
      BY DEF Shaped, InPlace
    <2>2. \A i \in 1..n :
             /\ Sided(raw[i])
             /\ raw[i].results # {} => /\ raw[i].results = {i - 1} /\ i - 1 \in 1..n
                                       /\ raw[i - 1].uses = {i - 1}
      BY ConversationFacts
    <2> HIDE DEF n
    <2>3. \A i \in 1..n : Sided(ms[i])
      BY <2>1, <2>2 DEF Sided
    <2>4. QED
      BY <2>1, <2>2, <2>3
  <1>2. /\ p \in Seq(Message) /\ l \in Nat
        /\ \A i \in 1..l : Sided(p[i]) /\ Stored(p[i], rows) /\ p[i].at \subseteq 1..c
        /\ \A q \in 1..c : q \in Rows(rows) \/ \E i \in 1..l : q \in p[i].at
        /\ Ordered(p) /\ Answering(p)
    BY DEF Holds
  <1>3. /\ t \in Seq(Message) /\ Len(t) = n - c
        /\ \A i \in 1..(n - c) : c + i \in 1..n /\ t[i] = ms[c + i]
    BY <1>0, <1>1, AfterFacts
  <1> HIDE DEF t, n
  <1>4. /\ s \in Seq(Message) /\ Len(s) = l + (n - c)
        /\ \A i \in 1..l : s[i] = p[i]
        /\ \A i \in (l + 1)..Len(s) : c + (i - l) \in (c + 1)..n /\ s[i] = ms[c + (i - l)]
    <2>0. p \in Seq(Message) /\ t \in Seq(Message) /\ Len(t) = n - c
      BY <1>2, <1>3
    <2>1. /\ s \in Seq(Message) /\ Len(s) = l + (n - c) /\ \A i \in 1..l : s[i] = p[i]
          /\ \A i \in (l + 1)..(l + (n - c)) : i - l \in 1..(n - c) /\ s[i] = t[i - l]
      <3>1. /\ p \o t \in Seq(Message) /\ Len(p \o t) = Len(p) + Len(t)
            /\ \A i \in 1..Len(p) : (p \o t)[i] = p[i]
            /\ \A i \in (Len(p) + 1)..(Len(p) + Len(t)) :
                 i - Len(p) \in 1..Len(t) /\ (p \o t)[i] = t[i - Len(p)]
        BY <2>0, JoinFacts
      <3>2. QED
        BY <2>0, <3>1
    <2>2. \A i \in (l + 1)..Len(s) : i - l \in 1..(n - c) /\ s[i] = t[i - l]
      BY <2>1
    <2>3. \A i \in (l + 1)..Len(s) : c + (i - l) \in (c + 1)..n
      BY <1>1, <1>2, <2>1
    <2>4. QED
      BY <1>3, <2>1, <2>2, <2>3
  <1> HIDE DEF s
  <1>5. \A i \in 1..Len(s) : i \in 1..l \/ i \in (l + 1)..Len(s)
    BY <1>2
  <1>6. \A i \in 1..Len(s) : Sided(s[i]) /\ Stored(s[i], rows) /\ s[i].at \subseteq 1..n
    <2>1. ASSUME NEW i \in 1..l PROVE Sided(s[i]) /\ Stored(s[i], rows) /\ s[i].at \subseteq 1..n
      <3>1. p[i].at \subseteq 1..c /\ 1..c \subseteq 1..n
        BY <1>0, <1>2
      <3>2. QED
        BY <1>2, <1>4, <3>1
    <2>2. ASSUME NEW i \in (l + 1)..Len(s)
          PROVE  Sided(s[i]) /\ Stored(s[i], rows) /\ s[i].at \subseteq 1..n
      <3> DEFINE q == c + (i - l)
      <3>1. q \in (c + 1)..n /\ s[i] = ms[q]
        BY <1>4
      <3> HIDE DEF q
      <3>2. QED
        <4>1. q \in 1..n
          BY <1>0, <3>1
        <4>2. ms[q].at \subseteq 1..n
          BY <1>1, <4>1
        <4>3. QED
          BY <1>1, <3>1, <4>1, <4>2
    <2>3. QED
      BY <1>5, <2>1, <2>2
  <1>7. ASSUME NEW q \in 1..n PROVE q \in Rows(rows) \/ \E i \in 1..Len(s) : q \in s[i].at
    <2>1. CASE q \in 1..c
      <3>1. CASE q \in Rows(rows)
        BY <3>1
      <3>2. CASE q \notin Rows(rows)
        <4>1. PICK i \in 1..l : q \in p[i].at
          BY <1>2, <2>1, <3>2
        <4>2. i \in 1..Len(s) /\ s[i] = p[i]
          BY <1>1, <1>2, <1>4 DEF n
        <4>3. QED
          BY <4>1, <4>2
      <3>3. QED
        BY <3>1, <3>2
    <2>2. CASE q \notin 1..c
      <3> DEFINE i == l + (q - c)
      <3>1. i \in (l + 1)..Len(s) /\ c + (i - l) = q /\ i \in 1..Len(s)
        BY <1>1, <1>2, <1>4, <2>2
      <3>2. s[i] = ms[q]
        BY <1>4, <3>1
      <3>3. q \in s[i].at
        BY <1>1, <3>2
      <3>4. QED
        BY <3>1, <3>3
    <2>3. QED
      BY <2>1, <2>2
  <1>8. Ordered(s)
    <2> SUFFICES ASSUME NEW i \in 1..Len(s), NEW j \in 1..Len(s), j < i,
                        NEW x \in s[j].at, NEW y \in s[i].at
                 PROVE  x < y
      BY DEF Ordered
    <2>1. CASE i \in 1..l
      <3>1. j \in 1..l
        BY <1>2, <2>1
      <3>2. QED
        BY <1>2, <1>4, <2>1, <3>1 DEF Ordered
    <2>2. CASE i \in (l + 1)..Len(s)
      <3>1. y = c + (i - l)
        <4>1. c + (i - l) \in 1..n /\ s[i] = ms[c + (i - l)]
          BY <1>4, <2>2
        <4>2. QED
          BY <1>1, <4>1
      <3>2. CASE j \in 1..l
        <4>1. x \in 1..c
          BY <1>2, <1>4, <3>2
        <4>2. QED
          BY <1>2, <2>2, <3>1, <4>1
      <3>3. CASE j \in (l + 1)..Len(s)
        <4>1. c + (j - l) \in 1..n /\ s[j] = ms[c + (j - l)]
          BY <1>4, <3>3
        <4>2. x = c + (j - l)
          BY <1>1, <4>1
        <4>3. QED
          BY <1>2, <3>1, <4>2
      <3>4. QED
        BY <1>5, <3>2, <3>3
    <2>3. QED
      BY <1>5, <2>1, <2>2
  <1>9. Answering(s)
    <2> SUFFICES ASSUME NEW i \in 1..Len(s), NEW u \in s[i].results
                 PROVE  \E j \in 1..Len(s) : j < i /\ u \in s[j].uses
      BY DEF Answering
    <2>1. CASE i \in 1..l
      <3>1. PICK j \in 1..l : j < i /\ u \in p[j].uses
        BY <1>2, <1>4, <2>1 DEF Answering
      <3>2. j \in 1..Len(s)
        BY <1>2, <2>1, <3>1
      <3>3. QED
        BY <1>4, <2>1, <3>1, <3>2
    <2>2. CASE i \in (l + 1)..Len(s)
      <3> DEFINE q == c + (i - l)
      <3>1. q \in (c + 1)..n /\ q \in 1..n /\ s[i] = ms[q]
        BY <1>4, <2>2
      <3>2. u = q - 1 /\ ms[q - 1].uses = {q - 1}
        BY <1>1, <3>1
      <3>3. q # c + 1
        <4>1. ms[c + 1].results # {} => c = n \/ c + 1 \notin 1..n
          BY <1>1 DEF n
        <4>2. QED
          BY <1>0, <3>1, <4>1
      <3>4. i - 1 \in (l + 1)..Len(s) /\ c + ((i - 1) - l) = q - 1
        <4>1. i \in Int /\ i >= l + 1 /\ i <= Len(s) /\ Len(s) \in Nat /\ l \in Nat
          BY <1>2, <1>4, <2>2
        <4>2. i # l + 1
          BY <1>0, <3>3, <4>1
        <4>3. QED
          BY <1>0, <4>1, <4>2
      <3>5. s[i - 1] = ms[q - 1]
        BY <1>4, <3>4
      <3>6. i - 1 \in 1..Len(s) /\ i - 1 < i /\ u \in s[i - 1].uses
        BY <1>2, <3>2, <3>4, <3>5
      <3>7. QED
        BY <3>6
    <2>3. QED
      BY <1>5, <2>1, <2>2
  <1>10. ASSUME c # n PROVE EndsAs(s, raw, n)
    <2> SUFFICES ASSUME raw[n].results # {}
                 PROVE  /\ Len(s) >= 2 /\ raw[n].results \subseteq s[Len(s)].results
                        /\ raw[n - 1].uses \subseteq s[Len(s) - 1].uses
      BY DEF EndsAs
    <2>1. n \in 1..n /\ c + 1 # n
      BY <1>0, <1>10 DEF n
    <2>2. n - c >= 2
      BY <1>0, <1>10, <2>1
    <2>3. /\ Len(s) \in (l + 1)..Len(s) /\ c + (Len(s) - l) = n
          /\ Len(s) - 1 \in (l + 1)..Len(s) /\ c + ((Len(s) - 1) - l) = n - 1 /\ Len(s) >= 2
      BY <1>0, <1>2, <1>4, <2>2
    <2>4. s[Len(s)] = ms[n] /\ s[Len(s) - 1] = ms[n - 1]
      BY <1>4, <2>3
    <2>5. raw[n - 1].uses = ms[n - 1].uses
      BY <1>0, <2>2 DEF Shaped, InPlace, n
    <2>6. QED
      BY <1>1, <2>1, <2>3, <2>4, <2>5
  <1>11. QED
    BY <1>4, <1>6, <1>7, <1>8, <1>9, <1>10 DEF Holds, s, t, n

\* The frozen prefix, with the messages behind its cutoff.
LEMMA SpliceStands ==
  ASSUME NEW raw, Conversational(raw), NEW p, NEW c \in 1..Len(raw), c % 2 = 1, NEW rows,
         Stands(p, raw, c, rows)
  PROVE  Stands(p \o After(raw, c), raw, Len(raw), rows)
  <1>1. Holds(p, c, rows) /\ EndsAs(p, raw, c) /\ p \in Seq(Message)
    BY DEF Stands, Holds
  <1>2. c # Len(raw) => raw[c + 1].results = {}
    <2>0. Len(raw) \in Nat
      BY ConversationFacts
    <2>1. (c # Len(raw) => c + 1 \in 1..Len(raw)) /\ (c + 1) % 2 = 0
      BY <2>0
    <2>2. QED
      BY <2>1, ConversationFacts
  <1>3. Holds(p \o After(raw, c), Len(raw), rows)
    BY <1>1, <1>2, RawShaped, TailHolds
  <1>4. EndsAs(p \o After(raw, c), raw, Len(raw))
    <2>1. CASE c # Len(raw)
      BY <1>1, <1>2, <2>1, RawShaped, TailHolds
    <2>2. CASE c = Len(raw)
      <3>1. raw \in Seq(Message) /\ Len(raw) \in Nat
        BY ConversationFacts
      <3>2. After(raw, c) \in Seq(Message) /\ Len(After(raw, c)) = 0
        BY <2>2, <3>1, AfterFacts
      <3>3. p \o After(raw, c) = p
        BY <1>1, <3>2
      <3>4. QED
        BY <1>1, <2>2, <3>3
    <2>3. QED
      BY <2>1, <2>2
  <1>5. QED
    BY <1>3, <1>4 DEF Stands

-----------------------------------------------------------------------------
(* CompressContext and the collapse                                        *)

LEMMA ShapedReduced ==
  ASSUME NEW raw, Conversational(raw), NEW rows, NEW ms, Shaped(ms, raw, rows)
  PROVE  Reduced(ms, raw, rows)
  <1> DEFINE n == Len(raw)
  <1>1. /\ ms \in Seq(Message) /\ Len(ms) = n
        /\ \A i \in 1..n : /\ ms[i].at = {i} /\ ms[i].role = raw[i].role /\ Stored(ms[i], rows)
                           /\ ms[i].uses = raw[i].uses /\ ms[i].results = raw[i].results
                           /\ ms[i].form = "long" => ms[i].ref = 0
    BY DEF Shaped, InPlace
  <1>2. n \in 1..n /\ \A i \in 1..n : raw[i].results # {} => i - 1 \in 1..n
    <2>1. n \in Nat /\ n >= 1
      BY ConversationFacts
    <2>2. QED
      BY <2>1, ConversationFacts
  <1> HIDE DEF n
  <1>3. QED
    BY <1>1, <1>2 DEF Reduced, n

\* Only the tool use that the client's last message answers is active.
LEMMA ActiveReduced ==
  ASSUME NEW raw, Conversational(raw), NEW rows, NEW ms, Reduced(ms, raw, rows)
  PROVE  ActivePair(ms) = IF raw[Len(raw)].results # {} THEN {Len(raw) - 1, Len(raw)} ELSE {}
  <1> DEFINE n == Len(raw)
  <1>1. n \in Nat /\ n >= 1 /\ n \in 1..n
    BY ConversationFacts
  <1>2. raw[n].results # {} => /\ raw[n].results = {n - 1} /\ n - 1 \in 1..n /\ n > 2
                               /\ raw[n - 1].uses = {n - 1} /\ Sided(raw[n]) /\ Sided(raw[n - 1])
    BY <1>1, ConversationFacts
  <1>3. /\ Len(ms) = n /\ ms[n].results \in {raw[n].results, {}} /\ ms[n].role = raw[n].role
        /\ raw[n].results # {} => /\ ms[n].results = raw[n].results
                                  /\ ms[n - 1].uses = raw[n - 1].uses
    BY <1>1 DEF Reduced
  <1>4. n - 1 \in 1..n => ms[n - 1].role = raw[n - 1].role
    BY DEF Reduced
  <1> HIDE DEF n
  <1>5. HasActivePair(ms) <=> raw[n].results # {}
    <2>1. CASE raw[n].results # {}
      <3>1. n - 1 \in {n - 1}
        OBVIOUS
      <3>2. raw[n].results \cap raw[n - 1].uses # {}
        BY <1>2, <2>1, <3>1
      <3>3. raw[n].role = "user" /\ raw[n - 1].role = "assistant"
        BY <1>2, <2>1, <3>1 DEF Sided
      <3>4. QED
        BY <1>1, <1>2, <1>3, <1>4, <2>1, <3>2, <3>3 DEF HasActivePair
    <2>2. CASE raw[n].results = {}
      BY <1>3, <2>2 DEF HasActivePair
    <2>3. QED
      BY <2>1, <2>2
  <1>6. QED
    BY <1>3, <1>5 DEF ActivePair, n

LEMMA ActiveShaped ==
  ASSUME NEW raw, Conversational(raw), NEW rows, NEW ms, Shaped(ms, raw, rows)
  PROVE  ActivePair(ms) = IF raw[Len(raw)].results # {} THEN {Len(raw) - 1, Len(raw)} ELSE {}
  BY ShapedReduced, ActiveReduced

Replaced(m, form, ref) == [m EXCEPT !.form = form, !.weight = 1, !.ref = ref]

LEMMA ReplacedFacts ==
  ASSUME NEW m \in Message, NEW form \in Forms, NEW ref \in Nat
  PROVE  /\ Replaced(m, form, ref) \in Message
         /\ Replaced(m, form, ref).form = form /\ Replaced(m, form, ref).ref = ref
         /\ Replaced(m, form, ref).role = m.role /\ Replaced(m, form, ref).at = m.at
         /\ Replaced(m, form, ref).uses = m.uses /\ Replaced(m, form, ref).results = m.results
  <1>1. Replaced(m, form, ref) \in Message
    BY DEF Message, Replaced
  <1>2. QED
    BY <1>1 DEF Message, Replaced

\* What CompressContext replaces is before the end of its scan.
LEMMA CompressedShaped ==
  ASSUME NEW raw, Conversational(raw), NEW rows, NEW ms, Shaped(ms, raw, rows)
  PROVE  Shaped(Compressed(ms, ScanEnd(ms)), raw, rows \cup {ScanEnd(ms)})
  <1> DEFINE k == ScanEnd(ms)
             r == Compressed(ms, k)
             n == Len(raw)
  <1>1. n \in Nat
    BY ConversationFacts
  <1>2. /\ ms \in Seq(Message) /\ Len(ms) = n
        /\ \A i \in 1..n :
             /\ InPlace(ms[i], raw, i) /\ Stored(ms[i], rows)
             /\ ms[i].form \in {raw[i].form, "recalled", "compressed"}
             /\ ms[i].form # "compressed" => ms[i].ref = 0
    BY DEF Shaped
  <1>3. k \in Nat
    BY <1>1, <1>2, ConversationAssumption DEF ScanEnd
  <1>4. r = [i \in 1..n |-> IF i \in Compressible(ms)
                            THEN [ms[i] EXCEPT !.form = "compressed", !.weight = 1, !.ref = k]
                            ELSE ms[i]]
    BY <1>2 DEF Compressed
  <1>5. \A i \in Compressible(ms) : i \in 2..k
    BY DEF Compressible, k
  <1> HIDE DEF k, r, n
  <1>6. ASSUME NEW i \in 1..n, i \in Compressible(ms)
        PROVE  /\ r[i] \in Message /\ r[i].form = "compressed" /\ r[i].at = {i}
               /\ r[i].ref = k /\ i \in 1..k
               /\ r[i].role = ms[i].role /\ r[i].uses = ms[i].uses /\ r[i].results = ms[i].results
    <2>1. r[i] = Replaced(ms[i], "compressed", k)
      BY <1>4, <1>6 DEF Replaced
    <2>2. ms[i] \in Message /\ ms[i].at = {i}
      BY <1>2 DEF InPlace
    <2>3. "compressed" \in Forms /\ 1 \in Nat
      BY DEF Forms, Replacing
    <2>4. /\ r[i] \in Message /\ r[i].form = "compressed" /\ r[i].ref = k
          /\ r[i].role = ms[i].role /\ r[i].at = ms[i].at
          /\ r[i].uses = ms[i].uses /\ r[i].results = ms[i].results
      BY <1>3, <2>1, <2>2, <2>3, ReplacedFacts
    <2>5. i \in 1..k
      BY <1>3, <1>5, <1>6
    <2>6. QED
      BY <2>2, <2>4, <2>5
  <1>7. ASSUME NEW i \in 1..n
        PROVE  /\ InPlace(r[i], raw, i) /\ Stored(r[i], rows \cup {k})
               /\ r[i].form \in {raw[i].form, "recalled", "compressed"}
               /\ r[i].form # "compressed" => r[i].ref = 0
    <2>1. CASE i \in Compressible(ms)
      <3>1. InPlace(r[i], raw, i)
        BY <1>2, <1>6, <2>1 DEF InPlace
      <3>2. k \in rows \cup {k} /\ r[i].at \subseteq 1..k /\ 1..k \subseteq Rows(rows \cup {k})
        BY <1>6, <2>1 DEF Rows
      <3>3. Stored(r[i], rows \cup {k})
        BY <1>6, <2>1, <3>2 DEF Stored
      <3>4. QED
        BY <1>6, <2>1, <3>1, <3>3
    <2>2. CASE i \notin Compressible(ms)
      <3>1. r[i] = ms[i]
        BY <1>4, <2>2
      <3>2. Stored(ms[i], rows \cup {k})
        <4>1. rows \subseteq rows \cup {k}
          OBVIOUS
        <4>2. QED
          BY <1>2, <4>1, RowsGrow
      <3>3. QED
        BY <1>2, <3>1, <3>2
    <2>3. QED
      BY <2>1, <2>2
  <1>8. r \in Seq(Message) /\ Len(r) = n
    <2>1. r = [i \in 1..n |-> r[i]] /\ \A i \in 1..n : r[i] \in Message
      BY <1>4, <1>7 DEF InPlace
    <2>2. QED
      BY <1>1, <2>1
  <1>9. QED
    BY <1>7, <1>8 DEF Shaped, k, r, n

\* A tail that a cut leaves does not start with tool results.
LEMMA PairCutFacts ==
  ASSUME NEW raw, Conversational(raw), NEW rows, NEW ms, Shaped(ms, raw, rows),
         NEW c \in Nat, NEW limit \in Nat, c < Len(ms)
  PROVE  /\ PairCut(ms, c, limit) \in Nat
         /\ PairCut(ms, c, limit) < Len(ms) => raw[PairCut(ms, c, limit) + 1].results = {}
  <1> DEFINE n == Len(raw)
             cut == PairCut(ms, c, limit)
  <1>1. /\ n \in Nat /\ Len(ms) = n /\ c + 1 \in 1..n
        /\ \A i \in 1..n : ms[i].role = raw[i].role /\ ms[i].uses = raw[i].uses
                           /\ ms[i].results = raw[i].results
    <2>1. n \in Nat
      BY ConversationFacts
    <2>2. Len(ms) = n /\ \A i \in 1..n : InPlace(ms[i], raw, i)
      BY DEF Shaped
    <2>3. QED
      BY <2>1, <2>2 DEF InPlace
  <1>2. \A i \in 1..n :
          /\ Sided(raw[i]) /\ (i % 2 = 0 => raw[i].results = {})
          /\ raw[i].results # {} => /\ raw[i].results = {i - 1} /\ i - 1 \in 1..n /\ i > 2
                                    /\ raw[i - 1].uses = {i - 1}
    BY ConversationFacts
  <1> HIDE DEF n
  <1>3. CASE c = Len(ms) \/ ~StartsWithResult(ms, c)
    <2>1. cut = c
      BY <1>3 DEF PairCut
    <2>2. raw[c + 1].results = {}
      BY <1>1, <1>2, <1>3 DEF StartsWithResult, Sided
    <2>3. QED
      BY <2>1, <2>2
  <1>4. CASE c # Len(ms) /\ StartsWithResult(ms, c)
    <2>1. raw[c + 1].results # {}
      BY <1>1, <1>4 DEF StartsWithResult
    <2>2. /\ c \in 1..n /\ c > 1 /\ raw[c].uses = {c} /\ (c + 1) % 2 # 0
      <3>1. (c + 1) - 1 = c
        OBVIOUS
      <3>2. QED
        BY <1>1, <1>2, <2>1, <3>1
    <2>3. CASE c + 1 <= limit
      <3>1. cut = c + 1
        BY <1>4, <2>3 DEF PairCut
      <3>2. (c + 2) % 2 = 0
        BY <2>2
      <3>3. c + 1 < n => c + 2 \in 1..n /\ raw[c + 2].results = {}
        BY <1>1, <1>2, <3>2
      <3>4. (c + 1) + 1 = c + 2
        OBVIOUS
      <3>5. QED
        BY <1>1, <3>1, <3>3, <3>4
    <2>4. CASE ~(c + 1 <= limit)
      <3>1. ms[c].role = "assistant" /\ ms[c].uses # {} /\ c \in {c}
        BY <1>1, <1>2, <2>2 DEF Sided
      <3>2. cut = c - 1
        BY <1>4, <2>2, <2>4, <3>1 DEF PairCut
      <3>3. c % 2 = 0 /\ (c - 1) + 1 = c /\ c - 1 \in Nat
        BY <2>2
      <3>4. raw[c].results = {}
        BY <1>2, <2>2, <3>3
      <3>5. QED
        BY <3>2, <3>3, <3>4
    <2>5. QED
      BY <2>3, <2>4
  <1>5. QED
    BY <1>3, <1>4

LEMMA CutLimitFacts ==
  ASSUME NEW ms \in Seq(Message) PROVE CutLimit(ms) \in Nat
  <1>1. Len(ms) \in Nat /\ KeepRecent \in Nat
    BY ConversationAssumption
  <1>2. HasActivePair(ms) => Len(ms) >= 2
    BY DEF HasActivePair
  <1>3. QED
    BY <1>1, <1>2 DEF CutLimit

\* A cut leaves the first message and at least one behind the block.
LEMMA CutoffFacts ==
  ASSUME NEW raw, Conversational(raw), NEW rows, NEW ms, Shaped(ms, raw, rows), NEW floor
  PROVE  \/ CalcCollapseCutoff(ms, floor) = 0
         \/ /\ CalcCollapseCutoff(ms, floor) \in 2..(Len(raw) - 1)
            /\ raw[CalcCollapseCutoff(ms, floor) + 1].results = {}
  <1> DEFINE longEnough == {c \in 1..(Len(ms) - 1) : Tokens(After(ms, c)) >= floor}
             limit == CutLimit(ms)
             first == IF longEnough = {} THEN 0 ELSE Max(longEnough)
             least == IF first < limit THEN first ELSE limit
             cut == PairCut(ms, least, limit)
  <1>1. ms \in Seq(Message) /\ Len(ms) = Len(raw) /\ Len(raw) \in Nat /\ Len(raw) >= 1
    BY ConversationFacts DEF Shaped
  <1>2. limit \in Nat
    BY <1>1, CutLimitFacts
  <1>3. first \in Nat /\ first < Len(ms)
    <2>1. CASE longEnough = {}
      BY <1>1, <2>1
    <2>2. CASE longEnough # {}
      <3>1. /\ longEnough \in SUBSET (0..(Len(ms) - 1)) /\ Len(ms) - 1 \in Nat
            /\ \A k \in longEnough : k \in 0..(Len(ms) - 1)
        BY <1>1
      <3> HIDE DEF longEnough
      <3>2. first = Max(longEnough) /\ Max(longEnough) \in longEnough
        BY <2>2, <3>1, Extrema
      <3>3. first \in 0..(Len(ms) - 1)
        BY <3>1, <3>2, Zenon
      <3> HIDE DEF first
      <3>4. QED
        BY <1>1, <3>3
    <2>3. QED
      BY <2>1, <2>2
  <1>4. CalcCollapseCutoff(ms, floor) =
          IF first < 2 \/ limit = 0 \/ cut < 2 \/ cut >= Len(ms) \/ cut > limit THEN 0 ELSE cut
    BY Zenon DEF CalcCollapseCutoff
  <1> HIDE DEF longEnough, limit, first
  <1>5. least \in Nat /\ least < Len(ms)
    BY <1>2, <1>3
  <1> HIDE DEF least
  <1>6. cut \in Nat /\ (cut < Len(ms) => raw[cut + 1].results = {})
    BY <1>2, <1>5, PairCutFacts
  <1> HIDE DEF cut
  <1>7. QED
    BY <1>1, <1>4, <1>6

\* The guard tries cuts and takes one of them.
GuardedWith(ms, floors) ==
  LET cut == [k \in 0..MaxTries |-> CalcCollapseCutoff(ms, floors[k])]
      last == Max({0} \cup {k \in 1..MaxTries : floors[k] <= (Threshold * 8) \div 10})
      roomy == {k \in 0..last : cut[k] # 0 /\ Len(ms) - cut[k] >= KeepRecent + GuardMargin}
  IN  IF roomy = {} THEN cut[last] ELSE cut[Min(roomy)]

LEMMA GuardChoice ==
  ASSUME NEW ms, NEW floors, Len(ms) \in Nat
  PROVE  \E x : GuardedWith(ms, floors) = CalcCollapseCutoff(ms, x)
  <1> DEFINE cut == [k \in 0..MaxTries |-> CalcCollapseCutoff(ms, floors[k])]
             tried == {0} \cup {k \in 1..MaxTries : floors[k] <= (Threshold * 8) \div 10}
             last == Max(tried)
             roomy == {k \in 0..last : cut[k] # 0 /\ Len(ms) - cut[k] >= KeepRecent + GuardMargin}
  <1>0. GuardedWith(ms, floors) = IF roomy = {} THEN cut[last] ELSE cut[Min(roomy)]
    BY DEF GuardedWith
  <1>1. MaxTries \in Nat
    BY ConversationAssumption
  <1>2. \A k \in 0..MaxTries : \E x : cut[k] = CalcCollapseCutoff(ms, x)
    OBVIOUS
  <1> HIDE DEF cut
  <1>3. last \in 0..MaxTries
    <2>1. tried \in SUBSET (0..MaxTries) /\ tried # {} 
      BY <1>1
    <2> HIDE DEF tried
    <2>2. Max(tried) \in tried
      BY <1>1, <2>1, Extrema
    <2>3. QED
      BY <2>1, <2>2
  <1> HIDE DEF last
  <1>4. roomy # {} => Min(roomy) \in 0..MaxTries
    <2>1. roomy \in SUBSET (0..last) /\ last \in Nat /\ \A k \in roomy : k \in 0..last
      BY <1>3
    <2> HIDE DEF roomy
    <2>2. roomy # {} => Min(roomy) \in roomy
      BY <2>1, Extrema
    <2>3. \A k \in 0..last : k \in 0..MaxTries
      BY <1>1, <1>3
    <2>4. QED
      BY <2>1, <2>2, <2>3, Zenon
  <1> HIDE DEF roomy
  <1>5. QED
    BY <1>0, <1>2, <1>3, <1>4, Zenon

LEMMA GuardedFacts ==
  ASSUME NEW raw, Conversational(raw), NEW rows, NEW ms, Shaped(ms, raw, rows), NEW floor
  PROVE  \/ GuardedCutoff(ms, floor) = 0
         \/ /\ GuardedCutoff(ms, floor) \in 2..(Len(raw) - 1)
            /\ raw[GuardedCutoff(ms, floor) + 1].results = {}
  <1>1. Len(ms) \in Nat
    BY DEF Shaped
  <1>2. \E x : GuardedCutoff(ms, floor) = CalcCollapseCutoff(ms, x)
    <2> DEFINE floors == CHOOSE f : f = [k \in 0..MaxTries |->
                           IF k = 0 THEN floor ELSE (f[k - 1] * 11) \div 10 + 1]
    <2>1. GuardedCutoff(ms, floor) = GuardedWith(ms, floors)
      BY DEF GuardedCutoff, GuardedWith
    <2> HIDE DEF floors
    <2>2. QED
      BY <1>1, <2>1, GuardChoice
  <1>3. QED
    BY <1>2, CutoffFacts

\* Messages in their places, from a to b, have the positions from a to b.
LEMMA SpanPositions ==
  ASSUME NEW ms \in Seq(Message), \A i \in 1..Len(ms) : ms[i].at = {i},
         NEW a \in 1..Len(ms), NEW b \in a..Len(ms)
  PROVE  PositionsOf(SubSeq(ms, a, b)) = a..b
  <1> DEFINE s == SubSeq(ms, a, b)
  <1>1. Len(ms) \in Nat /\ a \in Nat /\ b \in Nat /\ a >= 1 /\ a <= b /\ b <= Len(ms)
    OBVIOUS
  <1>2. s = [i \in 1..(b - a + 1) |-> ms[a + i - 1]]
    BY <1>1
  <1>3. DOMAIN s = 1..(b - a + 1)
    BY <1>2
  <1> HIDE DEF s
  <1>4. \A i \in 1..(b - a + 1) : s[i].at = {a + i - 1} /\ a + i - 1 \in a..b
    <2> SUFFICES ASSUME NEW i \in 1..(b - a + 1) PROVE s[i].at = {a + i - 1} /\ a + i - 1 \in a..b
      OBVIOUS
    <2>1. a + i - 1 \in a..b /\ a + i - 1 \in 1..Len(ms) /\ s[i] = ms[a + i - 1]
      BY <1>1, <1>2
    <2>2. QED
      BY <2>1
  <1>5. \A p \in a..b : p - a + 1 \in 1..(b - a + 1) /\ a + (p - a + 1) - 1 = p
    BY <1>1
  <1>6. \A p : p \in PositionsOf(s) <=> p \in a..b
    <2>1. ASSUME NEW p \in PositionsOf(s) PROVE p \in a..b
      <3>1. PICK i \in 1..(b - a + 1) : p \in s[i].at
        BY <1>3 DEF PositionsOf
      <3>2. QED
        BY <1>4, <3>1
    <2>2. ASSUME NEW p \in a..b PROVE p \in PositionsOf(s)
      <3>1. p \in s[p - a + 1].at
        BY <1>4, <1>5
      <3>2. QED
        BY <1>3, <1>5, <3>1 DEF PositionsOf
    <2>3. QED
      BY <2>1, <2>2
  <1>7. QED
    BY <1>6 DEF s

\* The block holds what the cut folds away, the row has it, and the rest follows.
LEMMA CollapseStands ==
  ASSUME NEW raw, Conversational(raw), NEW rows, NEW ms, Shaped(ms, raw, rows),
         NEW c \in 2..(Len(raw) - 1), raw[c + 1].results = {}
  PROVE  Stands(Collapse(ms, c, c), raw, Len(raw), rows \cup {c})
  <1> DEFINE n == Len(raw)
             more == rows \cup {c}
             blank == BlankFirst(ms[1])
             block == [Text("user", "block", PositionsOf(SubSeq(ms, 1, c)), 1) EXCEPT !.ref = c]
             p == <<blank, block>>
  <1>0. n \in Nat /\ c \in Nat /\ c >= 2 /\ c < n /\ c \in 1..n /\ 1 \in 1..n
    BY ConversationFacts
  <1>1. /\ ms \in Seq(Message) /\ Len(ms) = n /\ \A i \in 1..n : ms[i].at = {i}
        /\ ms[1] \in Message /\ ms[1].uses = {} /\ ms[1].results = {}
    <2>1. raw[1].uses = {} /\ raw[1].results = {}
      BY ConversationFacts
    <2>2. ms \in Seq(Message) /\ Len(ms) = n /\ \A i \in 1..n : InPlace(ms[i], raw, i)
      BY DEF Shaped
    <2> HIDE DEF n
    <2>3. QED
      BY <1>0, <2>1, <2>2 DEF InPlace
  <1>2. PositionsOf(SubSeq(ms, 1, c)) = 1..c
    BY <1>0, <1>1, SpanPositions
  <1>3. /\ block \in Message /\ block.at = 1..c /\ block.ref = c /\ block.form = "block"
        /\ block.role = "user" /\ block.uses = {} /\ block.results = {}
    <2>1. 1..c \in SUBSET Nat /\ {} \in SUBSET Nat /\ "block" \in Forms /\ "user" \in Roles
      BY <1>0 DEF Forms, Replacing, Roles
    <2>2. QED
      BY <1>0, <1>2, <2>1 DEF Text, Message
  <1>4. /\ blank \in Message /\ blank.at = {} /\ blank.form = "blank"
        /\ blank.uses = {} /\ blank.results = {}
    <2>1. {} \in SUBSET Nat /\ "blank" \in Forms
      BY DEF Forms
    <2>2. blank \in Message
      BY <1>1, <2>1 DEF BlankFirst, Message
    <2>3. QED
      BY <1>1, <2>2 DEF BlankFirst, Message
  <1> HIDE DEF block, blank, n
  <1>5. /\ p \in Seq(Message) /\ Len(p) = 2 /\ p[1] = blank /\ p[2] = block
        /\ \A i \in 1..Len(p) : i = 1 \/ i = 2
    BY <1>3, <1>4
  <1> HIDE DEF p
  <1>6. c \in more /\ 1..c \subseteq Rows(more)
    BY DEF Rows
  <1>7. Holds(p, c, more)
    <2>1. Sided(block) /\ Stored(block, more) /\ block.at \subseteq 1..c
      BY <1>3, <1>6 DEF Sided, Stored
    <2>2. Sided(blank) /\ Stored(blank, more) /\ blank.at \subseteq 1..c
      BY <1>4 DEF Sided, Stored, Replacing
    <2>3. \A i \in 1..Len(p) : Sided(p[i]) /\ Stored(p[i], more) /\ p[i].at \subseteq 1..c
      BY <1>5, <2>1, <2>2
    <2>4. \A q \in 1..c : q \in Rows(more)
      BY <1>6
    <2>5. Ordered(p)
      BY <1>4, <1>5 DEF Ordered
    <2>6. Answering(p)
      BY <1>3, <1>4, <1>5 DEF Answering
    <2>7. QED
      BY <1>5, <2>3, <2>4, <2>5, <2>6 DEF Holds
  <1>8. Shaped(ms, raw, more)
    <2>1. rows \subseteq more
      OBVIOUS
    <2>2. QED
      BY <2>1, ShapedStored
  <1>9. c # Len(raw) /\ c \in 1..Len(raw)
    BY <1>0 DEF n
  <1>10. Stands(p \o After(ms, c), raw, Len(raw), more)
    BY <1>7, <1>8, <1>9, TailHolds DEF Stands
  <1>11. QED
    BY <1>10 DEF Collapse, p, block, blank

-----------------------------------------------------------------------------
(* The stubs of the fallback                                               *)

\* The decision of stubifyMessages on one message.
StubsAt(ms, i, prevHadToolUse) ==
  /\ i \notin ActivePair(ms)
  /\ ms[i].weight > 1 \/ ms[i].uses \cup ms[i].results # {}
  /\ \/ prevHadToolUse /\ ms[i].results # {}
     \/ i \in Unprotected(ms) /\ ms[i].form # "plan"

\* A tool use that is stubbed takes its results with it.
LEMMA StubbedFacts ==
  ASSUME NEW ms \in Seq(Message)
  PROVE  /\ Stubbed(ms) \subseteq 2..Len(ms) /\ Stubbed(ms) \cap ActivePair(ms) = {}
         /\ \A i \in Stubbed(ms) :
              ms[i].uses # {} /\ i + 1 \in 1..Len(ms) /\ i + 1 \notin ActivePair(ms)
                /\ ms[i + 1].results # {} => i + 1 \in Stubbed(ms)
  <1> DEFINE n == Len(ms)
             g == [k \in Nat |-> [v \in BOOLEAN |->
                    IF StubsAt(ms, k, v) THEN ms[k].uses # {} ELSE v]]
             IsHad(f) == f = [i \in DOMAIN ms |->
                               IF i = 1 THEN FALSE
                               ELSE IF StubsAt(ms, i, f[i - 1]) THEN ms[i].uses # {} ELSE f[i - 1]]
             had == CHOOSE f : IsHad(f)
  <1>1. n \in Nat /\ DOMAIN ms = 1..n
    OBVIOUS
  <1>2. Stubbed(ms) = {i \in 2..n : StubsAt(ms, i, had[i - 1])}
    BY DEF Stubbed, StubsAt
  <1>3. \E f : IsHad(f)
    <2>1. g \in [Nat -> [BOOLEAN -> BOOLEAN]] /\ FALSE \in BOOLEAN /\ 1 \in Nat
      OBVIOUS
    <2> HIDE DEF g
    <2>2. PICK f \in [1..n -> BOOLEAN] : Recursive(f, 1, n, FALSE, g)
      BY <1>1, <2>1, RecursionExists
    <2>3. ASSUME NEW i \in 1..n
          PROVE  f[i] = IF i = 1 THEN FALSE
                        ELSE IF StubsAt(ms, i, f[i - 1]) THEN ms[i].uses # {} ELSE f[i - 1]
      <3>1. CASE i = 1
        BY <2>2, <3>1 DEF Recursive
      <3>2. CASE i # 1
        <4>1. i \in Nat /\ f[i - 1] \in BOOLEAN
          BY <1>1, <3>2
        <4>2. f[i] = g[i][f[i - 1]]
          BY <2>2, <3>2 DEF Recursive
        <4>3. g[i][f[i - 1]] = IF StubsAt(ms, i, f[i - 1]) THEN ms[i].uses # {} ELSE f[i - 1]
          BY <4>1 DEF g
        <4>4. QED
          BY <3>2, <4>2, <4>3
      <3>3. QED
        BY <3>1, <3>2
    <2>4. IsHad(f)
      BY <1>1, <2>3
    <2>5. QED
      BY <2>4
  <1>4. IsHad(had)
    BY <1>3
  <1> HIDE DEF had
  <1>5. \A i \in 2..n : had[i] = IF StubsAt(ms, i, had[i - 1]) THEN ms[i].uses # {} ELSE had[i - 1]
    <2>1. \A i \in 2..n : i \in DOMAIN ms /\ i # 1
      BY <1>1
    <2>2. QED
      BY <1>4, <2>1
  <1> HIDE DEF IsHad, n
  <1>6. ASSUME NEW i \in Stubbed(ms), ms[i].uses # {}, i + 1 \in 1..n, i + 1 \notin ActivePair(ms),
               ms[i + 1].results # {}
        PROVE  i + 1 \in Stubbed(ms)
    <2>1. i \in 2..n /\ StubsAt(ms, i, had[i - 1])
      BY <1>2
    <2>2. had[i] = TRUE
      BY <1>5, <1>6, <2>1
    <2>3. (i + 1) - 1 = i /\ i + 1 \in 2..n
      BY <1>1, <1>6, <2>1
    <2>4. StubsAt(ms, i + 1, had[i])
      BY <1>6, <2>2 DEF StubsAt
    <2>5. QED
      BY <1>2, <2>3, <2>4
  <1>7. Stubbed(ms) \cap ActivePair(ms) = {}
    BY <1>2 DEF StubsAt
  <1>8. QED
    BY <1>2, <1>6, <1>7 DEF n

LEMMA StubOfFacts ==
  ASSUME NEW m \in Message, NEW ref \in Nat
  PROVE  /\ StubOf(m, ref) \in Message /\ StubOf(m, ref).form = "stub"
         /\ StubOf(m, ref).at = m.at /\ StubOf(m, ref).role = m.role
         /\ StubOf(m, ref).uses = {} /\ StubOf(m, ref).results = {}
         /\ StubOf(m, ref).ref \in {ref, m.ref}
  <1> DEFINE r == IF m.results # {} THEN ref ELSE m.ref
             stub == [m EXCEPT !.form = "stub", !.uses = {}, !.results = {}, !.weight = 1, !.ref = r]
  <1>1. r \in Nat /\ r \in {ref, m.ref}
    BY DEF Message
  <1>2. StubOf(m, ref) = stub
    BY DEF StubOf, Message
  <1> HIDE DEF r
  <1>3. "stub" \in Forms /\ {} \in SUBSET Nat /\ 1 \in Nat
    BY DEF Forms, Replacing
  <1>4. stub \in Message
    BY <1>1, <1>3 DEF Message
  <1>5. /\ stub.form = "stub" /\ stub.at = m.at /\ stub.role = m.role
        /\ stub.uses = {} /\ stub.results = {} /\ stub.ref = r
    BY DEF Message
  <1> HIDE DEF stub
  <1>6. QED
    BY <1>1, <1>2, <1>4, <1>5

\* A stub names the row of this request, or the one its text is in already.
LEMMA StubifyReduced ==
  ASSUME NEW raw, Conversational(raw), NEW rows, NEW ms, Shaped(ms, raw, rows)
  PROVE  Reduced(Stubify(ms, Len(raw)), raw, rows \cup {Len(raw)})
  <1> DEFINE n == Len(raw)
             s == Stubify(ms, n)
             stubbed == Stubbed(ms)
             more == rows \cup {n}
  <1>0. n \in Nat /\ n >= 1 /\ n \in 1..n
    BY ConversationFacts
  <1>1. /\ ms \in Seq(Message) /\ Len(ms) = n
        /\ \A i \in 1..n : /\ ms[i] \in Message /\ ms[i].at = {i} /\ ms[i].role = raw[i].role
                           /\ ms[i].uses = raw[i].uses /\ ms[i].results = raw[i].results
                           /\ Stored(ms[i], rows) /\ (ms[i].form # "compressed" => ms[i].ref = 0)
    BY DEF Shaped, InPlace
  <1>2. \A i \in 1..n :
          /\ raw[i].uses # {} => /\ raw[i].uses = {i} /\ i + 1 \in 1..n /\ raw[i + 1].results = {i}
          /\ raw[i].results # {} => /\ raw[i].results = {i - 1} /\ i - 1 \in 1..n
                                    /\ raw[i - 1].uses = {i - 1}
    BY ConversationFacts
  <1>3. ActivePair(ms) = IF raw[n].results # {} THEN {n - 1, n} ELSE {}
    BY ActiveShaped
  <1>4. /\ stubbed \subseteq 2..n /\ stubbed \cap ActivePair(ms) = {}
        /\ \A i \in stubbed :
             ms[i].uses # {} /\ i + 1 \in 1..n /\ i + 1 \notin ActivePair(ms)
               /\ ms[i + 1].results # {} => i + 1 \in stubbed
    BY <1>1, StubbedFacts
  <1>5. s = [i \in 1..n |-> IF i \in stubbed THEN StubOf(ms[i], n) ELSE ms[i]]
    BY <1>1 DEF Stubify
  <1> HIDE DEF s, stubbed, n
  <1>6. rows \subseteq more /\ n \in more /\ 1..n \subseteq Rows(more)
    BY DEF Rows
  <1>7. ASSUME NEW i \in 1..n, i \in stubbed
        PROVE  /\ s[i] \in Message /\ s[i].at = {i} /\ s[i].role = raw[i].role
               /\ s[i].uses = {} /\ s[i].results = {} /\ Stored(s[i], more)
               /\ s[i].form = "stub"
    <2>1. s[i] = StubOf(ms[i], n) /\ ms[i] \in Message
      BY <1>1, <1>5, <1>7
    <2>3. /\ s[i] \in Message /\ s[i].at = ms[i].at /\ s[i].role = ms[i].role
          /\ s[i].uses = {} /\ s[i].results = {} /\ s[i].ref \in {n, ms[i].ref}
          /\ s[i].form = "stub"
      <3> DEFINE m == ms[i]
      <3>1. m \in Message /\ s[i] = StubOf(m, n)
        BY <2>1
      <3> HIDE DEF m
      <3>2. /\ s[i] \in Message /\ s[i].at = m.at /\ s[i].role = m.role
            /\ s[i].uses = {} /\ s[i].results = {} /\ s[i].ref \in {n, m.ref}
            /\ s[i].form = "stub"
        BY <1>0, <3>1, StubOfFacts
      <3>3. QED
        BY <3>2 DEF m
    <2>4. i \in Rows(more) /\ i \in 1..n
      BY <1>6
    <2>5. ms[i].ref # 0 => ms[i].ref \in more /\ {i} \subseteq 1..ms[i].ref
      <3>1. ms[i].ref # 0 => ms[i].form \in Replacing
        BY <1>1 DEF Replacing
      <3>2. QED
        BY <1>1, <1>6, <3>1 DEF Stored
    <2>6. s[i].at = {i} /\ (s[i].ref # 0 => s[i].ref \in more /\ s[i].at \subseteq 1..s[i].ref)
      <3>1. CASE s[i].ref = n
        BY <1>1, <1>6, <2>3, <2>4, <3>1
      <3>2. CASE s[i].ref = ms[i].ref
        BY <1>1, <2>3, <2>5, <3>2
      <3>3. QED
        BY <2>3, <3>1, <3>2
    <2>7. Stored(s[i], more)
      BY <2>4, <2>6 DEF Stored
    <2>8. QED
      BY <1>1, <2>3, <2>6, <2>7
  <1>8. ASSUME NEW i \in 1..n, i \notin stubbed
        PROVE  s[i] = ms[i] /\ Stored(s[i], more)
    <2>1. s[i] = ms[i]
      BY <1>5, <1>8
    <2>2. QED
      BY <1>1, <1>6, <2>1, RowsGrow
  <1>9. s \in Seq(Message) /\ Len(s) = n
    <2>1. s = [i \in 1..n |-> s[i]]
      BY <1>5
    <2>2. \A i \in 1..n : s[i] \in Message
      BY <1>1, <1>7, <1>8
    <2>3. QED
      BY <1>0, <2>1, <2>2
  <1>10. ASSUME NEW i \in 1..n
         PROVE  /\ s[i].at = {i} /\ s[i].role = raw[i].role /\ Stored(s[i], more)
                /\ s[i].uses \in {raw[i].uses, {}} /\ s[i].results \in {raw[i].results, {}}
                /\ s[i].results # {} => s[i - 1].uses = raw[i - 1].uses
                /\ s[i].form = "long" => s[i].ref = 0
    <2>1. /\ s[i].at = {i} /\ s[i].role = raw[i].role /\ Stored(s[i], more)
          /\ s[i].uses \in {raw[i].uses, {}} /\ s[i].results \in {raw[i].results, {}}
          /\ s[i].form = "long" => s[i].ref = 0
      <3>1. CASE i \in stubbed
        BY <1>7, <3>1
      <3>2. CASE i \notin stubbed
        BY <1>1, <1>8, <3>2
      <3>3. QED
        BY <3>1, <3>2
    <2>2. ASSUME s[i].results # {} PROVE s[i - 1].uses = raw[i - 1].uses
      <3>1. i \notin stubbed /\ ms[i].results # {} /\ raw[i].results # {}
        BY <1>1, <1>7, <1>8, <2>2
      <3>2. i - 1 \in 1..n /\ raw[i - 1].uses = {i - 1} /\ ms[i - 1].uses # {} /\ (i - 1) + 1 = i
        <4>1. i - 1 \in 1..n /\ raw[i - 1].uses = {i - 1}
          BY <1>2, <3>1
        <4>2. ms[i - 1].uses = {i - 1} /\ i - 1 \in {i - 1}
          BY <1>1, <4>1
        <4>3. (i - 1) + 1 = i
          BY <1>0
        <4>4. QED
          BY <4>1, <4>2, <4>3
      <3>3. CASE i \in ActivePair(ms)
        <4>1. i - 1 \notin stubbed
          <5>1. i \in {n - 1, n} /\ raw[n].results # {} /\ raw[n].results = {n - 1}
                /\ raw[n - 1].uses = {n - 1} /\ n - 1 \in 1..n
            BY <1>0, <1>2, <1>3, <3>3
          <5>2. raw[n - 1].results = {}
            <6>1. raw[n - 1].uses # {}
              BY <5>1
            <6>2. QED
              BY <5>1, <6>1, ConversationFacts DEF n
          <5>3. i = n
            BY <3>1, <5>1, <5>2
          <5>4. QED
            BY <1>3, <1>4, <5>1, <5>3
        <4>2. QED
          BY <1>1, <1>8, <3>2, <4>1
      <3>4. CASE i \notin ActivePair(ms)
        <4>1. i - 1 \notin stubbed
          BY <1>4, <3>1, <3>2, <3>4
        <4>2. QED
          BY <1>1, <1>8, <3>2, <4>1
      <3>5. QED
        BY <3>3, <3>4
    <2>3. QED
      BY <2>1, <2>2
  <1>11. raw[n].results # {} => s[n].results = raw[n].results /\ s[n - 1].uses = raw[n - 1].uses
    <2>1. SUFFICES ASSUME raw[n].results # {}
                   PROVE  s[n].results = raw[n].results /\ s[n - 1].uses = raw[n - 1].uses
      OBVIOUS
    <2>2. n - 1 \in 1..n /\ n \notin stubbed /\ n - 1 \notin stubbed
      BY <1>0, <1>2, <1>3, <1>4, <2>1
    <2>3. QED
      BY <1>0, <1>1, <1>8, <2>2
  <1>12. QED
    BY <1>9, <1>10, <1>11 DEF Reduced, s, n

\* A text is cut when its message is marked, and so in a row.
LEMMA DecayedReduced ==
  ASSUME NEW raw, Conversational(raw), NEW rows, NEW ms, Reduced(ms, raw, rows),
         NEW aged, \A i \in aged : i \in Rows(rows)
  PROVE  Reduced(Decayed(ms, aged), raw, rows)
  <1> DEFINE n == Len(raw)
             s == Decayed(ms, aged)
             IsCut(i) == i \in aged \ ActivePair(ms) /\ ms[i].form = "long"
  <1>0. n \in Nat /\ n >= 1 /\ n \in 1..n
    BY ConversationFacts
  <1>1. /\ ms \in Seq(Message) /\ Len(ms) = n
        /\ \A i \in 1..n :
             /\ ms[i].at = {i} /\ ms[i].role = raw[i].role /\ Stored(ms[i], rows)
             /\ ms[i].uses \in {raw[i].uses, {}} /\ ms[i].results \in {raw[i].results, {}}
             /\ ms[i].results # {} => ms[i - 1].uses = raw[i - 1].uses
             /\ ms[i].form = "long" => ms[i].ref = 0
        /\ raw[n].results # {} => ms[n].results = raw[n].results /\ ms[n - 1].uses = raw[n - 1].uses
    BY DEF Reduced
  <1>2. s = [i \in 1..n |-> IF IsCut(i) THEN [ms[i] EXCEPT !.form = "stub", !.weight = 1] ELSE ms[i]]
    BY <1>1 DEF Decayed
  <1> HIDE DEF s, n
  <1>3. ASSUME NEW i \in 1..n, IsCut(i)
        PROVE  /\ s[i] \in Message /\ s[i].at = ms[i].at /\ s[i].role = ms[i].role
               /\ s[i].uses = ms[i].uses /\ s[i].results = ms[i].results
               /\ s[i].form = "stub" /\ Stored(s[i], rows)
    <2>0. ms[i] \in Message
      BY <1>1
    <2>1. s[i] = [ms[i] EXCEPT !.form = "stub", !.weight = 1] /\ ms[i] \in Message
      BY <1>2, <1>3, <2>0
    <2>2. "stub" \in Forms /\ 1 \in Nat
      BY DEF Forms, Replacing
    <2>3. s[i] \in Message
      BY <2>1, <2>2 DEF Message
    <2>4. /\ s[i].at = ms[i].at /\ s[i].role = ms[i].role /\ s[i].ref = ms[i].ref
          /\ s[i].uses = ms[i].uses /\ s[i].results = ms[i].results /\ s[i].form = "stub"
      BY <2>1 DEF Message
    <2>5. s[i].ref = 0 /\ s[i].at \subseteq Rows(rows)
      BY <1>1, <1>3, <2>4
    <2>6. QED
      BY <2>3, <2>4, <2>5 DEF Stored
  <1>4. ASSUME NEW i \in 1..n, ~IsCut(i) PROVE s[i] = ms[i]
    BY <1>2, <1>4
  <1> HIDE DEF IsCut
  <1>5. \A i \in 1..n :
          /\ s[i] \in Message /\ s[i].at = ms[i].at /\ s[i].role = ms[i].role
          /\ s[i].uses = ms[i].uses /\ s[i].results = ms[i].results
          /\ Stored(s[i], rows) /\ (s[i].form = "long" => s[i].ref = 0)
    BY <1>1, <1>3, <1>4
  <1>6. s \in Seq(Message) /\ Len(s) = n
    <2>1. s = [i \in 1..n |-> s[i]]
      BY <1>2
    <2>2. QED
      BY <1>0, <1>5, <2>1
  <1>7. ASSUME NEW i \in 1..n, s[i].results # {} PROVE s[i - 1].uses = raw[i - 1].uses
    <2>1. ms[i].results # {} /\ raw[i].results # {}
      BY <1>1, <1>5, <1>7
    <2>2. i - 1 \in 1..n
      BY <2>1, ConversationFacts DEF n
    <2>3. QED
      BY <1>1, <1>5, <2>1, <2>2
  <1>8. ASSUME raw[n].results # {}
        PROVE  s[n].results = raw[n].results /\ s[n - 1].uses = raw[n - 1].uses
    <2>1. n - 1 \in 1..n
      BY <1>0, <1>8, ConversationFacts DEF n
    <2>2. QED
      BY <1>0, <1>1, <1>5, <1>8, <2>1
  <1>9. QED
    BY <1>1, <1>5, <1>6, <1>7, <1>8 DEF Reduced, s, n

-----------------------------------------------------------------------------
(* Compaction                                                              *)

IsSummary(m, merge) ==
  m.form = "summary" /\ m.uses = {} /\ m.results = {} /\ m.ref = 0 /\ m.at \subseteq merge

\* f takes the place of the messages 1..h of ms: it has them, or summaries of those
\* in `merge', without a gap and with roles that alternate.
Compacted(f, h, ms, merge) ==
  /\ f \in Seq(Message) /\ Len(f) \in Nat /\ Len(f) >= 1
  /\ 1 \in f[1].at /\ h \in f[Len(f)].at
  /\ \A q \in 1..Len(f) : /\ IsSummary(f[q], merge) \/ \E i \in 1..Len(ms) : f[q] = ms[i]
                          /\ f[q].at \subseteq 1..h
  /\ \A p \in 1..h : \E q \in 1..Len(f) : p \in f[q].at
  /\ Ordered(f) /\ Alternates(f)
  /\ \A q \in 1..Len(f) : q + 1 \in 1..Len(f) => \E p \in f[q].at : p + 1 \in f[q + 1].at

\* It grows by the next message, or by a summary of the next ones.
LEMMA CompactedStep ==
  ASSUME NEW ms, NEW merge, NEW f, NEW h \in Nat, Compacted(f, h, ms, merge),
         NEW e \in Nat, e > h, NEW m \in Message, m.at = (h + 1)..e,
         IsSummary(m, merge) \/ \E i \in 1..Len(ms) : m = ms[i],
         m.role # f[Len(f)].role
  PROVE  /\ Compacted(f \o <<m>>, e, ms, merge)
         /\ Len(f \o <<m>>) = Len(f) + 1 /\ (f \o <<m>>)[Len(f) + 1] = m
  <1> DEFINE g == f \o <<m>>
             l == Len(f)
  <1>1. /\ f \in Seq(Message) /\ l \in Nat /\ l >= 1
        /\ 1 \in f[1].at /\ h \in f[l].at
        /\ \A q \in 1..l : /\ IsSummary(f[q], merge) \/ \E i \in 1..Len(ms) : f[q] = ms[i]
                           /\ f[q].at \subseteq 1..h
        /\ \A p \in 1..h : \E q \in 1..l : p \in f[q].at
        /\ Ordered(f) /\ Alternates(f)
        /\ \A q \in 1..l : q + 1 \in 1..l => \E p \in f[q].at : p + 1 \in f[q + 1].at
    BY DEF Compacted
  <1>2. /\ g \in Seq(Message) /\ Len(g) = l + 1 /\ \A i \in 1..l : g[i] = f[i]
        /\ g[l + 1] = m
    <2>1. <<m>> \in Seq(Message) /\ Len(<<m>>) = 1 /\ <<m>>[1] = m
      OBVIOUS
    <2>2. l + 1 \in (l + 1)..(l + 1) /\ (l + 1) - l = 1
      BY <1>1
    <2>3. QED
      BY <1>1, <2>1, <2>2, JoinFacts
  <1> HIDE DEF g
  <1>3. \A i \in 1..Len(g) : i \in 1..l \/ i = l + 1
    BY <1>1, <1>2
  <1> HIDE DEF l
  <1>4. 1 \in g[1].at /\ e \in g[Len(g)].at
    BY <1>1, <1>2
  <1>5. \A q \in 1..Len(g) : /\ IsSummary(g[q], merge) \/ \E i \in 1..Len(ms) : g[q] = ms[i]
                             /\ g[q].at \subseteq 1..e
    <2>1. ASSUME NEW q \in 1..l
          PROVE  /\ IsSummary(g[q], merge) \/ \E i \in 1..Len(ms) : g[q] = ms[i]
                 /\ g[q].at \subseteq 1..e
      <3>1. g[q] = f[q] /\ f[q].at \subseteq 1..h /\ 1..h \subseteq 1..e
        BY <1>1, <1>2
      <3>2. QED
        BY <1>1, <3>1
    <2>2. m.at \subseteq 1..e
      OBVIOUS
    <2>3. QED
      BY <1>2, <1>3, <2>1, <2>2
  <1>6. ASSUME NEW p \in 1..e PROVE \E q \in 1..Len(g) : p \in g[q].at
    <2>1. CASE p \in 1..h
      <3>1. PICK q \in 1..l : p \in f[q].at
        BY <1>1, <2>1
      <3>2. q \in 1..Len(g) /\ g[q] = f[q]
        BY <1>1, <1>2
      <3>3. QED
        BY <3>1, <3>2
    <2>2. CASE p \notin 1..h
      <3>1. p \in m.at /\ l + 1 \in 1..Len(g)
        BY <1>1, <1>2, <2>2
      <3>2. QED
        BY <1>2, <3>1
    <2>3. QED
      BY <2>1, <2>2
  <1>7. Ordered(g)
    <2> SUFFICES ASSUME NEW i \in 1..Len(g), NEW j \in 1..Len(g), j < i,
                        NEW x \in g[j].at, NEW y \in g[i].at
                 PROVE  x < y
      BY DEF Ordered
    <2>1. j \in 1..l /\ g[j] = f[j] /\ x \in 1..h
      BY <1>1, <1>2, <1>3
    <2>2. CASE i \in 1..l
      <3>1. y \in f[i].at /\ x \in f[j].at
        BY <1>2, <2>1, <2>2
      <3>2. \A a, b \in 1..l : b < a => \A v \in f[b].at, w \in f[a].at : v < w
        BY <1>1 DEF Ordered, l
      <3>3. QED
        BY <2>1, <2>2, <3>1, <3>2
    <2>3. CASE i = l + 1
      <3>1. y \in (h + 1)..e
        BY <1>2, <2>3
      <3>2. QED
        BY <2>1, <3>1
    <2>4. QED
      BY <1>3, <2>2, <2>3
  <1>8. Alternates(g)
    <2> SUFFICES ASSUME NEW i \in 1..Len(g), i + 1 \in 1..Len(g)
                 PROVE  g[i].role # g[i + 1].role
      BY DEF Alternates
    <2>1. CASE i + 1 \in 1..l
      <3>1. i \in 1..l
        BY <1>1, <2>1
      <3>2. f[i].role # f[i + 1].role
        BY <1>1, <2>1, <3>1 DEF Alternates, l
      <3>3. QED
        BY <1>2, <2>1, <3>1, <3>2
    <2>2. CASE i + 1 = l + 1
      <3>1. i = l /\ l \in 1..l
        BY <1>1, <2>2
      <3>2. QED
        BY <1>2, <3>1 DEF l
    <2>3. QED
      BY <1>3, <2>1, <2>2
  <1>9. ASSUME NEW i \in 1..Len(g), i + 1 \in 1..Len(g)
        PROVE  \E p \in g[i].at : p + 1 \in g[i + 1].at
    <2>0. i + 1 \in 1..l \/ i + 1 = l + 1
      BY <1>3, <1>9
    <2>1. CASE i + 1 \in 1..l
      <3>1. i \in 1..l
        BY <1>1, <2>1
      <3>2. QED
        BY <1>1, <1>2, <2>1, <3>1
    <2>2. CASE i + 1 = l + 1
      <3>1. i = l /\ l \in 1..l /\ g[i] = f[l] /\ g[i + 1] = m
        BY <1>1, <1>2, <2>2
      <3>2. h \in g[i].at /\ h + 1 \in g[i + 1].at
        BY <1>1, <3>1
      <3>3. QED
        BY <3>2
    <2>3. QED
      BY <2>0, <2>1, <2>2
  <1>10. Len(g) \in Nat /\ Len(g) >= 1
    BY <1>1, <1>2
  <1>11. Compacted(g, e, ms, merge)
    BY <1>2, <1>4, <1>5, <1>6, <1>7, <1>8, <1>9, <1>10 DEF Compacted
  <1>12. QED
    BY <1>2, <1>11 DEF g, l

\* The messages themselves.
LEMMA ReducedCompacted ==
  ASSUME NEW raw, Conversational(raw), NEW rows, NEW ms, Reduced(ms, raw, rows), NEW merge
  PROVE  Compacted(ms, Len(raw), ms, merge)
  <1> DEFINE n == Len(raw)
  <1>1. n \in Nat /\ n >= 1 /\ \A i \in 1..n : i + 1 \in 1..n => raw[i].role # raw[i + 1].role
    BY ConversationFacts
  <1>2. /\ ms \in Seq(Message) /\ Len(ms) = n
        /\ \A i \in 1..n : ms[i].at = {i} /\ ms[i].role = raw[i].role
    BY DEF Reduced
  <1> HIDE DEF n
  <1>3. 1 \in ms[1].at /\ n \in ms[n].at
    BY <1>1, <1>2
  <1>4. \A q \in 1..n : (\E i \in 1..Len(ms) : ms[q] = ms[i]) /\ ms[q].at \subseteq 1..n
    BY <1>2
  <1>5. Ordered(ms)
    BY <1>1, <1>2 DEF Ordered
  <1>6. Alternates(ms)
    BY <1>1, <1>2 DEF Alternates
  <1>7. \A q \in 1..n : q + 1 \in 1..n => \E p \in ms[q].at : p + 1 \in ms[q + 1].at
    BY <1>1, <1>2
  <1>8. QED
    BY <1>1, <1>2, <1>3, <1>4, <1>5, <1>6, <1>7 DEF Compacted, n

\* A run of merged messages has a message before it, and no other run with a
\* message of it.
LEMMA RunFacts ==
  ASSUME NEW ms \in Seq(Message), NEW old
  PROVE  /\ Mergeable(ms, old) \subseteq old /\ Mergeable(ms, old) \subseteq 2..Len(ms)
         /\ Mergeable(ms, old) \cap ActivePair(ms) = {}
         /\ \A r \in Runs(ms, old) :
              /\ r[1] \in 2..Len(ms) /\ r[2] \in r[1]..Len(ms)
              /\ r[1]..r[2] \subseteq Mergeable(ms, old)
              /\ r[1] - 1 \notin Mergeable(ms, old)
              /\ \A s \in Runs(ms, old) : \A i \in r[1]..r[2] : i \in s[1]..s[2] => s = r
  <1> DEFINE m == Mergeable(ms, old)
             n == Len(ms)
  <1>1. n \in Nat /\ KeepRecent \in Nat /\ MinRun \in Nat /\ MinRun >= 1
    BY ConversationAssumption
  <1>2. m \subseteq old /\ m \subseteq 2..n /\ m \cap ActivePair(ms) = {}
    <2>1. 2..ScanEnd(ms) \subseteq 2..n
      BY <1>1 DEF ScanEnd
    <2>2. QED
      BY <2>1 DEF Mergeable, Unprotected
  <1>3. ASSUME NEW r \in Runs(ms, old)
        PROVE  /\ r \in m \X m /\ r = <<r[1], r[2]>> /\ r[1] \in 2..n /\ r[2] \in 2..n /\ r[2] >= r[1]
               /\ r[1]..r[2] \subseteq m /\ r[1] - 1 \notin m /\ r[2] + 1 \notin m
    <2>1. /\ r \in m \X m /\ r[2] >= r[1] + MinRun - 1 /\ r[1]..r[2] \subseteq m
          /\ r[1] - 1 \notin m /\ r[2] + 1 \notin m
      BY DEF Runs
    <2>2. r = <<r[1], r[2]>> /\ r[1] \in m /\ r[2] \in m
      BY <2>1
    <2>3. r[1] \in 2..n /\ r[2] \in 2..n
      BY <1>2, <2>2
    <2>4. r[2] >= r[1]
      BY <1>1, <2>1, <2>3
    <2>5. QED
      BY <2>1, <2>2, <2>3, <2>4
  <1> HIDE DEF m, n
  <1>4. ASSUME NEW r \in Runs(ms, old), NEW s \in Runs(ms, old), NEW i \in r[1]..r[2], i \in s[1]..s[2]
        PROVE  s = r
    <2>1. ASSUME NEW a \in Runs(ms, old), NEW b \in Runs(ms, old), i \in a[1]..a[2], i \in b[1]..b[2]
          PROVE  ~(a[1] < b[1]) /\ ~(a[2] > b[2])
      <3>1. a[1] \in Nat /\ a[2] \in Nat /\ b[1] \in Nat /\ b[2] \in Nat /\ b[1] > 0
        <4>1. a[1] \in 2..n /\ a[2] \in 2..n /\ b[1] \in 2..n /\ b[2] \in 2..n
          BY <1>3
        <4>2. QED
          BY <1>1, <4>1
      <3>2. a[1] < b[1] => b[1] - 1 \in a[1]..a[2]
        BY <2>1, <3>1
      <3>3. a[2] > b[2] => b[2] + 1 \in a[1]..a[2]
        BY <2>1, <3>1
      <3>4. a[1]..a[2] \subseteq m /\ b[1] - 1 \notin m /\ b[2] + 1 \notin m
        BY <1>3
      <3>5. QED
        BY <3>2, <3>3, <3>4
    <2>2. r[1] \in Nat /\ r[2] \in Nat /\ s[1] \in Nat /\ s[2] \in Nat
      BY <1>1, <1>3
    <2>3. r[1] = s[1] /\ r[2] = s[2]
      BY <1>4, <2>1, <2>2
    <2>4. r = <<r[1], r[2]>> /\ s = <<s[1], s[2]>>
      BY <1>3
    <2>5. QED
      BY <2>3, <2>4
  <1>5. \A r \in Runs(ms, old) : r[1] \in 2..n /\ r[2] \in r[1]..n /\ r[1]..r[2] \subseteq m
                                 /\ r[1] - 1 \notin m
    BY <1>1, <1>3
  <1>6. QED
    BY <1>2, <1>4, <1>5 DEF m, n

\* FlattenSeq, from left to right.
LEMMA FlattenFacts ==
  ASSUME NEW n \in Nat, n >= 1, NEW seqs \in [1..n -> Seq(Message)]
  PROVE  \E f \in [1..n -> Seq(Message)] :
           /\ f[1] = seqs[1] /\ \A i \in 2..n : f[i] = f[i - 1] \o seqs[i]
           /\ FlattenSeq(seqs) = f[n]
  <1> DEFINE g == [k \in Nat |-> [v \in Seq(Message) |-> IF k \in 1..n THEN v \o seqs[k] ELSE v]]
             IsFlat(f) == f = [i \in 1..Len(seqs) |-> IF i = 1 THEN seqs[i] ELSE f[i - 1] \o seqs[i]]
             flat == CHOOSE f : IsFlat(f)
  <1>1. Len(seqs) = n /\ 1 \in 1..n /\ n \in 1..n
    OBVIOUS
  <1>2. FlattenSeq(seqs) = flat[n]
    BY <1>1 DEF FlattenSeq
  <1>3. PICK f \in [1..n -> Seq(Message)] : Recursive(f, 1, n, seqs[1], g)
    <2>1. seqs[1] \in Seq(Message) /\ 1 \in Nat
      BY <1>1
    <2>2. g \in [Nat -> [Seq(Message) -> Seq(Message)]]
      <3>1. ASSUME NEW k \in Nat, NEW v \in Seq(Message)
            PROVE  (IF k \in 1..n THEN v \o seqs[k] ELSE v) \in Seq(Message)
        <4>1. CASE k \in 1..n
          <5>1. seqs[k] \in Seq(Message)
            BY <4>1
          <5>2. QED
            BY <4>1, <5>1
        <4>2. CASE k \notin 1..n
          BY <4>2
        <4>3. QED
          BY <4>1, <4>2
      <3>2. QED
        BY <3>1
    <2> HIDE DEF g
    <2>3. QED
      BY <2>1, <2>2, RecursionExists
  <1>4. ASSUME NEW i \in 1..n
        PROVE  f[i] = IF i = 1 THEN seqs[i] ELSE f[i - 1] \o seqs[i]
    <2>1. CASE i = 1
      BY <1>3, <2>1 DEF Recursive
    <2>2. CASE i # 1
      <3>1. f[i] = g[i][f[i - 1]]
        BY <1>3, <2>2 DEF Recursive
      <3>2. i \in Nat /\ f[i - 1] \in Seq(Message)
        BY <2>2
      <3>3. QED
        BY <2>2, <3>1, <3>2
    <2>3. QED
      BY <2>1, <2>2
  <1>5. IsFlat(f)
    BY <1>1, <1>4
  <1>6. IsFlat(flat)
    BY <1>5
  <1>7. flat = [i \in 1..n |-> IF i = 1 THEN seqs[i] ELSE flat[i - 1] \o seqs[i]]
    BY <1>1, <1>6
  <1> HIDE DEF flat, IsFlat, g
  <1>8. \A i \in 1..n : flat[i] = IF i = 1 THEN seqs[i] ELSE flat[i - 1] \o seqs[i]
    BY <1>7, Zenon
  <1>9. ASSUME NEW i \in 1..n PROVE flat[i] = f[i]
    <2> DEFINE S == {k \in Nat : k + 1 \in 1..n => flat[k + 1] = f[k + 1]}
    <2>1. 0 \in S
      BY <1>1, <1>4, <1>8
    <2>2. ASSUME NEW k \in Nat, k \in S PROVE k + 1 \in S
      <3>1. SUFFICES ASSUME k + 1 + 1 \in 1..n PROVE flat[k + 1 + 1] = f[k + 1 + 1]
        OBVIOUS
      <3>2. k + 1 \in 1..n /\ k + 1 + 1 # 1 /\ (k + 1 + 1) - 1 = k + 1
        BY <3>1
      <3>3. flat[k + 1] = f[k + 1]
        BY <2>2, <3>2
      <3>4. flat[k + 1 + 1] = flat[k + 1] \o seqs[k + 1 + 1]
        BY <1>8, <3>1, <3>2
      <3>5. f[k + 1 + 1] = f[k + 1] \o seqs[k + 1 + 1]
        BY <1>4, <3>1, <3>2
      <3>6. QED
        BY <3>3, <3>4, <3>5
    <2>3. \A k \in Nat : k \in S
      <3> HIDE DEF S
      <3>1. QED
        BY <2>1, <2>2, NatSetInduction
    <2>4. i - 1 \in Nat /\ (i - 1) + 1 = i
      BY <1>1
    <2>5. i - 1 \in S
      <3> HIDE DEF S
      <3>1. QED
        BY <2>3, <2>4
    <2>6. QED
      BY <2>4, <2>5
  <1>10. FlattenSeq(seqs) = f[n]
    BY <1>1, <1>2, <1>9
  <1>11. \A i \in 2..n : f[i] = f[i - 1] \o seqs[i]
    <2>1. \A i \in 2..n : i \in 1..n /\ i # 1
      OBVIOUS
    <2>2. QED
      BY <1>4, <2>1
  <1>12. QED
    BY <1>1, <1>4, <1>10, <1>11

LEMMA JoinTwo ==
  ASSUME NEW f \in Seq(Message), NEW a \in Message, NEW b \in Message
  PROVE  (f \o <<a>>) \o <<b>> = f \o <<a, b>> /\ <<a, b>> \in Seq(Message)
  <1> DEFINE x == <<a>>
             y == <<b>>
  <1>1. x \in Seq(Message) /\ y \in Seq(Message) /\ <<a, b>> \in Seq(Message)
    OBVIOUS
  <1>2. x \o y = <<a, b>>
    <2>1. Len(x) = 1 /\ Len(y) = 1 /\ x[1] = a /\ y[1] = b
      OBVIOUS
    <2> HIDE DEF x, y
    <2>2. /\ x \o y \in Seq(Message) /\ Len(x \o y) = 2
          /\ (x \o y)[1] = a /\ (x \o y)[2] = b
      <3>1. /\ 1 \in 1..Len(x) /\ 2 \in (Len(x) + 1)..(Len(x) + Len(y)) /\ 2 - Len(x) = 1
            /\ Len(x) + Len(y) = 2
        BY <2>1
      <3>2. x \o y \in Seq(Message) /\ Len(x \o y) = Len(x) + Len(y)
        BY <1>1, JoinFacts
      <3>3. (x \o y)[1] = x[1]
        BY <1>1, <3>1, JoinFacts
      <3>4. (x \o y)[2] = y[2 - Len(x)]
        BY <1>1, <3>1, JoinFacts
      <3>5. QED
        BY <2>1, <3>1, <3>2, <3>3, <3>4
    <2> DEFINE z == <<a, b>>
    <2>3. z \in Seq(Message) /\ Len(z) = 2 /\ z[1] = a /\ z[2] = b
      OBVIOUS
    <2> HIDE DEF z
    <2>4. x \o y = z
      BY <2>2, <2>3, SeqEqual
    <2>5. QED
      BY <2>4 DEF z
  <1> HIDE DEF x, y
  <1>3. (f \o x) \o y = f \o (x \o y)
    BY <1>1, ConcatAssociative
  <1>4. QED
    BY <1>1, <1>2, <1>3 DEF x, y

Placed(ms) == \A i \in 1..Len(ms) : ms[i].at = {i}

LEMMA SummaryFacts ==
  ASSUME NEW ms \in Seq(Message), Placed(ms),
         NEW s \in 1..Len(ms), NEW e \in s..Len(ms), NEW role \in Roles,
         NEW merge, s..e \subseteq merge
  PROVE  /\ Summary(ms, s, e, role) \in Message /\ Summary(ms, s, e, role).at = s..e
         /\ Summary(ms, s, e, role).role = role /\ IsSummary(Summary(ms, s, e, role), merge)
  <1>1. PositionsOf(SubSeq(ms, s, e)) = s..e
    BY SpanPositions DEF Placed
  <1>2. s..e \in SUBSET Nat /\ {} \in SUBSET Nat /\ "summary" \in Forms
    BY DEF Forms, Replacing
  <1> DEFINE m == Text(role, "summary", s..e, 1)
  <1>3. /\ m \in Message /\ m.at = s..e /\ m.role = role /\ IsSummary(m, merge)
    BY <1>2 DEF Text, Message, IsSummary
  <1>4. Summary(ms, s, e, role) = m
    BY <1>1 DEF Summary
  <1>5. QED
    BY <1>3, <1>4

\* The roles of a conversation alternate.
LEMMA ConversationRoles ==
  ASSUME NEW raw, Conversational(raw)
  PROVE  /\ \A i \in 1..Len(raw) : raw[i].role \in Roles
         /\ \A i \in 1..Len(raw) : i + 1 \in 1..Len(raw) => raw[i].role # raw[i + 1].role
  <1>1. \A i \in 1..Len(raw) : raw[i].role \in Roles
    BY ConversationFacts
  <1>2. ASSUME NEW i \in 1..Len(raw), i + 1 \in 1..Len(raw)
        PROVE  raw[i].role # raw[i + 1].role
    BY <1>2, ConversationFacts
  <1>3. QED
    BY <1>1, <1>2

\* The summaries of a run follow the message before it, and fit to the one behind it.
LEMMA SummariesStep ==
  ASSUME NEW raw, Conversational(raw), NEW rows, NEW ms, Reduced(ms, raw, rows), NEW merge,
         NEW s \in 2..Len(ms), NEW e \in s..Len(ms), s..e \subseteq merge,
         NEW f, Compacted(f, s - 1, ms, merge), f[Len(f)] = ms[s - 1]
  PROVE  LET g == f \o Summaries(ms, s, e)
         IN  /\ Summaries(ms, s, e) \in Seq(Message)
             /\ Compacted(g, e, ms, merge)
             /\ e < Len(ms) => g[Len(g)].role # ms[e + 1].role
  <1> DEFINE n == Len(ms)
             left == ms[s - 1].role
             right == IF e < n THEN ms[e + 1].role ELSE "none"
             mid == s + (e - s) \div 2
  <1>0. /\ n \in Nat /\ s \in Nat /\ e \in Nat /\ s >= 2 /\ s <= e /\ e <= n
        /\ s - 1 \in Nat /\ s - 1 \in 1..n /\ s \in 1..n /\ (s - 1) + 1 = s /\ e > s - 1
    BY DEF Reduced
  <1>1. /\ ms \in Seq(Message) /\ \A i \in 1..n : ms[i] \in Message /\ ms[i].at = {i}
        /\ \A i \in 1..n : ms[i].role \in Roles
        /\ \A i \in 1..n : i + 1 \in 1..n => ms[i].role # ms[i + 1].role
    <2>1. /\ ms \in Seq(Message) /\ n = Len(raw) /\ \A i \in 1..n : ms[i].at = {i} /\ ms[i].role = raw[i].role
      BY DEF Reduced
    <2>2. /\ \A i \in 1..n : raw[i].role \in Roles
          /\ \A i \in 1..n : i + 1 \in 1..n => raw[i].role # raw[i + 1].role
      BY <2>1, ConversationRoles
    <2>3. \A i \in 1..n : ms[i] \in Message
      BY <2>1
    <2>4. \A i \in 1..n : i + 1 \in 1..n => ms[i].role # ms[i + 1].role
      BY <2>1, <2>2
    <2>5. QED
      BY <2>1, <2>2, <2>3, <2>4
  <1>2. f \in Seq(Message) /\ Placed(ms)
    BY <1>1 DEF Compacted, Placed
  <1>3. left \in Roles /\ (e < n => right = ms[e + 1].role /\ right \in Roles) /\ (e >= n => right = "none")
    BY <1>0, <1>1
  <1>4. Opposite(left) \in Roles /\ Opposite(left) # left
        /\ (right \in Roles => Opposite(right) \in Roles /\ Opposite(right) # right)
    BY <1>3 DEF Opposite, Roles
  <1>5. CASE right \in {"none", left}
    <2> DEFINE m == Summary(ms, s, e, Opposite(left))
    <2>1. Summaries(ms, s, e) = <<m>>
      BY <1>5 DEF Summaries, RolesBetween
    <2>2. m \in Message /\ m.at = s..e /\ m.role = Opposite(left) /\ IsSummary(m, merge)
      <3> HIDE DEF left, right, n
      <3>1. /\ Opposite(left) \in Roles /\ s \in 1..Len(ms) /\ e \in s..Len(ms)
            /\ ms \in Seq(Message) /\ s..e \subseteq merge
        BY <1>0, <1>1, <1>4 DEF n
      <3>2. QED
        BY <1>2, <3>1, SummaryFacts
    <2> HIDE DEF m, left, right
    <2>3. m.role # f[Len(f)].role /\ m.at = ((s - 1) + 1)..e
      BY <1>0, <1>4, <2>2 DEF left
    <2>4. Compacted(f \o <<m>>, e, ms, merge) /\ Len(f \o <<m>>) = Len(f) + 1 /\ (f \o <<m>>)[Len(f) + 1] = m
      BY <1>0, <2>2, <2>3, CompactedStep
    <2>5. e < n => m.role # ms[e + 1].role
      <3>1. "none" \notin Roles
        BY DEF Roles
      <3>2. QED
        BY <1>3, <1>4, <1>5, <2>2, <3>1
    <2>6. <<m>> \in Seq(Message)
      BY <2>2
    <2>7. QED
      BY <2>1, <2>4, <2>5, <2>6
  <1>6. CASE right \notin {"none", left}
    <2>1. e < n /\ right \in Roles /\ Opposite(right) = left /\ right = Opposite(left)
          /\ right = ms[e + 1].role
      BY <1>0, <1>3, <1>6 DEF Opposite, Roles
    <2>2. Len(<<Opposite(left), Opposite(right)>>) = 2
      OBVIOUS
    <2>3. Summaries(ms, s, e) = IF s = e THEN <<ms[s]>>
                                ELSE <<Summary(ms, s, mid, Opposite(left)),
                                       Summary(ms, mid + 1, e, Opposite(right))>>
      BY <1>6, <2>2 DEF Summaries, RolesBetween
    <2>4. CASE s = e
      <3> DEFINE m == ms[s]
      <3>1. m \in Message /\ m.at = ((s - 1) + 1)..e /\ \E i \in 1..Len(ms) : m = ms[i]
        <4>1. m.at = {s} /\ {s} = s..s
          BY <1>0, <1>1
        <4>2. QED
          BY <1>0, <1>1, <2>4, <4>1
      <3>2. m.role # f[Len(f)].role
        BY <1>0, <1>1
      <3>3. m.role # ms[e + 1].role
        BY <1>0, <1>1, <2>1, <2>4
      <3> HIDE DEF m
      <3>4. Compacted(f \o <<m>>, e, ms, merge) /\ Len(f \o <<m>>) = Len(f) + 1 /\ (f \o <<m>>)[Len(f) + 1] = m
        BY <1>0, <3>1, <3>2, CompactedStep
      <3>5. Summaries(ms, s, e) = <<m>> /\ <<m>> \in Seq(Message)
        BY <2>3, <2>4, <3>1 DEF m
      <3>6. QED
        BY <3>3, <3>4, <3>5
    <2>5. CASE s # e
      <3> DEFINE a == Summary(ms, s, mid, Opposite(left))
                 b == Summary(ms, mid + 1, e, Opposite(right))
      <3>1. mid \in Nat /\ s <= mid /\ mid < e
        BY <1>0, <2>5
      <3> HIDE DEF mid
      <3>2. /\ s \in 1..n /\ mid \in s..n /\ s..mid \subseteq merge
            /\ mid + 1 \in 1..n /\ e \in (mid + 1)..n /\ (mid + 1)..e \subseteq merge
        BY <1>0, <3>1
      <3>3. a \in Message /\ a.at = s..mid /\ a.role = Opposite(left) /\ IsSummary(a, merge)
        <4> HIDE DEF left, right, n
        <4>1. Opposite(left) \in Roles /\ s \in 1..Len(ms) /\ mid \in s..Len(ms)
          BY <1>4, <3>2 DEF n
        <4>2. QED
          BY <1>1, <1>2, <3>2, <4>1, SummaryFacts
      <3>4. b \in Message /\ b.at = (mid + 1)..e /\ b.role = Opposite(right) /\ IsSummary(b, merge)
        <4> HIDE DEF left, right, n
        <4>1. /\ Opposite(right) \in Roles /\ mid + 1 \in 1..Len(ms) /\ e \in (mid + 1)..Len(ms)
              /\ ms \in Seq(Message) /\ (mid + 1)..e \subseteq merge
          BY <1>1, <1>4, <2>1, <3>2 DEF n
        <4>2. QED
          BY <1>2, <4>1, SummaryFacts, SMTT(30)
      <3> HIDE DEF a, b, left, right
      <3>5. a.role # f[Len(f)].role /\ a.at = ((s - 1) + 1)..mid /\ mid > s - 1
        BY <1>0, <1>4, <3>1, <3>3 DEF left
      <3>6. Compacted(f \o <<a>>, mid, ms, merge) /\ Len(f \o <<a>>) = Len(f) + 1 /\ (f \o <<a>>)[Len(f) + 1] = a
        BY <1>0, <3>1, <3>3, <3>5, CompactedStep
      <3> DEFINE h == f \o <<a>>
      <3>7. b.role # h[Len(h)].role
        BY <1>4, <2>1, <3>3, <3>4, <3>6
      <3>8. Compacted(h, mid, ms, merge)
        BY <3>6
      <3> HIDE DEF h
      <3>9. Compacted(h \o <<b>>, e, ms, merge) /\ Len(h \o <<b>>) = Len(h) + 1 /\ (h \o <<b>>)[Len(h) + 1] = b
        BY <1>0, <3>1, <3>4, <3>7, <3>8, CompactedStep
      <3>10. b.role # ms[e + 1].role
        BY <1>4, <2>1, <3>4
      <3>11. h \o <<b>> = f \o <<a, b>> /\ <<a, b>> \in Seq(Message)
        BY <1>2, <3>3, <3>4, JoinTwo DEF h
      <3>12. Summaries(ms, s, e) = <<a, b>>
        BY <2>3, <2>5 DEF a, b
      <3>13. QED
        BY <3>9, <3>10, <3>11, <3>12
    <2>6. QED
      BY <2>4, <2>5
  <1>7. QED
    BY <1>5, <1>6

\* The first message is never merged.
LEMMA CompactedFirst ==
  ASSUME NEW ms \in Seq(Message), Len(ms) >= 1, ms[1].at = {1}, NEW merge
  PROVE  /\ Compacted(<<ms[1]>>, 1, ms, merge)
         /\ Len(<<ms[1]>>) = 1 /\ <<ms[1]>>[1] = ms[1]
  <1> DEFINE m == ms[1]
             f == <<m>>
  <1>1. m \in Message /\ m.at = {1} /\ \E i \in 1..Len(ms) : m = ms[i]
    <2>1. Len(ms) \in Nat /\ 1 \in 1..Len(ms)
      OBVIOUS
    <2>2. QED
      BY <2>1
  <1> HIDE DEF m
  <1>2. f \in Seq(Message) /\ Len(f) = 1 /\ f[1] = m
    BY <1>1
  <1> HIDE DEF f
  <1>3. \A i \in 1..Len(f) : i = 1 /\ i + 1 \notin 1..Len(f)
    BY <1>2
  <1>4. Ordered(f) /\ Alternates(f)
    BY <1>3 DEF Ordered, Alternates
  <1>5. Compacted(f, 1, ms, merge)
    BY <1>1, <1>2, <1>3, <1>4 DEF Compacted
  <1>6. QED
    BY <1>2, <1>5 DEF f, m

LEMMA SummariesTyped ==
  ASSUME NEW raw, Conversational(raw), NEW rows, NEW ms, Reduced(ms, raw, rows),
         NEW s \in 2..Len(ms), NEW e \in s..Len(ms)
  PROVE  Summaries(ms, s, e) \in Seq(Message)
  <1> DEFINE n == Len(ms)
             left == ms[s - 1].role
             right == IF e < n THEN ms[e + 1].role ELSE "none"
             mid == s + (e - s) \div 2
  <1>0. n \in Nat /\ s \in Nat /\ e \in Nat /\ s >= 2 /\ s <= e /\ e <= n /\ s \in 1..n
    BY DEF Reduced
  <1>1. ms \in Seq(Message) /\ Placed(ms) /\ ms[s] \in Message
    BY <1>0 DEF Reduced, Placed
  <1>2. Opposite(left) \in Roles /\ Opposite(right) \in Roles
    BY DEF Opposite, Roles
  <1>3. \A a \in 1..n : \A b \in a..n : \A role \in Roles : Summary(ms, a, b, role) \in Message
    BY <1>1, SummaryFacts
  <1>4. s \in 1..n /\ e \in s..n /\ mid \in s..n /\ (s # e => mid + 1 \in 1..n /\ e \in (mid + 1)..n)
    BY <1>0
  <1>5. \/ Summaries(ms, s, e) = <<Summary(ms, s, e, Opposite(left))>>
        \/ Summaries(ms, s, e) = <<ms[s]>>
        \/ /\ s # e
           /\ Summaries(ms, s, e) = <<Summary(ms, s, mid, Opposite(left)),
                                      Summary(ms, mid + 1, e, Opposite(right))>>
    <2>1. Len(<<Opposite(left), Opposite(right)>>) = 2
      OBVIOUS
    <2>2. QED
      BY <2>1 DEF Summaries, RolesBetween
  <1> HIDE DEF mid, left, right, n
  <1>6. CASE Summaries(ms, s, e) = <<Summary(ms, s, e, Opposite(left))>>
    <2>1. Summary(ms, s, e, Opposite(left)) \in Message
      BY <1>2, <1>3, <1>4
    <2>2. QED
      BY <1>6, <2>1
  <1>7. CASE Summaries(ms, s, e) = <<ms[s]>>
    BY <1>1, <1>7
  <1>8. CASE /\ s # e
             /\ Summaries(ms, s, e) = <<Summary(ms, s, mid, Opposite(left)),
                                        Summary(ms, mid + 1, e, Opposite(right))>>
    <2>1. Summary(ms, s, mid, Opposite(left)) \in Message
      BY <1>2, <1>3, <1>4
    <2>2. Summary(ms, mid + 1, e, Opposite(right)) \in Message
      BY <1>2, <1>3, <1>4, <1>8
    <2>3. QED
      BY <1>8, <2>1, <2>2
  <1>9. QED
    BY <1>5, <1>6, <1>7, <1>8

\* What Compact puts in the place of message i.
PartAt(ms, old, i) ==
  LET run == {r \in Runs(ms, old) : i \in r[1]..r[2]}
  IN IF run = {} THEN <<ms[i]>>
     ELSE LET r == CHOOSE r \in run : TRUE
          IN IF i = r[1] THEN Summaries(ms, r[1], r[2]) ELSE <<>>

LEMMA PartFacts ==
  ASSUME NEW ms \in Seq(Message), NEW old, NEW i
  PROVE  /\ (\A r \in Runs(ms, old) : i \notin r[1]..r[2]) => PartAt(ms, old, i) = <<ms[i]>>
         /\ \A r \in Runs(ms, old) : i \in r[1]..r[2] =>
              PartAt(ms, old, i) = IF i = r[1] THEN Summaries(ms, r[1], r[2]) ELSE <<>>
  <1> DEFINE run == {r \in Runs(ms, old) : i \in r[1]..r[2]}
  <1>1. ASSUME \A r \in Runs(ms, old) : i \notin r[1]..r[2]
        PROVE  PartAt(ms, old, i) = <<ms[i]>>
    <2>1. run = {}
      BY <1>1
    <2>2. QED
      BY <2>1 DEF PartAt
  <1>2. ASSUME NEW r \in Runs(ms, old), i \in r[1]..r[2]
        PROVE  PartAt(ms, old, i) = IF i = r[1] THEN Summaries(ms, r[1], r[2]) ELSE <<>>
    <2>1. \A s \in run : s = r
      BY <1>2, RunFacts
    <2>2. r \in run
      BY <1>2
    <2>3. (CHOOSE s \in run : TRUE) = r /\ run # {}
      BY <2>1, <2>2, Zenon
    <2>4. QED
      BY <2>3 DEF PartAt
  <1>3. QED
    BY <1>1, <1>2

\* The whole of what Compact returns.
LEMMA CompactFacts ==
  ASSUME NEW raw, Conversational(raw), NEW rows, NEW ms, Reduced(ms, raw, rows), NEW old
  PROVE  Compacted(Compact(ms, old), Len(raw), ms, Mergeable(ms, old))
  <1> DEFINE n == Len(raw)
             merge == Mergeable(ms, old)
             runs == Runs(ms, old)
             seqs == [i \in 1..n |-> PartAt(ms, old, i)]
             InRun(i) == \E r \in runs : i \in r[1]..r[2]
  <1>0. n \in Nat /\ n >= 1 /\ n \in 1..n /\ 1 \in 1..n
    BY ConversationFacts
  <1>1. /\ ms \in Seq(Message) /\ Len(ms) = n /\ DOMAIN ms = 1..n
        /\ \A i \in 1..n : ms[i] \in Message /\ ms[i].at = {i}
        /\ \A i \in 1..n : i + 1 \in 1..n => ms[i].role # ms[i + 1].role
    <2>1. /\ ms \in Seq(Message) /\ Len(ms) = n
          /\ \A i \in 1..n : ms[i].at = {i} /\ ms[i].role = raw[i].role
      BY DEF Reduced
    <2>2. \A i \in 1..n : i + 1 \in 1..n => raw[i].role # raw[i + 1].role
      BY ConversationFacts
    <2>3. QED
      BY <2>1, <2>2
  <1>2. CASE runs = {}
    <2>1. Compact(ms, old) = ms
      BY <1>2 DEF Compact
    <2>2. QED
      BY <2>1, ReducedCompacted
  <1>3. CASE runs # {}
    <2>1. Compact(ms, old) = FlattenSeq(seqs)
      BY <1>1, <1>3 DEF Compact, PartAt
    <2>2. \A r \in runs :
            /\ r[1] \in 2..n /\ r[2] \in r[1]..n
            /\ r[1]..r[2] \subseteq merge /\ r[1] - 1 \notin merge
            /\ \A s \in runs : \A i \in r[1]..r[2] : i \in s[1]..s[2] => s = r
      BY <1>1, RunFacts
    <2>3. \A i : /\ ~InRun(i) => PartAt(ms, old, i) = <<ms[i]>>
                 /\ \A r \in runs : i \in r[1]..r[2] =>
                      PartAt(ms, old, i) = IF i = r[1] THEN Summaries(ms, r[1], r[2]) ELSE <<>>
      BY <1>1, PartFacts
    <2> HIDE DEF n, merge, runs
    <2>4. \A i \in 1..n : PartAt(ms, old, i) \in Seq(Message)
      <3> SUFFICES ASSUME NEW i \in 1..n PROVE PartAt(ms, old, i) \in Seq(Message)
        OBVIOUS
      <3>1. CASE ~InRun(i)
        BY <1>1, <2>3, <3>1
      <3>2. ASSUME NEW r \in runs, i \in r[1]..r[2] PROVE PartAt(ms, old, i) \in Seq(Message)
        <4>1. CASE i = r[1]
          <5>1. r[1] \in 2..Len(ms) /\ r[2] \in r[1]..Len(ms)
            BY <1>1, <2>2
          <5>2. Summaries(ms, r[1], r[2]) \in Seq(Message)
            BY <5>1, SummariesTyped DEF n
          <5>3. QED
            BY <2>3, <3>2, <4>1, <5>2
        <4>2. CASE i # r[1]
          <5>1. PartAt(ms, old, i) = <<>>
            BY <2>3, <3>2, <4>2
          <5>2. QED
            BY <5>1
        <4>3. QED
          BY <4>1, <4>2
      <3>3. QED
        BY <3>1, <3>2
    <2>5. PICK f \in [1..n -> Seq(Message)] :
            /\ f[1] = seqs[1] /\ \A i \in 2..n : f[i] = f[i - 1] \o seqs[i]
            /\ FlattenSeq(seqs) = f[n]
      <3>1. seqs \in [1..n -> Seq(Message)]
        BY <2>4
      <3> HIDE DEF seqs
      <3>2. QED
        BY <1>0, <3>1, FlattenFacts
    <2> DEFINE Left(k) == Compacted(f[k], k, ms, merge) /\ f[k][Len(f[k])] = ms[k]
               Over(k, r) == /\ Compacted(f[k], r[2], ms, merge)
                             /\ r[2] < n => f[k][Len(f[k])].role # ms[r[2] + 1].role
               Good(k) == /\ ~InRun(k) => Left(k)
                          /\ \A r \in runs : k \in r[1]..r[2] => Over(k, r)
               S == {j \in Nat : j + 1 \in 1..n => Good(j + 1)}
    <2>6. ~InRun(1)
      BY <2>2
    <2>7. Left(1)
      <3>1. f[1] = <<ms[1]>>
        BY <1>0, <2>3, <2>5, <2>6
      <3>2. Compacted(<<ms[1]>>, 1, ms, merge)
        BY <1>0, <1>1, CompactedFirst DEF n
      <3>3. QED
        BY <3>1, <3>2
    <2>8. ASSUME NEW k \in Nat, k \in 1..n, k + 1 \in 1..n, Good(k) PROVE Good(k + 1)
      <3> DEFINE g == f[k]
                 m == ms[k + 1]
      <3>0. /\ k \in Nat /\ k + 1 \in Nat /\ k + 1 > k /\ k + 1 \in 2..n /\ (k + 1) - 1 = k
            /\ g \in Seq(Message) /\ f[k + 1] = g \o PartAt(ms, old, k + 1)
        <4>1. k + 1 \in 2..n /\ (k + 1) - 1 = k
          BY <2>8
        <4>2. seqs[k + 1] = PartAt(ms, old, k + 1)
          BY <2>8
        <4> HIDE DEF seqs
        <4>3. f[k + 1] = g \o seqs[k + 1]
          BY <2>5, <4>1
        <4>4. g \in Seq(Message)
          BY <2>5, <2>8
        <4>5. QED
          BY <2>8, <4>1, <4>2, <4>3, <4>4
      <3>1. m \in Message /\ m.at = {k + 1} /\ m.role # ms[k].role
        BY <1>1, <2>8
      <3>2. CASE ~InRun(k + 1)
        <4>1. g[Len(g)].role # m.role /\ Compacted(g, k, ms, merge)
          <5>1. CASE ~InRun(k)
            BY <2>8, <3>1, <5>1
          <5>2. ASSUME NEW r \in runs, k \in r[1]..r[2]
                PROVE  g[Len(g)].role # m.role /\ Compacted(g, k, ms, merge)
            <6>1. r[1] \in Nat /\ r[2] \in Nat /\ k + 1 \notin r[1]..r[2]
              BY <1>0, <2>2, <3>2
            <6>2. k = r[2] /\ r[2] < n
              BY <1>0, <2>8, <5>2, <6>1
            <6>3. QED
              BY <2>8, <5>2, <6>2
          <5>3. QED
            BY <5>1, <5>2
        <4>2. f[k + 1] = g \o <<m>>
          BY <2>3, <3>0, <3>2
        <4>3. m.at = (k + 1)..(k + 1) /\ \E i \in 1..Len(ms) : m = ms[i]
          BY <1>1, <2>8, <3>1
        <4> HIDE DEF g, m
        <4>4. /\ Compacted(g \o <<m>>, k + 1, ms, merge)
              /\ Len(g \o <<m>>) = Len(g) + 1 /\ (g \o <<m>>)[Len(g) + 1] = m
          <5> DEFINE e == k + 1
          <5>1. e \in Nat /\ e > k /\ m.at = (k + 1)..e
            BY <3>0, <4>3
          <5> HIDE DEF e
          <5>2. /\ Compacted(g \o <<m>>, e, ms, merge)
                /\ Len(g \o <<m>>) = Len(g) + 1 /\ (g \o <<m>>)[Len(g) + 1] = m
            BY <3>1, <4>1, <4>3, <5>1, CompactedStep
          <5>3. QED
            BY <5>2 DEF e
        <4>5. Left(k + 1)
          BY <4>2, <4>4 DEF m
        <4>6. QED
          BY <3>2, <4>5
      <3>3. ASSUME NEW r \in runs, k + 1 \in r[1]..r[2] PROVE Good(k + 1)
        <4>1. /\ r[1] \in 2..Len(ms) /\ r[2] \in r[1]..Len(ms) /\ r[1] \in Nat /\ r[2] \in Nat
              /\ r[1]..r[2] \subseteq merge /\ r[1] - 1 \notin merge
          BY <1>0, <1>1, <2>2
        <4>2. Over(k + 1, r)
          <5>1. CASE r[1] = k + 1
            <6>1. k \notin merge
              BY <4>1, <5>1, <3>0
            <6>2. ~InRun(k)
              BY <2>2, <6>1
            <6>3. Compacted(g, r[1] - 1, ms, merge) /\ g[Len(g)] = ms[r[1] - 1]
              BY <2>8, <3>0, <5>1, <6>2
            <6>4. f[k + 1] = g \o Summaries(ms, r[1], r[2])
              BY <2>3, <3>0, <3>3, <5>1
            <6> HIDE DEF g
            <6>5. LET h == g \o Summaries(ms, r[1], r[2])
                  IN  /\ Compacted(h, r[2], ms, merge)
                      /\ r[2] < Len(ms) => h[Len(h)].role # ms[r[2] + 1].role
              BY <4>1, <6>3, SummariesStep
            <6>6. QED
              BY <1>1, <6>4, <6>5
          <5>2. CASE r[1] # k + 1
            <6>1. k \in r[1]..r[2]
              BY <3>0, <3>3, <4>1, <5>2
            <6>2. PartAt(ms, old, k + 1) = <<>>
              BY <2>3, <3>3, <5>2
            <6>3. f[k + 1] = g
              BY <3>0, <6>2, ConcatEmptySeq
            <6>4. QED
              BY <2>8, <6>1, <6>3
          <5>3. QED
            BY <5>1, <5>2
        <4>3. \A s \in runs : k + 1 \in s[1]..s[2] => s = r
          BY <2>2, <3>3
        <4>4. QED
          BY <3>3, <4>2, <4>3
      <3>4. QED
        BY <3>2, <3>3
    <2> HIDE DEF Good
    <2>9. 0 \in S
      BY <2>6, <2>7 DEF Good
    <2>10. ASSUME NEW j \in Nat, j \in S PROVE j + 1 \in S
      <3>1. j + 1 + 1 \in 1..n => j + 1 \in 1..n
        BY <1>0
      <3>2. QED
        BY <2>8, <2>10, <3>1
    <2>11. \A j \in Nat : j \in S
      <3> HIDE DEF S
      <3>1. QED
        BY <2>9, <2>10, NatSetInduction
    <2>12. Good(n)
      <3>1. n - 1 \in Nat /\ (n - 1) + 1 = n
        BY <1>0
      <3>2. n - 1 \in S
        <4> HIDE DEF S
        <4>1. QED
          BY <2>11, <3>1
      <3>3. QED
        BY <1>0, <3>1, <3>2
    <2>13. Compacted(f[n], n, ms, merge)
      <3>1. CASE ~InRun(n)
        BY <2>12, <3>1 DEF Good
      <3>2. ASSUME NEW r \in runs, n \in r[1]..r[2] PROVE Compacted(f[n], n, ms, merge)
        <4>1. r[2] = n
          BY <1>0, <2>2, <3>2
        <4>2. QED
          BY <2>12, <3>2, <4>1 DEF Good
      <3>3. QED
        BY <3>1, <3>2
    <2>14. QED
      BY <2>1, <2>5, <2>13 DEF n, merge
  <1>4. QED
    BY <1>2, <1>3

-----------------------------------------------------------------------------
(* The repair of tool pairs                                                *)

\* The messages that may be merged are in the rows, and a tool use with its results and
\* with what follows them; the tool use that is being answered is not one of them.
Spared(merge, raw, rows) ==
  /\ \A i \in merge : /\ i \in Rows(rows)
                      /\ raw[i].uses # {} => i + 1 \in Rows(rows) /\ i + 2 \in Rows(rows)
  /\ raw[Len(raw)].results # {} => Len(raw) \notin merge /\ Len(raw) - 1 \notin merge

\* The summary before results whose use is gone, and what comes after them, are in the rows.
OrphanSpared(ms, q, rows) ==
  /\ q > 1 /\ ms[q].role = "user" /\ ms[q].at \subseteq Rows(rows)
  /\ ms[q].results \cap AllUses(ms) = {}
  /\ ms[q - 1].form = "summary" /\ ms[q - 1].ref = 0 /\ ms[q - 1].at \subseteq Rows(rows)
  /\ ms[q - 1].results = {}
  /\ q + 1 \in 1..Len(ms) => ms[q + 1].at \subseteq Rows(rows)

\* What ValidateToolPairs is given after a compaction.
Mendable(ms, raw, rows) ==
  /\ ms \in Seq(Message) /\ Len(ms) \in Nat /\ Len(ms) >= 1
  /\ \A q \in 1..Len(ms) : /\ Sided(ms[q]) /\ Stored(ms[q], rows) /\ ms[q].at \subseteq 1..Len(raw)
                           /\ Orphaned(ms, q) => OrphanSpared(ms, q, rows)
                           /\ \A u \in ms[q].results \cap AllUses(ms) :
                                \E j \in 1..Len(ms) : j < q /\ u \in ms[j].uses
  /\ \A p \in 1..Len(raw) : \E q \in 1..Len(ms) : p \in ms[q].at
  /\ Ordered(ms) /\ Alternates(ms) /\ EndsAs(ms, raw, Len(raw))
  /\ raw[Len(raw)].results # {} => ~Orphaned(ms, Len(ms)) /\ ~Orphaned(ms, Len(ms) - 1)

LEMMA CompactedMendable ==
  ASSUME NEW raw, Conversational(raw), NEW rows, NEW ms, Reduced(ms, raw, rows),
         NEW merge, Spared(merge, raw, rows),
         NEW c, Compacted(c, Len(raw), ms, merge)
  PROVE  Mendable(c, raw, rows)
  <1> DEFINE n == Len(raw)
             l == Len(c)
  <1>1. n \in Nat /\ n >= 1 /\ n \in 1..n
    BY ConversationFacts
  <1>2. \A i \in 1..n :
          /\ Sided(raw[i])
          /\ raw[i].uses # {} => raw[i].uses = {i}
          /\ raw[i].results # {} => /\ raw[i].results = {i - 1} /\ i - 1 \in 1..n /\ i > 2
                                    /\ raw[i - 1].uses = {i - 1}
    BY ConversationFacts
  <1>3. /\ ms \in Seq(Message) /\ Len(ms) = n
        /\ \A i \in 1..n :
             /\ ms[i].at = {i} /\ ms[i].role = raw[i].role /\ Stored(ms[i], rows)
             /\ ms[i].uses \in {raw[i].uses, {}} /\ ms[i].results \in {raw[i].results, {}}
             /\ ms[i].results # {} => ms[i - 1].uses = raw[i - 1].uses
        /\ raw[n].results # {} => ms[n].results = raw[n].results /\ ms[n - 1].uses = raw[n - 1].uses
    BY DEF Reduced
  <1>4. /\ c \in Seq(Message) /\ l \in Nat /\ l >= 1
        /\ 1 \in c[1].at /\ n \in c[l].at
        /\ \A q \in 1..l : /\ IsSummary(c[q], merge) \/ \E i \in 1..n : c[q] = ms[i]
                           /\ c[q].at \subseteq 1..n
        /\ \A p \in 1..n : \E q \in 1..l : p \in c[q].at
        /\ Ordered(c) /\ Alternates(c)
        /\ \A q \in 1..l : q + 1 \in 1..l => \E p \in c[q].at : p + 1 \in c[q + 1].at
    BY <1>3 DEF Compacted
  <1>5. /\ \A i \in merge : /\ i \in Rows(rows)
                            /\ raw[i].uses # {} => i + 1 \in Rows(rows) /\ i + 2 \in Rows(rows)
        /\ raw[n].results # {} => n \notin merge /\ n - 1 \notin merge
    BY DEF Spared
  <1> HIDE DEF n, l
  <1>6. ASSUME NEW q \in 1..l, IsSummary(c[q], merge)
        PROVE  /\ c[q].form = "summary" /\ c[q].uses = {} /\ c[q].results = {} /\ c[q].ref = 0
               /\ c[q].at \subseteq merge /\ c[q].at \subseteq Rows(rows)
               /\ Sided(c[q]) /\ Stored(c[q], rows)
    <2>1. /\ c[q].form = "summary" /\ c[q].uses = {} /\ c[q].results = {} /\ c[q].ref = 0
          /\ c[q].at \subseteq merge
      BY <1>6 DEF IsSummary
    <2>2. c[q].at \subseteq Rows(rows)
      BY <1>5, <2>1
    <2>3. QED
      BY <2>1, <2>2 DEF Sided, Stored
  <1>7. ASSUME NEW i \in 1..n
        PROVE  /\ Sided(ms[i]) /\ Stored(ms[i], rows) /\ ms[i].at = {i}
               /\ ms[i].uses \subseteq {i}
               /\ ms[i].results # {} => /\ ms[i].results = {i - 1} /\ i - 1 \in 1..n /\ i > 2
                                        /\ ms[i - 1].uses = {i - 1} /\ raw[i - 1].uses = {i - 1}
                                        /\ ms[i].role = "user"
    <2>1. Sided(ms[i])
      BY <1>2, <1>3 DEF Sided
    <2>2. ms[i].uses \subseteq {i}
      BY <1>2, <1>3, SMTT(30)
    <2>3. ASSUME ms[i].results # {}
          PROVE  /\ ms[i].results = {i - 1} /\ i - 1 \in 1..n /\ i > 2
                 /\ ms[i - 1].uses = {i - 1} /\ raw[i - 1].uses = {i - 1}
                 /\ ms[i].role = "user"
      <3>1. raw[i].results # {} /\ ms[i].results = raw[i].results
        BY <1>3, <2>3
      <3>2. raw[i].results = {i - 1} /\ i - 1 \in 1..n /\ i > 2 /\ raw[i - 1].uses = {i - 1}
        BY <1>2, <3>1
      <3>3. ms[i - 1].uses = raw[i - 1].uses
        BY <1>3, <2>3
      <3>4. QED
        BY <2>1, <2>3, <3>1, <3>2, <3>3 DEF Sided
    <2>4. QED
      BY <1>3, <2>1, <2>2, <2>3
  <1>8. ASSUME NEW q \in 1..l
        PROVE  Sided(c[q]) /\ Stored(c[q], rows) /\ c[q].at \subseteq 1..n
    BY <1>4, <1>6, <1>7
  <1>9. ASSUME NEW q \in 1..l, NEW u \in c[q].results
        PROVE  \E i \in 1..n : /\ c[q] = ms[i] /\ i > 2 /\ u = i - 1 /\ c[q].at = {i}
                               /\ c[q].results = {i - 1} /\ i - 1 \in 1..n
                               /\ ms[i - 1].uses = {i - 1} /\ raw[i - 1].uses = {i - 1}
                               /\ c[q].role = "user"
    <2>1. PICK i \in 1..n : c[q] = ms[i]
      BY <1>4, <1>6, <1>9
    <2>2. QED
      BY <1>7, <1>9, <2>1
  <1>10. ASSUME NEW q \in 1..l, NEW u \in c[q].uses PROVE c[q].at = {u}
    <2>1. PICK i \in 1..n : c[q] = ms[i]
      BY <1>4, <1>6, <1>10
    <2>2. QED
      BY <1>7, <1>10, <2>1
  <1>11. DOMAIN c = 1..l
    BY <1>4 DEF l
  <1>12. ASSUME NEW q \in 1..l, NEW u \in c[q].results \cap AllUses(c)
         PROVE  \E j \in 1..l : j < q /\ u \in c[j].uses
    <2>1. PICK j \in 1..l : u \in c[j].uses
      BY <1>11, <1>12 DEF AllUses
    <2>2. PICK i \in 1..n : u = i - 1 /\ c[q].at = {i}
      BY <1>9, <1>12
    <2>3. c[j].at = {i - 1}
      BY <1>10, <2>1, <2>2
    <2>4. ~(q < j) /\ q # j
      <3>1. i \in c[q].at /\ i - 1 \in c[j].at /\ ~(i < i - 1) /\ i # i - 1
        BY <1>1, <2>2, <2>3
      <3>2. \A a, b \in 1..l : b < a => \A x \in c[b].at, y \in c[a].at : x < y
        BY <1>4 DEF Ordered, l
      <3>3. ~(q < j)
        BY <3>1, <3>2
      <3>4. q # j
        BY <2>2, <2>3, <3>1
      <3>5. QED
        BY <3>3, <3>4
    <2>5. QED
      BY <1>4, <2>1, <2>4
  <1>14. ASSUME NEW q \in 1..l, NEW i \in 1..n, c[q].at = {i}, i > 1 PROVE q > 1 /\ q - 1 \in 1..l
    <2>1. q # 1
      BY <1>4, <1>14
    <2>2. QED
      BY <1>4, <2>1
  <1>15. ASSUME NEW q \in 1..l, NEW i \in 1..n, c[q].at = {i}, i > 1 PROVE i - 1 \in c[q - 1].at
    <2>1. q - 1 \in 1..l /\ (q - 1) + 1 = q
      BY <1>4, <1>14, <1>15
    <2>2. PICK p \in c[q - 1].at : p + 1 \in c[q].at
      BY <1>4, <2>1
    <2>3. p \in 1..n /\ p + 1 = i
      BY <1>4, <1>15, <2>1, <2>2
    <2>4. i - 1 = p
      BY <1>1, <2>3
    <2>5. QED
      BY <2>2, <2>4
  <1>16. ASSUME NEW q \in 1..l, Orphaned(c, q) PROVE OrphanSpared(c, q, rows)
    <2>1. PICK u \in c[q].results : u \notin AllUses(c)
      BY <1>16 DEF Orphaned
    <2>2. PICK i \in 1..n : /\ c[q] = ms[i] /\ i > 2 /\ u = i - 1 /\ c[q].at = {i}
                            /\ c[q].results = {i - 1} /\ i - 1 \in 1..n
                            /\ ms[i - 1].uses = {i - 1} /\ raw[i - 1].uses = {i - 1}
                            /\ c[q].role = "user"
      BY <1>9, <2>1
    <2>3. q > 1 /\ q - 1 \in 1..l /\ i - 1 \in c[q - 1].at
      BY <1>14, <1>15, <2>2
    <2>4. IsSummary(c[q - 1], merge)
      <3>1. SUFFICES ASSUME NEW k \in 1..n, c[q - 1] = ms[k] PROVE FALSE
        BY <1>4, <2>3
      <3>2. k = i - 1
        BY <1>7, <2>3, <3>1
      <3>3. u \in c[q - 1].uses
        BY <2>2, <3>1, <3>2
      <3>4. u \in AllUses(c)
        BY <1>11, <2>3, <3>3 DEF AllUses
      <3>5. QED
        BY <2>1, <3>4
    <2>5. /\ c[q - 1].form = "summary" /\ c[q - 1].results = {} /\ c[q - 1].ref = 0
          /\ c[q - 1].at \subseteq merge /\ c[q - 1].at \subseteq Rows(rows)
      BY <1>6, <2>3, <2>4
    <2>6. i \in Rows(rows) /\ i + 1 \in Rows(rows)
      <3>1. i - 1 \in merge /\ raw[i - 1].uses # {}
        BY <2>2, <2>3, <2>5
      <3>2. (i - 1) + 1 \in Rows(rows) /\ (i - 1) + 2 \in Rows(rows)
        BY <1>5, <3>1
      <3>3. (i - 1) + 1 = i /\ (i - 1) + 2 = i + 1
        BY <1>1, <2>2
      <3>4. QED
        BY <3>2, <3>3
    <2>7. ASSUME q + 1 \in 1..l PROVE c[q + 1].at \subseteq Rows(rows)
      <3>1. i + 1 \in c[q + 1].at
        <4>1. PICK p \in c[q].at : p + 1 \in c[q + 1].at
          BY <1>4, <2>7
        <4>2. QED
          BY <2>2, <4>1
      <3>2. CASE IsSummary(c[q + 1], merge)
        BY <1>6, <2>7, <3>2
      <3>3. ASSUME NEW k \in 1..n, c[q + 1] = ms[k] PROVE c[q + 1].at \subseteq Rows(rows)
        <4>1. c[q + 1].at = {k} /\ k = i + 1
          BY <1>7, <3>1, <3>3
        <4>2. QED
          BY <2>6, <4>1
      <3>4. QED
        BY <1>4, <2>7, <3>2, <3>3
    <2>8. c[q].results \cap AllUses(c) = {}
      BY <2>1, <2>2
    <2>9. QED
      BY <2>2, <2>3, <2>5, <2>6, <2>7, <2>8 DEF OrphanSpared, l
  <1>17. ASSUME raw[n].results # {}
         PROVE  /\ l >= 2 /\ c[l].results = raw[n].results /\ c[l - 1].uses = raw[n - 1].uses
                /\ ~Orphaned(c, l) /\ ~Orphaned(c, l - 1)
    <2>1. /\ raw[n].results = {n - 1} /\ n - 1 \in 1..n /\ n > 2 /\ raw[n - 1].uses = {n - 1}
          /\ ms[n].results = {n - 1} /\ ms[n - 1].uses = {n - 1}
      BY <1>1, <1>2, <1>3, <1>17
    <2>2. l \in 1..l /\ c[l] = ms[n]
      <3>1. l \in 1..l /\ n \in c[l].at
        BY <1>4
      <3>2. ~IsSummary(c[l], merge)
        BY <1>5, <1>6, <1>17, <3>1
      <3>3. PICK i \in 1..n : c[l] = ms[i]
        BY <1>4, <3>1, <3>2
      <3>4. i = n
        BY <1>7, <3>1, <3>3
      <3>5. QED
        BY <3>1, <3>3, <3>4
    <2>3. c[l].at = {n}
      BY <1>1, <1>7, <2>2
    <2>4. l > 1 /\ l - 1 \in 1..l /\ n - 1 \in c[l - 1].at
      BY <1>1, <1>14, <1>15, <2>1, <2>2, <2>3
    <2>5. c[l - 1] = ms[n - 1]
      <3>1. ~IsSummary(c[l - 1], merge)
        BY <1>5, <1>6, <1>17, <2>4
      <3>2. PICK i \in 1..n : c[l - 1] = ms[i]
        BY <1>4, <2>4, <3>1
      <3>3. i = n - 1
        BY <1>7, <2>4, <3>2
      <3>4. QED
        BY <3>2, <3>3
    <2>6. ~Orphaned(c, l)
      <3>1. n - 1 \in AllUses(c)
        BY <1>11, <2>1, <2>4, <2>5 DEF AllUses
      <3>2. QED
        BY <2>1, <2>2, <3>1 DEF Orphaned
    <2>7. ~Orphaned(c, l - 1)
      <3>1. ms[n - 1].results = {}
        <4>1. ms[n - 1].role # "user"
          BY <1>7, <2>1 DEF Sided
        <4>2. QED
          BY <1>7, <2>1, <4>1
      <3>2. QED
        BY <2>5, <3>1 DEF Orphaned
    <2>8. l >= 2
      BY <1>4, <2>4
    <2>9. c[l].results = raw[n].results
      BY <2>1, <2>2
    <2>10. c[l - 1].uses = raw[n - 1].uses
      BY <2>1, <2>5
    <2>11. QED
      BY <2>6, <2>7, <2>8, <2>9, <2>10
  <1>18. EndsAs(c, raw, n)
    BY <1>17 DEF EndsAs, l
  <1>19. QED
    BY <1>4, <1>8, <1>12, <1>16, <1>17, <1>18 DEF Mendable, l, n

\* What WithoutOrphans leaves of a message, and what it drops.
Mended(ms, q) ==
  IF ~Orphaned(ms, q) THEN ms[q]
  ELSE [ms[q] EXCEPT !.at = {}, !.results = @ \cap AllUses(ms)]

Gone(ms, q) == Orphaned(ms, q) /\ ms[q].form # "recalled"

\* w is what is left of the first k messages of ms: w[x] of the message from[x].
Pruned(w, ms, k, from) ==
  /\ w \in Seq(Message) /\ Len(w) \in Nat /\ from \in [1..Len(w) -> 1..k]
  /\ \A x \in 1..Len(w) : w[x] = Mended(ms, from[x])
  /\ \A x, y \in 1..Len(w) : x < y => from[x] < from[y]
  /\ \A q \in 1..k : ~Gone(ms, q) => \E x \in 1..Len(w) : from[x] = q
  /\ \A x \in 1..Len(w) : ~Gone(ms, from[x])

LEMMA MendedFacts ==
  ASSUME NEW ms \in Seq(Message), NEW q \in 1..Len(ms)
  PROVE  /\ Mended(ms, q) \in Message
         /\ Mended(ms, q).role = ms[q].role /\ Mended(ms, q).uses = ms[q].uses
         /\ Mended(ms, q).at \subseteq ms[q].at /\ Mended(ms, q).form = ms[q].form
         /\ Mended(ms, q).results = ms[q].results \cap AllUses(ms)
         /\ ~Orphaned(ms, q) => Mended(ms, q) = ms[q]
         /\ Orphaned(ms, q) => Mended(ms, q).at = {}
  <1>1. ms[q] \in Message
    OBVIOUS
  <1>2. CASE Orphaned(ms, q)
    <2> DEFINE m == ms[q]
               both == m.results \cap AllUses(ms)
    <2>1. Mended(ms, q) = [m EXCEPT !.at = {}, !.results = both]
      BY <1>2 DEF Mended
    <2>2. m \in Message /\ both \in SUBSET Nat
      BY <1>1 DEF Message
    <2>3. both = ms[q].results \cap AllUses(ms) /\ m = ms[q]
      OBVIOUS
    <2> HIDE DEF m, both
    <2>4. /\ [m EXCEPT !.at = {}, !.results = both] \in Message
          /\ [m EXCEPT !.at = {}, !.results = both].role = m.role
          /\ [m EXCEPT !.at = {}, !.results = both].uses = m.uses
          /\ [m EXCEPT !.at = {}, !.results = both].form = m.form
          /\ [m EXCEPT !.at = {}, !.results = both].at = {}
          /\ [m EXCEPT !.at = {}, !.results = both].results = both
      BY <2>2 DEF Message
    <2>5. QED
      BY <1>2, <2>1, <2>3, <2>4
  <1>3. CASE ~Orphaned(ms, q)
    <2>1. Mended(ms, q) = ms[q]
      BY <1>3 DEF Mended
    <2>2. ms[q].results \cap AllUses(ms) = ms[q].results
      BY <1>3 DEF Orphaned
    <2>3. QED
      BY <1>1, <1>3, <2>1, <2>2
  <1>4. QED
    BY <1>2, <1>3

\* The next message is dropped, or it is the last one that is left.
LEMMA PrunedStep ==
  ASSUME NEW ms \in Seq(Message), NEW k \in Nat, k + 1 \in 1..Len(ms),
         NEW w, NEW from, Pruned(w, ms, k, from)
  PROVE  /\ Gone(ms, k + 1) => Pruned(w, ms, k + 1, from)
         /\ ~Gone(ms, k + 1) =>
              \E longer : Pruned(w \o <<Mended(ms, k + 1)>>, ms, k + 1, longer)
  <1> DEFINE l == Len(w)
             e == k + 1
             m == Mended(ms, e)
             longer == [x \in 1..(l + 1) |-> IF x \in 1..l THEN from[x] ELSE e]
             v == w \o <<m>>
  <1>1. /\ w \in Seq(Message) /\ l \in Nat /\ from \in [1..l -> 1..k]
        /\ \A x \in 1..l : w[x] = Mended(ms, from[x])
        /\ \A x, y \in 1..l : x < y => from[x] < from[y]
        /\ \A q \in 1..k : ~Gone(ms, q) => \E x \in 1..l : from[x] = q
        /\ \A x \in 1..l : ~Gone(ms, from[x])
    BY DEF Pruned
  <1>2. \A q \in 1..e : q \in 1..k \/ q = e
    OBVIOUS
  <1>3. 1..k \subseteq 1..e /\ e \in 1..e /\ \A q \in 1..k : q < e
    OBVIOUS
  <1>4. ASSUME Gone(ms, e) PROVE Pruned(w, ms, e, from)
    <2>1. from \in [1..l -> 1..e]
      BY <1>1, <1>3
    <2>2. \A q \in 1..e : ~Gone(ms, q) => \E x \in 1..l : from[x] = q
      BY <1>1, <1>2, <1>4
    <2> HIDE DEF e
    <2>3. QED
      BY <1>1, <2>1, <2>2 DEF Pruned, l
  <1>5. ASSUME ~Gone(ms, e) PROVE Pruned(v, ms, e, longer)
    <2>1. m \in Message
      BY MendedFacts
    <2>2. <<m>> \in Seq(Message) /\ Len(<<m>>) = 1 /\ <<m>>[1] = m
      BY <2>1
    <2>3. /\ v \in Seq(Message) /\ Len(v) = l + 1
          /\ \A x \in 1..l : v[x] = w[x]
          /\ v[l + 1] = m
      BY <1>1, <2>2, JoinFacts
    <2> HIDE DEF m, v, e, l
    <2>4. \A x \in 1..(l + 1) : x \in 1..l \/ (x = l + 1 /\ x \notin 1..l)
      BY <1>1
    <2>5. 1..l \subseteq 1..(l + 1) /\ l + 1 \in 1..(l + 1) /\ l + 1 \notin 1..l
      BY <1>1
    <2>6. /\ \A x \in 1..l : longer[x] = from[x] /\ from[x] \in 1..k
          /\ longer[l + 1] = e
      BY <1>1, <2>5
    <2>7. longer \in [1..(l + 1) -> 1..e]
      BY <1>1, <1>3
    <2> HIDE DEF longer
    <2>8. \A x \in 1..(l + 1) : v[x] = Mended(ms, longer[x]) /\ ~Gone(ms, longer[x])
      <3>1. \A x \in 1..l : v[x] = Mended(ms, longer[x]) /\ ~Gone(ms, longer[x])
        BY <1>1, <2>3, <2>6
      <3>2. v[l + 1] = Mended(ms, longer[l + 1]) /\ ~Gone(ms, longer[l + 1])
        BY <1>5, <2>3, <2>6 DEF m
      <3>3. QED
        BY <2>4, <3>1, <3>2
    <2>9. \A x, y \in 1..(l + 1) : x < y => longer[x] < longer[y]
      <3>1. SUFFICES ASSUME NEW x \in 1..(l + 1), NEW y \in 1..(l + 1), x < y
                     PROVE  longer[x] < longer[y]
        OBVIOUS
      <3>2. x \in 1..l
        BY <1>1, <3>1
      <3>3. CASE y \in 1..l
        BY <1>1, <2>6, <3>1, <3>2, <3>3
      <3>4. CASE y = l + 1
        BY <1>3, <2>6, <3>2, <3>4
      <3>5. QED
        BY <2>4, <3>3, <3>4
    <2>10. \A q \in 1..e : ~Gone(ms, q) => \E x \in 1..(l + 1) : longer[x] = q
      BY <1>1, <1>2, <2>5, <2>6
    <2>11. QED
      BY <1>1, <2>3, <2>7, <2>8, <2>9, <2>10 DEF Pruned
  <1>6. QED
    BY <1>4, <1>5

LEMMA WithoutOrphansPruned ==
  ASSUME NEW ms \in Seq(Message), Len(ms) \in Nat, Len(ms) >= 1
  PROVE  \E from : Pruned(WithoutOrphans(ms), ms, Len(ms), from)
  <1> DEFINE n == Len(ms)
             part(i) == IF ~Orphaned(ms, i) THEN <<ms[i]>>
                        ELSE IF ms[i].form # "recalled" THEN <<>>
                        ELSE <<[ms[i] EXCEPT !.at = {}, !.results = @ \cap AllUses(ms)]>>
             seqs == [i \in 1..n |-> part(i)]
  <1>1. n \in Nat /\ n >= 1 /\ DOMAIN ms = 1..n
    OBVIOUS
  <1>2. WithoutOrphans(ms) = FlattenSeq(seqs)
    BY <1>1 DEF WithoutOrphans
  <1>3. \A i \in 1..n : part(i) = IF Gone(ms, i) THEN <<>> ELSE <<Mended(ms, i)>>
    BY DEF Gone, Mended
  <1>4. \A i \in 1..n : seqs[i] = IF Gone(ms, i) THEN <<>> ELSE <<Mended(ms, i)>>
    BY <1>3
  <1>5. \A i \in 1..n : Mended(ms, i) \in Message
    BY MendedFacts
  <1>6. seqs \in [1..n -> Seq(Message)]
    <2> HIDE DEF part
    <2>1. ASSUME NEW i \in 1..n PROVE part(i) \in Seq(Message)
      <3>1. <<>> \in Seq(Message) /\ \A m \in Message : <<m>> \in Seq(Message)
        OBVIOUS
      <3>2. CASE Gone(ms, i)
        BY <1>3, <3>1, <3>2
      <3>3. CASE ~Gone(ms, i)
        BY <1>3, <1>5, <3>1, <3>3
      <3>4. QED
        BY <3>2, <3>3
    <2>2. QED
      BY <2>1
  <1> HIDE DEF seqs, part, n
  <1>7. PICK f \in [1..n -> Seq(Message)] :
          /\ f[1] = seqs[1] /\ \A i \in 2..n : f[i] = f[i - 1] \o seqs[i]
          /\ FlattenSeq(seqs) = f[n]
    BY <1>1, <1>6, FlattenFacts
  <1> DEFINE Good(k) == \E from : Pruned(f[k], ms, k, from)
             S == {j \in Nat : j + 1 \in 1..n => Good(j + 1)}
  <1>8. \E from : Pruned(<<>>, ms, 0, from)
    <2>1. <<>> \in Seq(Message) /\ Len(<<>>) = 0 /\ 1..0 = {}
      OBVIOUS
    <2>2. [x \in 1..0 |-> 0] \in [1..0 -> 1..0]
      BY <2>1
    <2>3. Pruned(<<>>, ms, 0, [x \in 1..0 |-> 0])
      BY <2>1, <2>2 DEF Pruned
    <2>4. QED
      BY <2>3
  <1>9. ASSUME NEW k \in Nat, k + 1 \in 1..n, NEW w, NEW from, Pruned(w, ms, k, from)
        PROVE  \E longer : Pruned(w \o seqs[k + 1], ms, k + 1, longer)
    <2>1. w \in Seq(Message)
      BY <1>9 DEF Pruned
    <2>2. w \o <<>> = w
      BY <2>1, ConcatEmptySeq
    <2>3. /\ Gone(ms, k + 1) => Pruned(w, ms, k + 1, from)
          /\ ~Gone(ms, k + 1) =>
               \E longer : Pruned(w \o <<Mended(ms, k + 1)>>, ms, k + 1, longer)
      BY <1>9, PrunedStep DEF n
    <2>4. CASE Gone(ms, k + 1)
      BY <1>4, <1>9, <2>2, <2>3, <2>4
    <2>5. CASE ~Gone(ms, k + 1)
      BY <1>4, <1>9, <2>3, <2>5
    <2>6. QED
      BY <2>4, <2>5
  <1>10. 0 \in S
    <2>1. PICK from : Pruned(<<>>, ms, 0, from)
      BY <1>8
    <2>2. 0 + 1 \in 1..n /\ 0 + 1 = 1
      BY <1>1
    <2>3. \E longer : Pruned(<<>> \o seqs[1], ms, 1, longer)
      BY <1>9, <2>1, <2>2
    <2>4. <<>> \o seqs[1] = f[1]
      BY <1>6, <1>7, <2>2, ConcatEmptySeq
    <2>5. Good(1)
      BY <2>3, <2>4
    <2>6. QED
      BY <2>5
  <1>11. \A j \in Nat : j \in S => j + 1 \in S
    <2>1. SUFFICES ASSUME NEW j \in Nat, j \in S, (j + 1) + 1 \in 1..n PROVE Good((j + 1) + 1)
      <3> HIDE DEF Good
      <3>1. QED
        OBVIOUS
    <2>2. j + 1 \in 1..n /\ j + 1 \in Nat /\ (j + 1) + 1 \in 2..n /\ ((j + 1) + 1) - 1 = j + 1
      BY <1>1, <2>1
    <2>3. Good(j + 1)
      BY <2>1, <2>2
    <2>4. PICK from : Pruned(f[j + 1], ms, j + 1, from)
      BY <2>3
    <2>5. \E longer : Pruned(f[j + 1] \o seqs[(j + 1) + 1], ms, (j + 1) + 1, longer)
      BY <1>9, <2>1, <2>2, <2>4
    <2>6. f[(j + 1) + 1] = f[j + 1] \o seqs[(j + 1) + 1]
      BY <1>7, <2>2
    <2>7. QED
      BY <2>5, <2>6
  <1>12. \A j \in Nat : j \in S
    <2> HIDE DEF S
    <2>1. QED
      BY <1>10, <1>11, NatSetInduction
  <1>13. n - 1 \in Nat /\ (n - 1) + 1 = n /\ n \in 1..n
    BY <1>1
  <1>14. Good(n)
    <2>1. n - 1 \in S
      BY <1>12, <1>13
    <2>2. QED
      BY <1>13, <2>1
  <1>15. QED
    BY <1>2, <1>7, <1>14 DEF n

\* Where two messages of one role meet, the first is a summary, and both are in the rows.
Seamed(ms, rows) ==
  \A x \in 1..Len(ms) : x + 1 \in 1..Len(ms) /\ ms[x].role = ms[x + 1].role =>
    /\ ms[x].form = "summary" /\ ms[x].ref = 0 /\ ms[x].role = "assistant"
    /\ ms[x].at \subseteq Rows(rows) /\ ms[x + 1].at \subseteq Rows(rows)

\* The results whose use was merged go, with nothing that is not in the rows.
LEMMA OrphansDropped ==
  ASSUME NEW raw, Conversational(raw), NEW rows, NEW ms, Mendable(ms, raw, rows)
  PROVE  /\ Holds(WithoutOrphans(ms), Len(raw), rows) /\ Len(WithoutOrphans(ms)) >= 1
         /\ EndsAs(WithoutOrphans(ms), raw, Len(raw)) /\ Seamed(WithoutOrphans(ms), rows)
  <1> DEFINE n == Len(raw)
             k == Len(ms)
             w == WithoutOrphans(ms)
             l == Len(w)
  <1>1. /\ ms \in Seq(Message) /\ k \in Nat /\ k >= 1
        /\ \A q \in 1..k : /\ Sided(ms[q]) /\ Stored(ms[q], rows) /\ ms[q].at \subseteq 1..n
                           /\ Orphaned(ms, q) => OrphanSpared(ms, q, rows)
                           /\ \A u \in ms[q].results \cap AllUses(ms) :
                                \E j \in 1..k : j < q /\ u \in ms[j].uses
        /\ \A p \in 1..n : \E q \in 1..k : p \in ms[q].at
        /\ Ordered(ms) /\ Alternates(ms) /\ EndsAs(ms, raw, n)
        /\ raw[n].results # {} => ~Orphaned(ms, k) /\ ~Orphaned(ms, k - 1)
    BY DEF Mendable
  <1>2. PICK from : Pruned(w, ms, k, from)
    BY <1>1, WithoutOrphansPruned
  <1>3. /\ w \in Seq(Message) /\ l \in Nat /\ from \in [1..l -> 1..k]
        /\ \A x \in 1..l : w[x] = Mended(ms, from[x])
        /\ \A x, y \in 1..l : x < y => from[x] < from[y]
        /\ \A q \in 1..k : ~Gone(ms, q) => \E x \in 1..l : from[x] = q
        /\ \A x \in 1..l : ~Gone(ms, from[x])
    BY <1>2 DEF Pruned
  <1>4. \A q \in 1..k : q \in Nat
    OBVIOUS
  <1>5. \A q \in 1..k :
         /\ Mended(ms, q) \in Message
         /\ Mended(ms, q).role = ms[q].role /\ Mended(ms, q).uses = ms[q].uses
         /\ Mended(ms, q).at \subseteq ms[q].at /\ Mended(ms, q).form = ms[q].form
         /\ Mended(ms, q).results = ms[q].results \cap AllUses(ms)
         /\ ~Orphaned(ms, q) => Mended(ms, q) = ms[q]
         /\ Orphaned(ms, q) => Mended(ms, q).at = {}
    BY <1>1, MendedFacts
  <1> HIDE DEF n, k, w, l
  <1>6. \A x \in 1..l : from[x] \in 1..k /\ from[x] \in Nat /\ x \in Nat
    BY <1>3, <1>4
  <1>7. ASSUME NEW x \in 1..l, NEW y \in 1..l, from[x] < from[y] PROVE x < y
    <2>1. ~(y < x) /\ x # y
      BY <1>3, <1>6, <1>7
    <2>2. QED
      BY <1>6, <2>1
  <1>8. ASSUME NEW q \in 1..k, Orphaned(ms, q)
        PROVE  /\ q > 1 /\ q - 1 \in 1..k /\ ms[q].role = "user" /\ ms[q].at \subseteq Rows(rows)
               /\ ms[q - 1].form = "summary" /\ ms[q - 1].ref = 0
               /\ ms[q - 1].at \subseteq Rows(rows) /\ ms[q - 1].results = {}
               /\ q + 1 \in 1..k => ms[q + 1].at \subseteq Rows(rows)
    <2>1. OrphanSpared(ms, q, rows)
      BY <1>1, <1>8
    <2>2. q > 1
      BY <2>1 DEF OrphanSpared
    <2>3. q - 1 \in 1..k
      BY <1>1, <2>2
    <2>4. QED
      BY <2>1, <2>2, <2>3 DEF OrphanSpared, k
  <1>9. ASSUME NEW q \in 1..k, ms[q].role # "user" PROVE ~Orphaned(ms, q) /\ ~Gone(ms, q)
    BY <1>8, <1>9 DEF Gone
  <1>10. \A q \in 1..k : q + 1 \in 1..k => ms[q].role # ms[q + 1].role
    BY <1>1 DEF Alternates, k
  <1>11. ASSUME NEW x \in 1..l
         PROVE  Sided(w[x]) /\ Stored(w[x], rows) /\ w[x].at \subseteq 1..n
    <2>1. from[x] \in 1..k /\ w[x] = Mended(ms, from[x]) /\ ~Gone(ms, from[x])
      BY <1>3, <1>6
    <2>2. Sided(w[x])
      BY <1>1, <1>5, <2>1 DEF Sided
    <2>3. Stored(w[x], rows)
      <3>1. CASE Orphaned(ms, from[x])
        <4>1. w[x].form = "recalled"
          BY <1>5, <2>1, <3>1 DEF Gone
        <4>2. QED
          BY <4>1 DEF Stored, Replacing
      <3>2. CASE ~Orphaned(ms, from[x])
        BY <1>1, <1>5, <2>1, <3>2
      <3>3. QED
        BY <3>1, <3>2
    <2>4. w[x].at \subseteq 1..n
      BY <1>1, <1>5, <2>1
    <2>5. QED
      BY <2>2, <2>3, <2>4
  <1>12. ASSUME NEW p \in 1..n PROVE p \in Rows(rows) \/ \E x \in 1..l : p \in w[x].at
    <2>1. PICK q \in 1..k : p \in ms[q].at
      BY <1>1
    <2>2. CASE Orphaned(ms, q)
      BY <1>8, <2>1, <2>2
    <2>3. CASE ~Orphaned(ms, q)
      <3>1. PICK x \in 1..l : from[x] = q
        BY <1>3, <2>3 DEF Gone
      <3>2. w[x] = ms[q]
        BY <1>3, <1>5, <2>3, <3>1
      <3>3. QED
        BY <2>1, <3>2
    <2>4. QED
      BY <2>2, <2>3
  <1>13. Ordered(w)
    <2>1. SUFFICES ASSUME NEW i \in 1..l, NEW j \in 1..l, j < i, NEW p \in w[j].at, NEW q \in w[i].at
                   PROVE  p < q
      BY DEF Ordered, l
    <2>2. from[j] < from[i] /\ from[j] \in 1..k /\ from[i] \in 1..k
      BY <1>3, <1>6, <2>1
    <2>3. p \in ms[from[j]].at /\ q \in ms[from[i]].at
      BY <1>3, <1>5, <2>1, <2>2
    <2>4. \A a, b \in 1..k : b < a => \A y \in ms[b].at, z \in ms[a].at : y < z
      BY <1>1 DEF Ordered, k
    <2>5. QED
      BY <2>2, <2>3, <2>4
  <1>14. Answering(w)
    <2>1. SUFFICES ASSUME NEW i \in 1..l, NEW u \in w[i].results
                   PROVE  \E j \in 1..l : j < i /\ u \in w[j].uses
      BY DEF Answering, l
    <2>2. from[i] \in 1..k /\ u \in ms[from[i]].results \cap AllUses(ms)
      BY <1>3, <1>5, <1>6, <2>1
    <2>3. PICK q \in 1..k : q < from[i] /\ u \in ms[q].uses
      BY <1>1, <2>2
    <2>4. ~Gone(ms, q)
      <3>1. ms[q].role # "user"
        BY <1>1, <2>3 DEF Sided
      <3>2. QED
        BY <1>9, <3>1
    <2>5. PICK j \in 1..l : from[j] = q
      BY <1>3, <2>4
    <2>6. j < i
      BY <1>7, <2>3, <2>5
    <2>7. u \in w[j].uses
      BY <1>3, <1>5, <2>3, <2>5
    <2>8. QED
      BY <2>6, <2>7
  <1>15. l >= 1
    <2>1. 1 \in 1..k
      BY <1>1
    <2>2. ~Orphaned(ms, 1)
      BY <1>8, <2>1
    <2>3. \E x \in 1..l : from[x] = 1
      BY <1>3, <2>1, <2>2 DEF Gone
    <2>4. QED
      BY <1>3, <2>3
  <1>16. Seamed(w, rows)
    <2>1. SUFFICES ASSUME NEW x \in 1..l, x + 1 \in 1..l, w[x].role = w[x + 1].role
                   PROVE  /\ w[x].form = "summary" /\ w[x].ref = 0 /\ w[x].role = "assistant"
                          /\ w[x].at \subseteq Rows(rows) /\ w[x + 1].at \subseteq Rows(rows)
      BY DEF Seamed, l
    <2> DEFINE a == from[x]
               b == from[x + 1]
    <2>2. a \in 1..k /\ b \in 1..k /\ a \in Nat /\ b \in Nat /\ a < b
      <3>1. x < x + 1
        BY <1>6
      <3>2. QED
        BY <1>3, <1>6, <2>1, <3>1
    <2>3. w[x] = Mended(ms, a) /\ w[x + 1] = Mended(ms, b) /\ ms[a].role = ms[b].role
      BY <1>3, <1>5, <2>1, <2>2, SMTT(30)
    <2>4. ASSUME NEW q \in 1..k, a < q, q < b PROVE Gone(ms, q) /\ Orphaned(ms, q) /\ ms[q].role = "user"
      <3>1. SUFFICES ASSUME ~Gone(ms, q) PROVE FALSE
        BY <1>8 DEF Gone
      <3>2. PICK y \in 1..l : from[y] = q
        BY <1>3, <3>1
      <3>3. x < y /\ y < x + 1
        BY <1>7, <2>1, <2>4, <3>2
      <3>4. QED
        BY <1>6, <3>3
    <2> HIDE DEF a, b
    <2>5. a + 1 \in 1..k /\ b # a + 1
      <3>1. a + 1 \in 1..k
        BY <1>1, <2>2
      <3>2. QED
        BY <1>10, <2>2, <2>3, <3>1
    <2>6. a + 1 < b
      BY <2>2, <2>5
    <2>7. Orphaned(ms, a + 1) /\ ms[a + 1].role = "user"
      <3>1. a < a + 1
        BY <2>2
      <3>2. QED
        BY <2>4, <2>5, <2>6, <3>1
    <2>8. b = (a + 1) + 1
      <3>1. SUFFICES ASSUME b # (a + 1) + 1 PROVE FALSE
        OBVIOUS
      <3>2. (a + 1) + 1 < b /\ a < (a + 1) + 1 /\ (a + 1) + 1 \in 1..k
        BY <1>1, <2>2, <2>6, <3>1
      <3>3. ms[(a + 1) + 1].role = "user"
        BY <2>4, <3>2
      <3>4. QED
        BY <1>10, <2>5, <2>7, <3>2, <3>3
    <2>9. (a + 1) - 1 = a
      BY <2>2
    <2>10. /\ ms[a].form = "summary" /\ ms[a].ref = 0 /\ ms[a].at \subseteq Rows(rows)
           /\ ms[b].at \subseteq Rows(rows)
      BY <1>8, <2>2, <2>5, <2>7, <2>8, <2>9
    <2>11. ms[a].role = "assistant"
      <3>1. ms[a].role # "user"
        BY <1>10, <2>2, <2>5, <2>7
      <3>2. ms[a] \in Message
        BY <1>1, <2>2 DEF k
      <3>3. QED
        BY <3>1, <3>2 DEF Message, Roles
    <2>12. w[x] = ms[a]
      BY <1>5, <1>9, <2>2, <2>3, <2>11
    <2>13. w[x + 1].at \subseteq ms[b].at
      BY <1>5, <2>2, <2>3
    <2>14. QED
      BY <2>10, <2>11, <2>12, <2>13
  <1>17. ASSUME raw[n].results # {}
         PROVE  /\ l >= 2 /\ raw[n].results \subseteq w[l].results
                /\ raw[n - 1].uses \subseteq w[l - 1].uses
    <2>1. /\ k >= 2 /\ raw[n].results \subseteq ms[k].results
          /\ raw[n - 1].uses \subseteq ms[k - 1].uses
      BY <1>1, <1>17 DEF EndsAs, k
    <2>2. ~Orphaned(ms, k) /\ ~Orphaned(ms, k - 1)
      BY <1>1, <1>17
    <2>3. k \in 1..k /\ k - 1 \in 1..k /\ k - 1 < k
      BY <1>1, <2>1
    <2>4. PICK x \in 1..l : from[x] = k
      BY <1>3, <2>2, <2>3 DEF Gone
    <2>5. PICK y \in 1..l : from[y] = k - 1
      BY <1>3, <2>2, <2>3 DEF Gone
    <2>6. x = l
      <3>1. SUFFICES ASSUME x # l PROVE FALSE
        OBVIOUS
      <3>2. l \in 1..l /\ x < l
        BY <1>3, <1>15, <2>4, <3>1
      <3>3. k < from[l] /\ from[l] \in 1..k
        BY <1>3, <1>6, <2>4, <3>2
      <3>4. QED
        BY <1>1, <3>3
    <2>7. y < x
      BY <1>7, <2>3, <2>4, <2>5
    <2>8. y = l - 1 /\ l >= 2
      <3>1. y \in Nat /\ y >= 1 /\ y < l
        BY <1>3, <2>6, <2>7
      <3>2. l >= 2
        BY <1>3, <3>1
      <3>3. SUFFICES ASSUME y # l - 1 PROVE FALSE
        BY <3>2
      <3>4. l - 1 \in 1..l /\ y < l - 1 /\ l - 1 < x
        BY <1>3, <2>6, <3>1, <3>2, <3>3
      <3>5. k - 1 < from[l - 1] /\ from[l - 1] < k /\ from[l - 1] \in Nat
        BY <1>3, <1>6, <2>4, <2>5, <3>4
      <3>6. QED
        BY <1>1, <3>5
    <2>9. w[l] = ms[k]
      BY <1>3, <1>5, <2>2, <2>3, <2>4, <2>6
    <2>10. w[l - 1] = ms[k - 1]
      BY <1>3, <1>5, <2>2, <2>3, <2>5, <2>8
    <2>11. QED
      BY <2>1, <2>8, <2>9, <2>10
  <1>18. EndsAs(w, raw, n)
    BY <1>17 DEF EndsAs, l
  <1>19. Holds(w, n, rows)
    BY <1>3, <1>11, <1>12, <1>13, <1>14 DEF Holds, l
  <1>20. QED
    BY <1>15, <1>16, <1>18, <1>19 DEF w, n, l

LEMMA MergedFacts ==
  ASSUME NEW a \in Message, NEW b \in Message
  PROVE  /\ Merged(a, b) \in Message
         /\ Merged(a, b).role = a.role /\ Merged(a, b).form = a.form /\ Merged(a, b).ref = a.ref
         /\ Merged(a, b).at = a.at \cup b.at /\ Merged(a, b).uses = a.uses \cup b.uses
         /\ Merged(a, b).results = a.results \cup b.results
  <1> DEFINE at == a.at \cup b.at
             uses == a.uses \cup b.uses
             results == a.results \cup b.results
             weight == a.weight + b.weight
  <1>1. at \in SUBSET Nat /\ uses \in SUBSET Nat /\ results \in SUBSET Nat /\ weight \in Nat
    BY DEF Message
  <1>2. Merged(a, b) = [a EXCEPT !.at = at, !.uses = uses, !.results = results, !.weight = weight]
    BY DEF Merged
  <1> HIDE DEF at, uses, results, weight
  <1>3. [a EXCEPT !.at = at, !.uses = uses, !.results = results, !.weight = weight] \in Message
    BY <1>1 DEF Message
  <1>4. LET m == [a EXCEPT !.at = at, !.uses = uses, !.results = results, !.weight = weight]
        IN  /\ m.role = a.role /\ m.form = a.form /\ m.ref = a.ref
            /\ m.at = at /\ m.uses = uses /\ m.results = results
    BY DEF Message
  <1>5. QED
    BY <1>2, <1>3, <1>4 DEF at, uses, results

Folded(m, rows) == m.form = "summary" /\ m.ref = 0 /\ m.at \subseteq Rows(rows)

\* f gathers the messages 1..k of w, with roles that alternate: w[j] is part of f[into[j]].
Gathering(f, k, w, rows, into) ==
  /\ f \in Seq(Message) /\ Len(f) \in Nat /\ Len(f) >= 1
  /\ into \in [1..k -> 1..Len(f)] /\ into[k] = Len(f)
  /\ \A i, j \in 1..k : i < j => into[i] <= into[j]
  /\ \A y \in 1..Len(f) : \E j \in 1..k : into[j] = y
  /\ \A j \in 1..k : /\ w[j].at \subseteq f[into[j]].at /\ w[j].uses \subseteq f[into[j]].uses
                     /\ w[j].results \subseteq f[into[j]].results /\ w[j].role = f[into[j]].role
  /\ \A y \in 1..Len(f) :
       /\ Sided(f[y]) /\ Stored(f[y], rows)
       /\ \A p \in f[y].at : \E j \in 1..k : into[j] = y /\ p \in w[j].at
       /\ \A u \in f[y].results : \E j \in 1..k : into[j] = y /\ u \in w[j].results
  /\ f[Len(f)] = w[k] \/ Folded(f[Len(f)], rows)
  /\ Alternates(f)

\* A message of the other role is appended.
LEMMA GatheringAppend ==
  ASSUME NEW w \in Seq(Message), NEW rows, NEW k \in Nat, k >= 1, k + 1 \in 1..Len(w),
         Sided(w[k + 1]), Stored(w[k + 1], rows),
         NEW f, NEW into, Gathering(f, k, w, rows, into), f[Len(f)].role # w[k + 1].role
  PROVE  \E more : Gathering(Append(f, w[k + 1]), k + 1, w, rows, more)
  <1> DEFINE l == Len(f)
             e == k + 1
             m == w[e]
             h == l + 1
             g == Append(f, m)
             more == [j \in 1..e |-> IF j \in 1..k THEN into[j] ELSE h]
  <1>1. /\ f \in Seq(Message) /\ l \in Nat /\ l >= 1
        /\ into \in [1..k -> 1..l] /\ into[k] = l
        /\ \A i, j \in 1..k : i < j => into[i] <= into[j]
        /\ \A y \in 1..l : \E j \in 1..k : into[j] = y
        /\ \A j \in 1..k : /\ w[j].at \subseteq f[into[j]].at /\ w[j].uses \subseteq f[into[j]].uses
                           /\ w[j].results \subseteq f[into[j]].results /\ w[j].role = f[into[j]].role
        /\ \A y \in 1..l :
             /\ Sided(f[y]) /\ Stored(f[y], rows)
             /\ \A p \in f[y].at : \E j \in 1..k : into[j] = y /\ p \in w[j].at
             /\ \A u \in f[y].results : \E j \in 1..k : into[j] = y /\ u \in w[j].results
        /\ Alternates(f)
    BY DEF Gathering
  <1>2. m \in Message /\ Sided(m) /\ Stored(m, rows) /\ f[l].role # m.role
    OBVIOUS
  <1>3. /\ g \in Seq(Message) /\ Len(g) = h /\ g[h] = m
        /\ \A y \in 1..l : g[y] = f[y]
    BY <1>1, <1>2
  <1>4. /\ \A j \in 1..e : j \in 1..k \/ j = e
        /\ 1..k \subseteq 1..e /\ e \in 1..e /\ e \notin 1..k /\ \A j \in 1..k : j < e /\ ~(e < j)
    OBVIOUS
  <1>5. /\ \A y \in 1..h : y \in 1..l \/ y = h
        /\ 1..l \subseteq 1..h /\ h \in 1..h /\ h \in Nat /\ h >= 1
        /\ \A y \in 1..l : y <= h /\ y # h /\ y \in Nat
    <2>1. l \in Nat /\ l >= 1 /\ h = l + 1
      BY <1>1
    <2> HIDE DEF l, h
    <2>2. QED
      BY <2>1
  <1>6. /\ \A j \in 1..k : more[j] = into[j] /\ into[j] \in 1..l
        /\ more[e] = h
    BY <1>1, <1>4
  <1>7. more \in [1..e -> 1..h]
    BY <1>1, <1>5
  <1>8. w[e] = m
    OBVIOUS
  <1> HIDE DEF more, g, m, e, h
  <1>9. \A i, j \in 1..e : i < j => more[i] <= more[j]
    <2>1. SUFFICES ASSUME NEW i \in 1..e, NEW j \in 1..e, i < j PROVE more[i] <= more[j]
      OBVIOUS
    <2>2. i \in 1..k
      <3>1. i # e
        BY <1>4, <2>1 DEF e
      <3>2. QED
        BY <1>4, <3>1
    <2>3. CASE j \in 1..k
      BY <1>1, <1>6, <2>1, <2>2, <2>3
    <2>4. CASE j = e
      BY <1>5, <1>6, <2>2, <2>4
    <2>5. QED
      BY <1>4, <2>3, <2>4
  <1>10. ASSUME NEW y \in 1..h PROVE \E j \in 1..e : more[j] = y
    <2>1. CASE y \in 1..l
      <3>1. PICK j \in 1..k : into[j] = y
        BY <1>1, <2>1
      <3>2. j \in 1..e /\ more[j] = y
        BY <1>4, <1>6, <3>1
      <3>3. QED
        BY <3>2
    <2>2. CASE y = h
      BY <1>4, <1>6, <2>2
    <2>3. QED
      BY <1>5, <2>1, <2>2
  <1>11. ASSUME NEW j \in 1..e
         PROVE  /\ w[j].at \subseteq g[more[j]].at /\ w[j].uses \subseteq g[more[j]].uses
                /\ w[j].results \subseteq g[more[j]].results /\ w[j].role = g[more[j]].role
    <2>1. CASE j \in 1..k
      <3>1. more[j] = into[j] /\ into[j] \in 1..l
        BY <1>6, <2>1
      <3>2. g[more[j]] = f[into[j]]
        BY <1>3, <3>1
      <3>3. QED
        BY <1>1, <2>1, <3>2
    <2>2. CASE j = e
      BY <1>3, <1>6, <1>8, <2>2
    <2>3. QED
      BY <1>4, <2>1, <2>2
  <1>12. ASSUME NEW y \in 1..h
         PROVE  /\ Sided(g[y]) /\ Stored(g[y], rows)
                /\ \A p \in g[y].at : \E j \in 1..e : more[j] = y /\ p \in w[j].at
                /\ \A u \in g[y].results : \E j \in 1..e : more[j] = y /\ u \in w[j].results
    <2>1. CASE y \in 1..l
      <3>1. g[y] = f[y]
        BY <1>3, <2>1
      <3>2. ASSUME NEW p \in g[y].at PROVE \E j \in 1..e : more[j] = y /\ p \in w[j].at
        <4>1. PICK j \in 1..k : into[j] = y /\ p \in w[j].at
          BY <1>1, <2>1, <3>1, <3>2, ZenonT(40)
        <4>2. j \in 1..e /\ more[j] = y
          BY <1>4, <1>6, <4>1
        <4>3. QED
          BY <4>1, <4>2
      <3>3. ASSUME NEW u \in g[y].results PROVE \E j \in 1..e : more[j] = y /\ u \in w[j].results
        <4>1. PICK j \in 1..k : into[j] = y /\ u \in w[j].results
          BY <1>1, <2>1, <3>1, <3>3
        <4>2. j \in 1..e /\ more[j] = y
          BY <1>4, <1>6, <4>1
        <4>3. QED
          BY <4>1, <4>2
      <3>4. QED
        BY <1>1, <2>1, <3>1, <3>2, <3>3
    <2>2. CASE y = h
      BY <1>2, <1>3, <1>4, <1>6, <1>8, <2>2
    <2>3. QED
      BY <1>5, <2>1, <2>2
  <1>13. Alternates(g)
    <2>1. SUFFICES ASSUME NEW y \in 1..h, y + 1 \in 1..h PROVE g[y].role # g[y + 1].role
      BY <1>3 DEF Alternates
    <2>2. y \in 1..l
      BY <1>1, <2>1 DEF h
    <2>3. CASE y + 1 \in 1..l
      BY <1>1, <1>3, <2>2, <2>3 DEF Alternates, l
    <2>4. CASE y + 1 = h
      <3>1. y = l
        BY <1>1, <2>2, <2>4 DEF h
      <3>2. QED
        BY <1>2, <1>3, <2>2, <2>4, <3>1
    <2>5. QED
      BY <1>5, <2>1, <2>3, <2>4
  <1>14. g[Len(g)] = w[e]
    BY <1>3, <1>8
  <1> HIDE DEF l
  <1>15. Gathering(g, e, w, rows, more)
    <2>1. Len(g) = h /\ g \in Seq(Message) /\ h \in Nat /\ h >= 1 /\ more[e] = h
      BY <1>3, <1>5, <1>6
    <2>2. more \in [1..e -> 1..Len(g)] /\ \A y \in 1..Len(g) : \E j \in 1..e : more[j] = y
      BY <1>7, <1>10, <2>1
    <2>3. \A y \in 1..Len(g) :
            /\ Sided(g[y]) /\ Stored(g[y], rows)
            /\ \A p \in g[y].at : \E j \in 1..e : more[j] = y /\ p \in w[j].at
            /\ \A u \in g[y].results : \E j \in 1..e : more[j] = y /\ u \in w[j].results
      <3>1. 1..Len(g) = 1..h
        BY <2>1
      <3>2. SUFFICES ASSUME NEW y \in 1..Len(g)
              PROVE  /\ Sided(g[y]) /\ Stored(g[y], rows)
                     /\ \A p \in g[y].at : \E j \in 1..e : more[j] = y /\ p \in w[j].at
                     /\ \A u \in g[y].results : \E j \in 1..e : more[j] = y /\ u \in w[j].results
        OBVIOUS
      <3>3. y \in 1..h
        BY <3>1, <3>2
      <3>4. QED
        BY <1>12, <3>3
    <2>4. Len(g) \in Nat /\ Len(g) >= 1 /\ more[e] = Len(g)
      BY <2>1
    <2>5. \A j \in 1..e : /\ w[j].at \subseteq g[more[j]].at /\ w[j].uses \subseteq g[more[j]].uses
                          /\ w[j].results \subseteq g[more[j]].results /\ w[j].role = g[more[j]].role
      BY <1>11, Zenon
    <2>6. QED
      BY <1>9, <1>13, <1>14, <2>1, <2>2, <2>3, <2>4, <2>5, Zenon DEF Gathering
  <1>16. QED
    BY <1>15 DEF g, m, e

LEMMA ReplaceLast ==
  ASSUME NEW f \in Seq(Message), Len(f) \in Nat, Len(f) >= 1, NEW m \in Message
  PROVE  LET g == Append(Front(f), m)
         IN  /\ g \in Seq(Message) /\ Len(g) = Len(f) /\ g[Len(f)] = m
             /\ \A y \in 1..Len(f) : y # Len(f) => g[y] = f[y]
  <1> DEFINE l == Len(f)
             t == Front(f)
  <1>1. l \in Nat /\ l >= 1 /\ l - 1 \in Nat /\ (l - 1) + 1 = l
    OBVIOUS
  <1>2. t = SubSeq(f, 1, l - 1)
    BY DEF Front
  <1>3. /\ t \in Seq(Message) /\ Len(t) = l - 1
        /\ \A y \in 1..(l - 1) : t[y] = f[y]
    <2>1. \A y \in 1..(l - 1) : y \in 1..l /\ f[y] \in Message
      BY <1>1
    <2>2. t = [y \in 1..(l - 1) |-> f[y]]
      BY <1>1, <1>2
    <2>3. QED
      BY <1>1, <2>1, <2>2
  <1> HIDE DEF t, l
  <1>4. /\ Append(t, m) \in Seq(Message) /\ Len(Append(t, m)) = l /\ Append(t, m)[l] = m
        /\ \A y \in 1..(l - 1) : Append(t, m)[y] = t[y]
    BY <1>1, <1>3
  <1>5. \A y \in 1..l : y # l => y \in 1..(l - 1)
    BY <1>1
  <1>6. QED
    BY <1>3, <1>4, <1>5 DEF t, l

\* A message of the same role joins a summary, and both are in the rows.
LEMMA GatheringMerge ==
  ASSUME NEW w \in Seq(Message), NEW rows, NEW k \in Nat, k >= 1, k + 1 \in 1..Len(w),
         Sided(w[k + 1]), w[k + 1].at \subseteq Rows(rows),
         NEW f, NEW into, Gathering(f, k, w, rows, into), f[Len(f)].role = w[k + 1].role,
         Folded(f[Len(f)], rows)
  PROVE  \E more :
           Gathering(Append(Front(f), Merged(f[Len(f)], w[k + 1])), k + 1, w, rows, more)
  <1> DEFINE l == Len(f)
             e == k + 1
             m == w[e]
             both == Merged(f[l], m)
             g == Append(Front(f), both)
             more == [j \in 1..e |-> IF j \in 1..k THEN into[j] ELSE l]
  <1>1. /\ f \in Seq(Message) /\ l \in Nat /\ l >= 1
        /\ into \in [1..k -> 1..l] /\ into[k] = l
        /\ \A i, j \in 1..k : i < j => into[i] <= into[j]
        /\ \A y \in 1..l : \E j \in 1..k : into[j] = y
        /\ \A j \in 1..k : /\ w[j].at \subseteq f[into[j]].at /\ w[j].uses \subseteq f[into[j]].uses
                           /\ w[j].results \subseteq f[into[j]].results /\ w[j].role = f[into[j]].role
        /\ \A y \in 1..l :
             /\ Sided(f[y]) /\ Stored(f[y], rows)
             /\ \A p \in f[y].at : \E j \in 1..k : into[j] = y /\ p \in w[j].at
             /\ \A u \in f[y].results : \E j \in 1..k : into[j] = y /\ u \in w[j].results
        /\ Alternates(f)
    BY DEF Gathering
  <1>2. m \in Message /\ Sided(m) /\ m.at \subseteq Rows(rows) /\ f[l].role = m.role
        /\ l \in 1..l /\ f[l] \in Message /\ Folded(f[l], rows)
    BY <1>1
  <1>3. /\ both \in Message
        /\ both.role = f[l].role /\ both.form = f[l].form /\ both.ref = f[l].ref
        /\ both.at = f[l].at \cup m.at /\ both.uses = f[l].uses \cup m.uses
        /\ both.results = f[l].results \cup m.results
    BY <1>2, MergedFacts
  <1> HIDE DEF both
  <1>4. /\ g \in Seq(Message) /\ Len(g) = l /\ g[l] = both
        /\ \A y \in 1..l : y # l => g[y] = f[y]
    BY <1>1, <1>3, ReplaceLast
  <1>5. /\ \A j \in 1..e : j \in 1..k \/ j = e
        /\ 1..k \subseteq 1..e /\ e \in 1..e /\ e \notin 1..k /\ \A j \in 1..k : j < e /\ ~(e < j)
    OBVIOUS
  <1>6. /\ \A j \in 1..k : more[j] = into[j] /\ into[j] \in 1..l /\ into[j] <= l
        /\ more[e] = l
    BY <1>1, <1>5
  <1>7. more \in [1..e -> 1..l]
    BY <1>1
  <1>8. w[e] = m
    OBVIOUS
  <1> HIDE DEF more, g, m, e
  <1>9. \A i, j \in 1..e : i < j => more[i] <= more[j]
    <2>1. SUFFICES ASSUME NEW i \in 1..e, NEW j \in 1..e, i < j PROVE more[i] <= more[j]
      OBVIOUS
    <2>2. i \in 1..k
      <3>1. i # e
        BY <1>5, <2>1 DEF e
      <3>2. QED
        BY <1>5, <3>1
    <2>3. CASE j \in 1..k
      BY <1>1, <1>6, <2>1, <2>2, <2>3
    <2>4. CASE j = e
      BY <1>6, <2>2, <2>4
    <2>5. QED
      BY <1>5, <2>3, <2>4
  <1>10. ASSUME NEW y \in 1..l PROVE \E j \in 1..e : more[j] = y
    <2>1. PICK j \in 1..k : into[j] = y
      BY <1>1
    <2>2. j \in 1..e /\ more[j] = y
      BY <1>5, <1>6, <2>1
    <2>3. QED
      BY <2>2
  <1>11. ASSUME NEW y \in 1..l
         PROVE  /\ f[y].at \subseteq g[y].at /\ f[y].uses \subseteq g[y].uses
                /\ f[y].results \subseteq g[y].results /\ f[y].role = g[y].role
    <2>1. CASE y = l
      BY <1>3, <1>4, <2>1
    <2>2. CASE y # l
      BY <1>4, <2>2
    <2>3. QED
      BY <2>1, <2>2
  <1>12. ASSUME NEW j \in 1..e
         PROVE  /\ w[j].at \subseteq g[more[j]].at /\ w[j].uses \subseteq g[more[j]].uses
                /\ w[j].results \subseteq g[more[j]].results /\ w[j].role = g[more[j]].role
    <2>1. CASE j \in 1..k
      <3>1. more[j] = into[j] /\ into[j] \in 1..l
        BY <1>6, <2>1
      <3>2. /\ w[j].at \subseteq f[into[j]].at /\ w[j].uses \subseteq f[into[j]].uses
            /\ w[j].results \subseteq f[into[j]].results /\ w[j].role = f[into[j]].role
        BY <1>1, <2>1
      <3>3. /\ f[into[j]].at \subseteq g[into[j]].at /\ f[into[j]].uses \subseteq g[into[j]].uses
            /\ f[into[j]].results \subseteq g[into[j]].results
            /\ f[into[j]].role = g[into[j]].role
        BY <1>11, <3>1
      <3>4. QED
        BY <3>1, <3>2, <3>3
    <2>2. CASE j = e
      BY <1>2, <1>3, <1>4, <1>6, <1>8, <2>2
    <2>3. QED
      BY <1>5, <2>1, <2>2
  <1>13. ASSUME NEW y \in 1..l
         PROVE  /\ Sided(g[y]) /\ Stored(g[y], rows)
                /\ \A p \in g[y].at : \E j \in 1..e : more[j] = y /\ p \in w[j].at
                /\ \A u \in g[y].results : \E j \in 1..e : more[j] = y /\ u \in w[j].results
    <2>1. Sided(g[y]) /\ Stored(g[y], rows)
      <3>1. CASE y = l
        <4>1. Sided(f[l])
          BY <1>1, <1>2
        <4>2. Sided(both)
          BY <1>2, <1>3, <4>1 DEF Sided
        <4>3. both.ref = 0 /\ both.at \subseteq Rows(rows)
          BY <1>2, <1>3 DEF Folded
        <4>4. Stored(both, rows)
          BY <4>3 DEF Stored
        <4>5. QED
          BY <1>4, <3>1, <4>2, <4>4
      <3>2. CASE y # l
        BY <1>1, <1>4, <3>2
      <3>3. QED
        BY <3>1, <3>2
    <2>2. ASSUME NEW p \in g[y].at PROVE \E j \in 1..e : more[j] = y /\ p \in w[j].at
      <3>1. CASE p \in f[y].at
        <4>1. PICK j \in 1..k : into[j] = y /\ p \in w[j].at
          BY <1>1, <3>1
        <4>2. j \in 1..e /\ more[j] = y
          BY <1>5, <1>6, <4>1
        <4>3. QED
          BY <4>1, <4>2
      <3>2. CASE p \notin f[y].at
        <4>1. y = l /\ p \in m.at
          BY <1>3, <1>4, <2>2, <3>2
        <4>2. QED
          BY <1>5, <1>6, <1>8, <4>1
      <3>3. QED
        BY <3>1, <3>2
    <2>3. ASSUME NEW u \in g[y].results PROVE \E j \in 1..e : more[j] = y /\ u \in w[j].results
      <3>1. CASE u \in f[y].results
        <4>1. PICK j \in 1..k : into[j] = y /\ u \in w[j].results
          BY <1>1, <3>1
        <4>2. j \in 1..e /\ more[j] = y
          BY <1>5, <1>6, <4>1
        <4>3. QED
          BY <4>1, <4>2
      <3>2. CASE u \notin f[y].results
        <4>1. y = l /\ u \in m.results
          BY <1>3, <1>4, <2>3, <3>2
        <4>2. QED
          BY <1>5, <1>6, <1>8, <4>1
      <3>3. QED
        BY <3>1, <3>2
    <2>4. QED
      BY <2>1, <2>2, <2>3
  <1>14. Alternates(g)
    <2>1. SUFFICES ASSUME NEW y \in 1..l, y + 1 \in 1..l PROVE g[y].role # g[y + 1].role
      BY <1>4 DEF Alternates
    <2>2. f[y].role # f[y + 1].role
      BY <1>1, <2>1 DEF Alternates, l
    <2>3. QED
      BY <1>11, <2>1, <2>2
  <1>15. Folded(g[l], rows)
    BY <1>2, <1>3, <1>4 DEF Folded
  <1> HIDE DEF l
  <1>16. Gathering(g, e, w, rows, more)
    <2>1. Len(g) = l /\ g \in Seq(Message) /\ l \in Nat /\ l >= 1 /\ more[e] = l
      BY <1>1, <1>4, <1>6
    <2>2. more \in [1..e -> 1..Len(g)] /\ \A y \in 1..Len(g) : \E j \in 1..e : more[j] = y
      BY <1>7, <1>10, <2>1
    <2>3. ASSUME NEW y \in 1..Len(g)
          PROVE  /\ Sided(g[y]) /\ Stored(g[y], rows)
                 /\ \A p \in g[y].at : \E j \in 1..e : more[j] = y /\ p \in w[j].at
                 /\ \A u \in g[y].results : \E j \in 1..e : more[j] = y /\ u \in w[j].results
      <3>1. y \in 1..l
        BY <2>1
      <3>2. QED
        BY <1>13, <3>1
    <2>4. Len(g) \in Nat /\ Len(g) >= 1 /\ more[e] = Len(g) /\ Folded(g[Len(g)], rows)
      BY <1>15, <2>1
    <2>5. QED
      BY <1>9, <1>12, <1>14, <2>1, <2>2, <2>3, <2>4, Zenon DEF Gathering
  <1>17. QED
    BY <1>16 DEF g, both, m, e, l

LEMMA JoinedFacts ==
  ASSUME NEW f \in Seq(Message), NEW m \in Message
  PROVE  /\ Joined(f, m) \in Seq(Message)
         /\ Joined(<<>>, m) = <<m>>
         /\ Len(f) >= 1 /\ f[Len(f)].role = m.role =>
              Joined(f, m) = Append(Front(f), Merged(f[Len(f)], m))
         /\ f[Len(f)].role # m.role => Joined(f, m) = Append(f, m)
  <1>1. Last(f) = f[Len(f)]
    BY DEF Last
  <1>2. Joined(<<>>, m) = <<m>>
    <2>1. Append(<<>>, m) = <<m>>
      OBVIOUS
    <2>2. QED
      BY <2>1 DEF Joined
  <1>3. ASSUME f # <<>>, f[Len(f)].role = m.role
        PROVE  /\ Joined(f, m) = Append(Front(f), Merged(f[Len(f)], m))
               /\ Joined(f, m) \in Seq(Message)
    <2>1. Joined(f, m) = Append(Front(f), Merged(f[Len(f)], m))
      BY <1>1, <1>3 DEF Joined
    <2>2. Len(f) \in Nat /\ Len(f) >= 1 /\ f[Len(f)] \in Message
      BY <1>3
    <2>3. Merged(f[Len(f)], m) \in Message
      BY <2>2, MergedFacts
    <2>4. QED
      BY <2>1, <2>2, <2>3, ReplaceLast
  <1>4. ASSUME ~(f # <<>> /\ f[Len(f)].role = m.role)
        PROVE  Joined(f, m) = Append(f, m) /\ Joined(f, m) \in Seq(Message)
    <2>1. Joined(f, m) = Append(f, m)
      BY <1>1, <1>4 DEF Joined
    <2>2. QED
      BY <2>1
  <1>5. Len(f) >= 1 => f # <<>>
    OBVIOUS
  <1>6. QED
    BY <1>2, <1>3, <1>4, <1>5

LEMMA GatheringStep ==
  ASSUME NEW w \in Seq(Message), NEW rows, Seamed(w, rows),
         NEW k \in Nat, k >= 1, k + 1 \in 1..Len(w), Sided(w[k + 1]), Stored(w[k + 1], rows),
         NEW f, NEW into, Gathering(f, k, w, rows, into)
  PROVE  \E more : Gathering(Joined(f, w[k + 1]), k + 1, w, rows, more)
  <1> DEFINE l == Len(f)
             m == w[k + 1]
  <1>1. /\ f \in Seq(Message) /\ l \in Nat /\ l >= 1 /\ into[k] = l
        /\ \A j \in 1..k : w[j].role = f[into[j]].role
        /\ f[l] = w[k] \/ Folded(f[l], rows)
    BY DEF Gathering
  <1>2. m \in Message /\ k \in 1..k /\ k \in 1..Len(w)
    OBVIOUS
  <1>3. /\ f[l].role = m.role => Joined(f, m) = Append(Front(f), Merged(f[l], m))
        /\ f[l].role # m.role => Joined(f, m) = Append(f, m)
    <2> HIDE DEF m
    <2>1. QED
      BY <1>1, <1>2, JoinedFacts
  <1>4. CASE f[l].role = m.role
    <2>1. w[k].role = m.role
      BY <1>1, <1>2, <1>4
    <2>2. /\ w[k].form = "summary" /\ w[k].ref = 0
          /\ w[k].at \subseteq Rows(rows) /\ m.at \subseteq Rows(rows)
      BY <1>2, <2>1 DEF Seamed
    <2>3. Folded(f[l], rows)
      BY <1>1, <2>2 DEF Folded
    <2>4. \E more : Gathering(Append(Front(f), Merged(f[Len(f)], w[k + 1])), k + 1, w, rows, more)
      <3>1. f[Len(f)].role = w[k + 1].role /\ Folded(f[Len(f)], rows) /\ w[k + 1].at \subseteq Rows(rows)
        BY <1>4, <2>2, <2>3
      <3>2. QED
        BY <3>1, GatheringMerge
    <2>5. QED
      BY <1>3, <1>4, <2>4
  <1>5. CASE f[l].role # m.role
    <2>1. \E more : Gathering(Append(f, w[k + 1]), k + 1, w, rows, more)
      <3>1. f[Len(f)].role # w[k + 1].role
        BY <1>5
      <3>2. QED
        BY <3>1, GatheringAppend
    <2>2. QED
      BY <1>3, <1>5, <2>1
  <1>6. QED
    BY <1>4, <1>5

\* mergeAdjacent gathers all of the messages.
LEMMA AlternationGathers ==
  ASSUME NEW w \in Seq(Message), Len(w) \in Nat, Len(w) >= 1, NEW rows, Seamed(w, rows),
         \A i \in 1..Len(w) : Sided(w[i]) /\ Stored(w[i], rows)
  PROVE  \E into : Gathering(FixAlternation(w), Len(w), w, rows, into)
  <1> DEFINE n == Len(w)
             g == [k \in Nat |-> [s \in Seq(Message) |->
                    IF k \in 1..n THEN Joined(s, w[k]) ELSE s]]
             IsFixed(f) == f = [k \in 0..n |-> IF k = 0 THEN <<>> ELSE Joined(f[k - 1], w[k])]
             fixed == CHOOSE f : IsFixed(f)
  <1>1. n \in Nat /\ n >= 1 /\ n \in 1..n /\ \A i \in 1..n : w[i] \in Message
    OBVIOUS
  <1>2. FixAlternation(w) = fixed[n]
    BY DEF FixAlternation
  <1>3. \E f : IsFixed(f) /\ f \in [0..n -> Seq(Message)]
    <2>1. \A k \in 1..n : \A s \in Seq(Message) : Joined(s, w[k]) \in Seq(Message)
      <3> HIDE DEF n
      <3>1. QED
        BY <1>1, JoinedFacts
    <2>2. g \in [Nat -> [Seq(Message) -> Seq(Message)]] /\ <<>> \in Seq(Message) /\ 0 \in Nat
      <3> HIDE DEF n
      <3>1. QED
        BY <2>1
    <2> HIDE DEF g
    <2>3. PICK f \in [0..n -> Seq(Message)] : Recursive(f, 0, n, <<>>, g)
      <3> HIDE DEF n
      <3>1. QED
        BY <1>1, <2>2, RecursionExists
    <2>4. ASSUME NEW k \in 0..n PROVE f[k] = IF k = 0 THEN <<>> ELSE Joined(f[k - 1], w[k])
      <3>1. CASE k = 0
        BY <2>3, <3>1 DEF Recursive
      <3>2. CASE k # 0
        <4>1. k \in Nat /\ k \in 1..n /\ f[k - 1] \in Seq(Message)
          BY <1>1, <3>2
        <4>2. f[k] = g[k][f[k - 1]]
          BY <2>3, <3>2 DEF Recursive
        <4>3. g[k][f[k - 1]] = Joined(f[k - 1], w[k])
          BY <4>1 DEF g
        <4>4. QED
          BY <3>2, <4>2, <4>3
      <3>3. QED
        BY <3>1, <3>2
    <2>5. IsFixed(f)
      BY <2>4
    <2>6. QED
      BY <2>5
  <1>4. IsFixed(fixed)
    BY <1>3
  <1> HIDE DEF fixed
  <1>5. /\ fixed[0] = <<>>
        /\ \A k \in 1..n : fixed[k] = Joined(fixed[k - 1], w[k])
    <2>1. 0 \in 0..n /\ \A k \in 1..n : k \in 0..n /\ k # 0
      BY <1>1
    <2>2. QED
      BY <1>4, <2>1
  <1> HIDE DEF IsFixed, n, g
  <1> DEFINE Good(k) == \E into : Gathering(fixed[k], k, w, rows, into)
             S == {j \in Nat : j + 1 \in 1..n => Good(j + 1)}
  <1>6. Good(1)
    <2> DEFINE m == w[1]
               into == [j \in 1..1 |-> 1]
    <2>1. m \in Message /\ Sided(m) /\ Stored(m, rows) /\ 1 \in 1..n
      BY <1>1 DEF n
    <2>2. fixed[1] = <<m>>
      <3>1. fixed[1] = Joined(<<>>, m)
        BY <1>5, <2>1
      <3>2. <<>> \in Seq(Message)
        OBVIOUS
      <3> HIDE DEF m
      <3>3. QED
        BY <2>1, <3>1, <3>2, JoinedFacts
    <2> HIDE DEF m
    <2>3. <<m>> \in Seq(Message) /\ Len(<<m>>) = 1 /\ <<m>>[1] = m
      BY <2>1
    <2>4. into \in [1..1 -> 1..1] /\ into[1] = 1 /\ \A j \in 1..1 : j = 1
      OBVIOUS
    <2> DEFINE f == <<m>>
    <2>5. f \in Seq(Message) /\ Len(f) = 1 /\ f[1] = m
      BY <2>3
    <2>6. Alternates(f)
      BY <2>5 DEF Alternates
    <2> HIDE DEF f, into
    <2>7. m = w[1]
      BY DEF m
    <2>8. Gathering(f, 1, w, rows, into)
      BY <2>1, <2>4, <2>5, <2>6, <2>7 DEF Gathering
    <2>9. QED
      BY <2>2, <2>8 DEF f
  <1>7. ASSUME NEW k \in Nat, k >= 1, k + 1 \in 1..n, Good(k) PROVE Good(k + 1)
    <2>1. PICK into : Gathering(fixed[k], k, w, rows, into)
      BY <1>7
    <2>2. (k + 1) - 1 = k /\ Sided(w[k + 1]) /\ Stored(w[k + 1], rows) /\ k + 1 \in 1..Len(w)
      BY <1>7 DEF n
    <2>3. fixed[k + 1] = Joined(fixed[k], w[k + 1])
      BY <1>5, <1>7, <2>2
    <2>4. \E more : Gathering(Joined(fixed[k], w[k + 1]), k + 1, w, rows, more)
      BY <1>7, <2>1, <2>2, GatheringStep
    <2>5. QED
      BY <2>3, <2>4
  <1> HIDE DEF Good
  <1>8. 0 \in S
    BY <1>6
  <1>9. \A j \in Nat : j \in S => j + 1 \in S
    <2>1. SUFFICES ASSUME NEW j \in Nat, j \in S, (j + 1) + 1 \in 1..n PROVE Good((j + 1) + 1)
      OBVIOUS
    <2>2. j + 1 \in 1..n /\ j + 1 \in Nat /\ j + 1 >= 1
      BY <1>1, <2>1
    <2>3. Good(j + 1)
      BY <2>1, <2>2
    <2>4. QED
      BY <1>7, <2>1, <2>2, <2>3
  <1>10. \A j \in Nat : j \in S
    <2> HIDE DEF S
    <2>1. QED
      BY <1>8, <1>9, NatSetInduction
  <1>11. n - 1 \in Nat /\ (n - 1) + 1 = n
    BY <1>1
  <1>12. Good(n)
    <2>1. n - 1 \in S
      BY <1>10, <1>11
    <2>2. QED
      BY <1>1, <1>11, <2>1
  <1>13. QED
    BY <1>2, <1>12 DEF Good, n

LEMMA GatheredStands ==
  ASSUME NEW raw, Conversational(raw), NEW rows, NEW w, Holds(w, Len(raw), rows), Len(w) >= 1,
         EndsAs(w, raw, Len(raw)), NEW f, NEW into, Gathering(f, Len(w), w, rows, into)
  PROVE  Stands(f, raw, Len(raw), rows) /\ Alternates(f)
  <1> DEFINE n == Len(raw)
             k == Len(w)
             l == Len(f)
  <1>1. /\ f \in Seq(Message) /\ l \in Nat /\ l >= 1
        /\ into \in [1..k -> 1..l] /\ into[k] = l
        /\ \A i, j \in 1..k : i < j => into[i] <= into[j]
        /\ \A y \in 1..l : \E j \in 1..k : into[j] = y
        /\ \A j \in 1..k : /\ w[j].at \subseteq f[into[j]].at /\ w[j].uses \subseteq f[into[j]].uses
                           /\ w[j].results \subseteq f[into[j]].results /\ w[j].role = f[into[j]].role
        /\ \A y \in 1..l :
             /\ Sided(f[y]) /\ Stored(f[y], rows)
             /\ \A p \in f[y].at : \E j \in 1..k : into[j] = y /\ p \in w[j].at
             /\ \A u \in f[y].results : \E j \in 1..k : into[j] = y /\ u \in w[j].results
        /\ Alternates(f)
    BY DEF Gathering
  <1>2. /\ w \in Seq(Message)
        /\ \A i \in 1..k : Sided(w[i]) /\ Stored(w[i], rows) /\ w[i].at \subseteq 1..n
        /\ \A p \in 1..n : p \in Rows(rows) \/ \E i \in 1..k : p \in w[i].at
        /\ \A i, j \in 1..k : j < i => \A p \in w[j].at, q \in w[i].at : p < q
        /\ \A i \in 1..k : \A u \in w[i].results : \E j \in 1..k : j < i /\ u \in w[j].uses
    BY DEF Holds, Ordered, Answering
  <1>3. k \in Nat /\ k >= 1 /\ \A i \in 1..k : i \in Nat /\ into[i] \in 1..l /\ into[i] \in Nat
    <2>1. k \in Nat /\ \A i \in 1..k : i \in Nat
      BY <1>2
    <2>2. \A y \in 1..l : y \in Nat
      BY <1>1
    <2>3. \A i \in 1..k : into[i] \in 1..l
      BY <1>1
    <2>4. QED
      BY <2>1, <2>2, <2>3
  <1>4. EndsAs(w, raw, n)
    OBVIOUS
  <1>5. /\ raw[n].results # {} => /\ raw[n].role = "user" /\ raw[n - 1].uses # {}
        /\ n \in 1..n /\ n \in Nat
    <2>1. n \in Nat /\ n >= 1 /\ n \in 1..n
      BY ConversationFacts
    <2>2. Sided(raw[n]) /\ raw[n].results # {} => raw[n - 1].uses = {n - 1}
      BY <2>1, ConversationFacts
    <2>3. raw[n].results # {} => raw[n].role = "user"
      <3>1. Sided(raw[n])
        BY <2>1, ConversationFacts
      <3>2. QED
        BY <3>1 DEF Sided
    <2>4. raw[n].results # {} => raw[n - 1].uses = {n - 1}
      BY <2>1, ConversationFacts
    <2>5. QED
      BY <2>1, <2>3, <2>4
  <1> HIDE DEF n, k, l
  <1>6. ASSUME NEW y \in 1..l PROVE f[y].at \subseteq 1..n
    <2>1. SUFFICES ASSUME NEW p \in f[y].at PROVE p \in 1..n
      OBVIOUS
    <2>2. PICK j \in 1..k : p \in w[j].at
      BY <1>1, <2>1
    <2>3. QED
      BY <1>2, <2>2
  <1>7. ASSUME NEW p \in 1..n PROVE p \in Rows(rows) \/ \E y \in 1..l : p \in f[y].at
    <2>1. CASE p \in Rows(rows)
      BY <2>1
    <2>2. CASE p \notin Rows(rows)
      <3>1. PICK i \in 1..k : p \in w[i].at
        BY <1>2, <2>2
      <3>2. p \in f[into[i]].at /\ into[i] \in 1..l
        BY <1>1, <1>3, <3>1
      <3>3. QED
        BY <3>2
    <2>3. QED
      BY <2>1, <2>2
  <1>8. ASSUME NEW i \in 1..k, NEW j \in 1..k, into[j] < into[i] PROVE j < i
    <2>1. ~(i < j)
      <3>1. SUFFICES ASSUME i < j PROVE FALSE
        OBVIOUS
      <3>2. into[i] <= into[j]
        BY <1>1, <3>1
      <3>3. QED
        BY <1>3, <1>8, <3>2
    <2>2. i # j
      BY <1>3, <1>8
    <2>3. QED
      BY <1>3, <2>1, <2>2
  <1>9. Ordered(f)
    <2>1. SUFFICES ASSUME NEW i \in 1..l, NEW j \in 1..l, j < i, NEW p \in f[j].at, NEW q \in f[i].at
                   PROVE  p < q
      BY DEF Ordered, l
    <2>2. PICK a \in 1..k : into[a] = j /\ p \in w[a].at
      BY <1>1, <2>1
    <2>3. PICK b \in 1..k : into[b] = i /\ q \in w[b].at
      BY <1>1, <2>1
    <2>4. a < b
      BY <1>8, <2>1, <2>2, <2>3
    <2>5. QED
      BY <1>2, <2>2, <2>3, <2>4
  <1>10. Answering(f)
    <2>1. SUFFICES ASSUME NEW i \in 1..l, NEW u \in f[i].results
                   PROVE  \E j \in 1..l : j < i /\ u \in f[j].uses
      BY DEF Answering, l
    <2>2. PICK b \in 1..k : into[b] = i /\ u \in w[b].results
      BY <1>1, <2>1
    <2>3. PICK a \in 1..k : a < b /\ u \in w[a].uses
      BY <1>2, <2>2
    <2>4. u \in f[into[a]].uses /\ into[a] \in 1..l
      BY <1>1, <1>3, <2>3
    <2>5. into[a] # into[b]
      <3>1. w[a].role = "assistant" /\ w[b].role = "user"
        BY <1>2, <2>2, <2>3 DEF Sided
      <3>2. w[a].role = f[into[a]].role /\ w[b].role = f[into[b]].role
        BY <1>1
      <3>3. QED
        BY <3>1, <3>2
    <2>6. into[a] <= into[b]
      BY <1>1, <2>3
    <2>7. into[a] < i
      BY <1>3, <2>2, <2>5, <2>6
    <2>8. QED
      BY <2>4, <2>7
  <1>11. ASSUME raw[n].results # {}
         PROVE  /\ l >= 2 /\ raw[n].results \subseteq f[l].results
                /\ raw[n - 1].uses \subseteq f[l - 1].uses
    <2>1. k >= 2 /\ raw[n].results \subseteq w[k].results /\ raw[n - 1].uses \subseteq w[k - 1].uses
      BY <1>4, <1>11 DEF EndsAs, k
    <2>2. k \in 1..k /\ k - 1 \in 1..k /\ k - 1 < k
      BY <1>3, <2>1
    <2>3. w[k].role = "user" /\ w[k - 1].role = "assistant"
      <3>1. w[k].results # {} /\ w[k - 1].uses # {}
        BY <1>5, <1>11, <2>1
      <3>2. QED
        BY <1>2, <2>2, <3>1 DEF Sided
    <2>4. into[k - 1] # into[k] /\ into[k - 1] <= into[k]
      BY <1>1, <2>2, <2>3, SMTT(30)
    <2>5. into[k - 1] < l /\ into[k - 1] \in 1..l
      BY <1>1, <1>3, <2>2, <2>4
    <2>6. l >= 2 /\ l - 1 \in 1..l
      BY <1>1, <2>5
    <2>7. PICK j \in 1..k : into[j] = l - 1
      BY <1>1, <2>6
    <2>8. j = k - 1 \/ j < k - 1
      <3>1. j # k
        BY <1>1, <2>7
      <3>2. QED
        BY <1>3, <3>1
    <2>9. into[j] <= into[k - 1]
      <3>1. CASE j = k - 1
        BY <1>3, <2>2, <3>1
      <3>2. CASE j < k - 1
        BY <1>1, <2>2, <3>2
      <3>3. QED
        BY <2>8, <3>1, <3>2
    <2>10. into[k - 1] = l - 1
      <3>1. into[k - 1] \in Nat /\ l \in Nat
        BY <1>1, <1>3, <2>2
      <3>2. l - 1 <= into[k - 1] /\ into[k - 1] < l
        BY <2>5, <2>7, <2>9
      <3>3. QED
        BY <3>1, <3>2
    <2>11. raw[n].results \subseteq f[l].results
      BY <1>1, <2>1, <2>2
    <2>12. raw[n - 1].uses \subseteq f[l - 1].uses
      BY <1>1, <2>1, <2>2, <2>10
    <2>13. QED
      BY <2>6, <2>11, <2>12
  <1>12. EndsAs(f, raw, n)
    BY <1>11 DEF EndsAs, l
  <1>13. Holds(f, n, rows)
    BY <1>1, <1>6, <1>7, <1>9, <1>10 DEF Holds, l
  <1>14. QED
    BY <1>1, <1>12, <1>13 DEF Stands, n

\* What a compaction leaves stands for the conversation when its pairs are repaired.
LEMMA MendableRepaired ==
  ASSUME NEW raw, Conversational(raw), NEW rows, NEW ms, Mendable(ms, raw, rows)
  PROVE  /\ Stands(ValidateToolPairs(ms), raw, Len(raw), rows)
         /\ Alternates(ValidateToolPairs(ms))
  <1>1. /\ ms \in Seq(Message) /\ Len(ms) \in Nat /\ DOMAIN ms = 1..Len(ms)
        /\ \A q \in 1..Len(ms) : /\ Sided(ms[q]) /\ Stored(ms[q], rows)
                                 /\ ms[q].at \subseteq 1..Len(raw)
                                 /\ \A u \in ms[q].results \cap AllUses(ms) :
                                      \E j \in 1..Len(ms) : j < q /\ u \in ms[j].uses
        /\ \A p \in 1..Len(raw) : \E q \in 1..Len(ms) : p \in ms[q].at
        /\ Ordered(ms) /\ Alternates(ms) /\ EndsAs(ms, raw, Len(raw))
    BY DEF Mendable
  <1>2. CASE \E i \in DOMAIN ms : Orphaned(ms, i)
    <2> DEFINE w == WithoutOrphans(ms)
    <2>1. /\ Holds(w, Len(raw), rows) /\ Len(w) >= 1
          /\ EndsAs(w, raw, Len(raw)) /\ Seamed(w, rows)
      BY OrphansDropped
    <2> HIDE DEF w
    <2>2. /\ w \in Seq(Message) /\ Len(w) \in Nat
          /\ \A i \in 1..Len(w) : Sided(w[i]) /\ Stored(w[i], rows)
      BY <2>1 DEF Holds
    <2>3. PICK into : Gathering(FixAlternation(w), Len(w), w, rows, into)
      BY <2>1, <2>2, AlternationGathers
    <2>4. Stands(FixAlternation(w), raw, Len(raw), rows) /\ Alternates(FixAlternation(w))
      BY <2>1, <2>3, GatheredStands
    <2>5. ValidateToolPairs(ms) = FixAlternation(w)
      BY <1>2 DEF ValidateToolPairs, w
    <2>6. QED
      BY <2>4, <2>5
  <1>3. CASE ~\E i \in DOMAIN ms : Orphaned(ms, i)
    <2>1. ValidateToolPairs(ms) = ms
      BY <1>3 DEF ValidateToolPairs
    <2>2. \A q \in 1..Len(ms) : ms[q].results \subseteq AllUses(ms)
      BY <1>1, <1>3 DEF Orphaned
    <2>3. Answering(ms)
      BY <1>1, <2>2 DEF Answering
    <2>4. Holds(ms, Len(raw), rows)
      BY <1>1, <2>3 DEF Holds
    <2>5. QED
      BY <1>1, <2>1, <2>4 DEF Stands
  <1>4. QED
    BY <1>2, <1>3

-----------------------------------------------------------------------------
(* The fallback as a whole                                                 *)

\* A marked message is in a row, and a tool use with its results and what follows them.
Marked(marked, raw, rows) ==
  \A i \in marked :
    /\ i \in 1..Len(raw)
    /\ \E n \in rows : n \in Nat /\ i <= n /\ (raw[i].uses # {} => i + 2 <= n)

LEMMA MarkedStored ==
  ASSUME NEW marked, NEW raw, NEW rows, NEW more, rows \subseteq more, Marked(marked, raw, rows)
  PROVE  Marked(marked, raw, more)
  BY DEF Marked

LEMMA MarkedRows ==
  ASSUME NEW raw, Len(raw) \in Nat, NEW rows, NEW marked, Marked(marked, raw, rows), NEW i \in marked
  PROVE  /\ i \in Rows(rows)
         /\ raw[i].uses # {} => i + 1 \in Rows(rows) /\ i + 2 \in Rows(rows)
  <1>1. i \in 1..Len(raw) /\ i \in Nat /\ i >= 1
    BY DEF Marked
  <1>2. PICK n \in rows : n \in Nat /\ i <= n /\ (raw[i].uses # {} => i + 2 <= n)
    BY DEF Marked
  <1>3. i \in 1..n /\ (raw[i].uses # {} => i + 1 \in 1..n /\ i + 2 \in 1..n)
    BY <1>1, <1>2
  <1>4. \A k \in 1..n : k \in Rows(rows)
    BY <1>2 DEF Rows
  <1>5. QED
    BY <1>3, <1>4

\* What this request stubs is in the row of this request.
LEMMA StubbedMarked ==
  ASSUME NEW raw, Conversational(raw), NEW rows, NEW ms, Shaped(ms, raw, rows)
  PROVE  Marked(Stubbed(ms), raw, rows \cup {Len(raw)})
  <1> DEFINE n == Len(raw)
  <1>1. n \in Nat /\ n >= 1
    BY ConversationFacts
  <1>2. ms \in Seq(Message) /\ Len(ms) = n
    BY DEF Shaped
  <1>3. Stubbed(ms) \subseteq 2..n /\ Stubbed(ms) \cap ActivePair(ms) = {}
    BY <1>2, StubbedFacts
  <1>4. ActivePair(ms) = IF raw[n].results # {} THEN {n - 1, n} ELSE {}
    BY ActiveShaped
  <1>5. ASSUME NEW i \in Stubbed(ms) PROVE i \in 1..n /\ (raw[i].uses # {} => i + 2 <= n)
    <2>1. i \in 1..n /\ i \in Nat
      BY <1>1, <1>3
    <2>2. ASSUME raw[i].uses # {} PROVE i + 2 <= n
      <3>1. /\ i + 1 \in 1..n /\ raw[i + 1].results = {i}
            /\ i + 1 # n => i + 3 <= n
        BY <2>1, <2>2, ConversationFacts
      <3>2. i + 1 # n
        <4>1. SUFFICES ASSUME i + 1 = n PROVE FALSE
          OBVIOUS
        <4>2. raw[n].results = {i} /\ n - 1 = i
          <5> HIDE DEF n
          <5>1. QED
            BY <2>1, <3>1, <4>1
        <4>3. i \in ActivePair(ms)
          BY <1>4, <4>2
        <4>4. QED
          BY <1>3, <4>3
      <3>3. QED
        BY <1>1, <2>1, <3>1, <3>2
    <2>3. QED
      BY <2>1, <2>2
  <1>6. n \in rows \cup {n} /\ \A i \in 1..n : i <= n
    BY <1>1
  <1> HIDE DEF n
  <1>7. Marked(Stubbed(ms), raw, rows \cup {n})
    BY <1>1, <1>5, <1>6 DEF Marked, n
  <1>8. QED
    BY <1>7 DEF n

\* Stubs, cut texts and summaries, with their pairs repaired, stand for the conversation.
LEMMA ReducedRepaired ==
  ASSUME NEW raw, Conversational(raw), NEW rows, NEW ms, Reduced(ms, raw, rows),
         NEW aged, Marked(aged, raw, rows), NEW old \in SUBSET aged
  PROVE  LET after == ValidateToolPairs(Compact(Decayed(ms, aged), old))
         IN  Stands(after, raw, Len(raw), rows) /\ Alternates(after)
  <1> DEFINE d == Decayed(ms, aged)
             merge == Mergeable(d, old)
  <1>1. Len(raw) \in Nat
    BY ConversationFacts
  <1>2. Reduced(d, raw, rows)
    <2>1. \A i \in aged : i \in Rows(rows)
      BY <1>1, MarkedRows
    <2>2. QED
      BY <2>1, DecayedReduced
  <1> HIDE DEF d
  <1>3. d \in Seq(Message)
    BY <1>2 DEF Reduced
  <1>4. merge \subseteq old /\ merge \cap ActivePair(d) = {}
    BY <1>3, RunFacts
  <1>5. ActivePair(d) = IF raw[Len(raw)].results # {} THEN {Len(raw) - 1, Len(raw)} ELSE {}
    BY <1>2, ActiveReduced
  <1>6. Compacted(Compact(d, old), Len(raw), d, merge)
    BY <1>2, CompactFacts
  <1> HIDE DEF merge
  <1>7. Spared(merge, raw, rows)
    <2>1. ASSUME NEW i \in merge
          PROVE  /\ i \in Rows(rows)
                 /\ raw[i].uses # {} => i + 1 \in Rows(rows) /\ i + 2 \in Rows(rows)
      <3>1. i \in aged
        BY <1>4
      <3>2. QED
        BY <1>1, <3>1, MarkedRows
    <2>2. raw[Len(raw)].results # {} => Len(raw) \notin merge /\ Len(raw) - 1 \notin merge
      BY <1>4, <1>5
    <2>3. QED
      BY <2>1, <2>2 DEF Spared
  <1> DEFINE c == Compact(d, old)
  <1>8. Mendable(c, raw, rows)
    BY <1>2, <1>6, <1>7, CompactedMendable
  <1> HIDE DEF c
  <1>9. Stands(ValidateToolPairs(c), raw, Len(raw), rows) /\ Alternates(ValidateToolPairs(c))
    BY <1>8, MendableRepaired
  <1>10. QED
    BY <1>9 DEF c, d

-----------------------------------------------------------------------------
(* The invariant                                                           *)

\* A frozen prefix ends with a message of the user, and stands for what is before its end.
Kept(prefix, raw, rows) ==
  prefix # Nothing =>
    /\ prefix.cutoff \in 1..Len(raw) /\ prefix.cutoff % 2 = 1
    /\ Stands(prefix.messages, raw, prefix.cutoff, rows)

FrozenInv ==
  /\ frozen = [mem |-> frozen.mem, row |-> frozen.row]
  /\ frozen.mem # Unloaded => Kept(frozen.mem, Raw, archive)
  /\ Kept(frozen.row, Raw, archive)

\* The messages of a request at the stage p: those that a spliced prefix replaced are
\* never replaced again, for under pressure the whole conversation takes its place.
Fits(p, ms, spliced, trigger, action, raw, rows) ==
  /\ p \in {"idle", "begin", "splice", "decide", "recall", "direct", "compress", "collapse",
            "fallback", "sent"}
  /\ p \in {"idle", "begin", "splice"} => ms = <<>>
  /\ p \in {"decide", "recall", "direct", "sent"} => Stands(ms, raw, Len(raw), rows)
  /\ p = "decide" => spliced \/ ms = raw
  /\ p = "recall" => trigger = "none" \/ ms = raw
  /\ p \in {"compress", "collapse", "fallback"} => Shaped(ms, raw, rows)
  /\ p = "sent" /\ action = "fallback" => Alternates(ms)

Locals == {"baseline", "spliced", "messages", "source", "pressure", "trigger", "blocked",
           "action", "measured"}

RequestInv ==
  /\ DOMAIN req = Locals
  /\ Fits(pc, req.messages, req.spliced, req.trigger, req.action, Raw, archive)

\* The marks in memory and those of the row, which may be read again later.
Bound(held, raw, rows) ==
  /\ held = [mem |-> held.mem, row |-> held.row, loaded |-> held.loaded]
  /\ Marked(held.mem, raw, rows) /\ Marked(held.row, raw, rows)

MarksInv == Bound(marks, Raw, archive)

MessagesInv == kinds \in Seq(ExchangeKinds) /\ FrozenInv /\ MarksInv /\ RequestInv

LEMMA KeptStored ==
  ASSUME NEW prefix, NEW raw, NEW rows, NEW more, rows \subseteq more, Kept(prefix, raw, rows)
  PROVE  Kept(prefix, raw, more)
  BY StandsStored DEF Kept

\* The conversation grows by an exchange.
LEMMA RawGrows ==
  ASSUME NEW ks \in Seq(ExchangeKinds), NEW kind \in ExchangeKinds
  PROVE  LET raw == RawMessages(ks)
             longer == RawMessages(Append(ks, kind))
         IN  /\ Append(ks, kind) \in Seq(ExchangeKinds)
             /\ Len(raw) \in Nat /\ Len(longer) = Len(raw) + 2
             /\ \A i \in 1..Len(raw) : longer[i] = raw[i]
  <1> DEFINE more == Append(ks, kind)
             n == 2 * Len(ks) + 1
  <1>1. more \in Seq(ExchangeKinds) /\ Len(more) = Len(ks) + 1 /\ Len(ks) \in Nat
        /\ \A i \in 1..Len(ks) : more[i] = ks[i]
    OBVIOUS
  <1> HIDE DEF more
  <1>2. RawMessages(ks) = [i \in 1..n |-> RawMessage(ks, i)] /\ Len(RawMessages(ks)) = n /\ n \in Nat
    BY <1>1, RawConversational DEF RawMessages
  <1>3. /\ RawMessages(more) = [i \in 1..(2 * Len(more) + 1) |-> RawMessage(more, i)]
        /\ Len(RawMessages(more)) = n + 2
    BY <1>1, RawConversational DEF RawMessages
  <1>4. ASSUME NEW i \in 1..n PROVE RawMessage(more, i) = RawMessage(ks, i)
    <2>1. CASE i = 1
      BY <2>1 DEF RawMessage
    <2>2. CASE i # 1
      <3>1. i \div 2 \in 1..Len(ks)
        BY <1>1, <2>2
      <3>2. more[i \div 2] = ks[i \div 2]
        BY <1>1, <3>1
      <3>3. QED
        BY <3>2 DEF RawMessage
    <2>3. QED
      BY <2>1, <2>2
  <1>5. 1..n \subseteq 1..(2 * Len(more) + 1)
    BY <1>1
  <1> HIDE DEF n
  <1>6. \A i \in 1..n : RawMessages(more)[i] = RawMessages(ks)[i]
    BY <1>2, <1>3, <1>4, <1>5
  <1>7. QED
    BY <1>1, <1>2, <1>3, <1>6 DEF more

LEMMA KeptLonger ==
  ASSUME NEW raw, Conversational(raw), NEW longer, Conversational(longer),
         Len(longer) = Len(raw) + 2, \A i \in 1..Len(raw) : longer[i] = raw[i],
         NEW rows, NEW prefix, Kept(prefix, raw, rows)
  PROVE  Kept(prefix, longer, rows)
  <1> DEFINE c == prefix.cutoff
  <1>1. SUFFICES ASSUME prefix # Nothing
                 PROVE  /\ c \in 1..Len(longer) /\ c % 2 = 1
                        /\ Stands(prefix.messages, longer, c, rows)
    BY DEF Kept
  <1>2. /\ c \in 1..Len(raw) /\ c % 2 = 1 /\ Stands(prefix.messages, raw, c, rows)
        /\ Len(raw) \in Nat
    BY <1>1, ConversationFacts DEF Kept
  <1> HIDE DEF c
  <1>3. c \in 1..Len(longer) /\ longer[c] = raw[c]
    BY <1>2
  <1>4. Stands(prefix.messages, longer, c, rows)
    <2>1. CASE c = 1
      <3>1. longer[c].results = {}
        BY <2>1, ConversationFacts
      <3>2. QED
        BY <1>2, <3>1 DEF Stands, EndsAs
    <2>2. CASE c # 1
      <3>1. longer[c - 1] = raw[c - 1]
        <4>1. c - 1 \in 1..Len(raw)
          BY <1>2, <2>2
        <4>2. QED
          BY <4>1
      <3>2. QED
        BY <1>2, <1>3, <3>1, StandsLonger
    <2>3. QED
      BY <2>1, <2>2
  <1>5. QED
    BY <1>2, <1>3, <1>4

LEMMA MarkedLonger ==
  ASSUME NEW raw, NEW longer, Len(raw) \in Nat, Len(longer) = Len(raw) + 2,
         \A i \in 1..Len(raw) : longer[i] = raw[i],
         NEW rows, NEW marked, Marked(marked, raw, rows)
  PROVE  Marked(marked, longer, rows)
  <1>1. 1..Len(raw) \subseteq 1..Len(longer)
    OBVIOUS
  <1>2. QED
    BY <1>1 DEF Marked

LEMMA WrittenKept ==
  ASSUME NEW raw, NEW rows, NEW state, Kept(state.row, raw, rows),
         NEW value, Kept(value, raw, rows), NEW lost
  PROVE  LET w == Written(state, value, lost)
         IN  /\ w = [mem |-> w.mem, row |-> w.row]
             /\ Kept(w.mem, raw, rows) /\ Kept(w.row, raw, rows)
  BY DEF Written

\* What is known of the conversation.
LEMMA RawFacts ==
  ASSUME kinds \in Seq(ExchangeKinds)
  PROVE  /\ Conversational(Raw) /\ Len(Raw) \in Nat /\ Len(Raw) >= 1 /\ Len(Raw) % 2 = 1
         /\ Stands(Raw, Raw, Len(Raw), archive) /\ Shaped(Raw, Raw, archive)
  <1>1. Conversational(Raw)
    BY RawConversational DEF Raw
  <1>2. Shaped(Raw, Raw, archive)
    BY <1>1, RawShaped
  <1>3. QED
    BY <1>1, <1>2, ShapedStands, ConversationFacts

LEMMA InitMessages ==
  ASSUME Init
  PROVE  MessagesInv
  <1>1. kinds \in Seq(ExchangeKinds)
    BY PipelineAssumption DEF Init
  <1>2. FrozenInv
    BY DEF Init, FrozenInv, Kept
  <1>3. MarksInv
    BY DEF Init, MarksInv, Bound, Marked
  <1>4. RequestInv
    <2>1. pc = "idle" /\ req = Blank
      BY DEF Init
    <2>2. DOMAIN req = Locals /\ req.messages = <<>>
      BY <2>1 DEF Blank, Locals
    <2>3. QED
      BY <2>1, <2>2 DEF RequestInv, Fits
  <1>5. QED
    BY <1>1, <1>2, <1>3, <1>4 DEF MessagesInv

\* The conversation is the same, and what was stored still is: only the request changed.
LEMMA RequestStep ==
  ASSUME MessagesInv, UNCHANGED <<kinds, frozen, marks>>, archive \subseteq archive',
         RequestInv'
  PROVE  MessagesInv'
  <1>1. Raw' = Raw
    BY DEF Raw
  <1>2. FrozenInv /\ MarksInv /\ kinds' \in Seq(ExchangeKinds)
    BY DEF MessagesInv
  <1>3. FrozenInv'
    <2>1. frozen.mem # Unloaded => Kept(frozen.mem, Raw, archive')
      BY <1>2, KeptStored DEF FrozenInv
    <2>2. Kept(frozen.row, Raw, archive')
      BY <1>2, KeptStored DEF FrozenInv
    <2>3. frozen' = frozen
      OBVIOUS
    <2>4. QED
      BY <1>1, <1>2, <2>1, <2>2, <2>3 DEF FrozenInv
  <1>4. MarksInv'
    <2>1. Bound(marks, Raw, archive')
      BY <1>2, MarkedStored DEF MarksInv, Bound
    <2>2. marks' = marks
      OBVIOUS
    <2>3. QED
      BY <1>1, <2>1, <2>2 DEF MarksInv
  <1>5. QED
    BY <1>2, <1>3, <1>4 DEF MessagesInv

\* The request is over, or not there yet.
LEMMA NoRequest ==
  ASSUME req' = Blank, pc' = "idle"
  PROVE  RequestInv'
  <1>1. DOMAIN req' = Locals /\ req'.messages = <<>>
    BY DEF Blank, Locals
  <1>2. QED
    BY <1>1 DEF RequestInv, Fits

LEMMA ClientMessages ==
  ASSUME MessagesInv,
         \/ \E kind \in ExchangeKinds, t \in Tops, spelling \in 0..1 : Ask(kind, t, spelling)
         \/ Resend
  PROVE  MessagesInv'
  <1>1. /\ kinds \in Seq(ExchangeKinds) /\ FrozenInv /\ MarksInv /\ RequestInv
        /\ Conversational(Raw) /\ Len(Raw) \in Nat
    BY RawFacts DEF MessagesInv
  <1>2. /\ pc = "idle" /\ pc' = "begin" /\ UNCHANGED <<req, frozen, marks, archive>>
        /\ kinds' = kinds \/ \E kind \in ExchangeKinds : kinds' = Append(kinds, kind)
    BY DEF Ask, Resend, Send, keyed
  <1>3. RequestInv'
    <2>1. DOMAIN req = Locals /\ req.messages = <<>>
      BY <1>1, <1>2 DEF RequestInv, Fits
    <2>2. QED
      BY <1>2, <2>1 DEF RequestInv, Fits
  <1>4. CASE kinds' = kinds
    BY <1>2, <1>3, <1>4, RequestStep
  <1>5. ASSUME NEW kind \in ExchangeKinds, kinds' = Append(kinds, kind) PROVE MessagesInv'
    <2> DEFINE longer == RawMessages(Append(kinds, kind))
    <2>1. /\ Append(kinds, kind) \in Seq(ExchangeKinds) /\ Len(longer) = Len(Raw) + 2
          /\ \A i \in 1..Len(Raw) : longer[i] = Raw[i]
      BY <1>1, RawGrows DEF Raw
    <2>2. Conversational(longer)
      BY <2>1, RawConversational
    <2>3. Raw' = longer
      BY <1>5 DEF Raw
    <2> HIDE DEF longer
    <2>4. FrozenInv'
      <3>1. frozen.mem # Unloaded => Kept(frozen.mem, longer, archive)
        BY <1>1, <2>1, <2>2, KeptLonger DEF FrozenInv
      <3>2. Kept(frozen.row, longer, archive)
        BY <1>1, <2>1, <2>2, KeptLonger DEF FrozenInv
      <3>3. frozen' = frozen /\ archive' = archive
        BY <1>2
      <3>4. QED
        BY <1>1, <2>3, <3>1, <3>2, <3>3 DEF FrozenInv
    <2>5. MarksInv'
      <3>1. Bound(marks, longer, archive)
        BY <1>1, <2>1, MarkedLonger DEF MarksInv, Bound
      <3>2. marks' = marks /\ archive' = archive
        BY <1>2
      <3>3. QED
        BY <2>3, <3>1, <3>2 DEF MarksInv
    <2>6. kinds' \in Seq(ExchangeKinds)
      BY <1>5, <2>1
    <2>7. QED
      BY <1>3, <2>4, <2>5, <2>6 DEF MessagesInv
  <1>6. QED
    BY <1>2, <1>4, <1>5

LEMMA PassThroughMessages ==
  ASSUME MessagesInv, PassThrough
  PROVE  MessagesInv'
  <1>1. /\ DOMAIN req = Locals /\ Stands(Raw, Raw, Len(Raw), archive)
    BY RawFacts DEF MessagesInv, RequestInv
  <1>2. /\ req' = [req EXCEPT !.messages = Raw, !.action = "fail_closed"] /\ pc' = "sent"
        /\ UNCHANGED <<kinds, frozen, marks, archive>>
    BY DEF PassThrough, session, client, keyed
  <1>3. DOMAIN req' = Locals /\ req'.messages = Raw /\ req'.action = "fail_closed" /\ Raw' = Raw
    BY <1>1, <1>2 DEF Locals, Raw
  <1>4. RequestInv'
    BY <1>1, <1>2, <1>3 DEF RequestInv, Fits
  <1>5. QED
    BY <1>2, <1>4, RequestStep

\* What the row adds to the marks in memory is bound to the conversation as they are.
LEMMA ReadBound ==
  ASSUME MarksInv, UNCHANGED <<kinds, archive>>, NEW unread, MarksRead(unread)
  PROVE  MarksInv'
  <1>1. Raw' = Raw
    BY DEF Raw
  <1>2. \/ marks' = marks
        \/ marks' = [marks EXCEPT !.mem = @ \cup marks.row, !.loaded = TRUE]
    BY DEF MarksRead
  <1>3. Marked(marks.mem \cup marks.row, Raw, archive)
    BY DEF MarksInv, Bound, Marked
  <1>4. CASE marks' = marks
    BY <1>1, <1>4 DEF MarksInv
  <1>5. CASE marks' = [marks EXCEPT !.mem = @ \cup marks.row, !.loaded = TRUE]
    <2>1. marks' = [mem |-> marks.mem \cup marks.row, row |-> marks.row, loaded |-> TRUE]
      BY <1>5 DEF MarksInv, Bound
    <2>2. QED
      BY <1>1, <1>3, <2>1 DEF MarksInv, Bound
  <1>6. QED
    BY <1>2, <1>4, <1>5

LEMMA StartMessages ==
  ASSUME MessagesInv,
         \/ \E lostPrefix, lostBaseline, unread \in BOOLEAN :
              StartUnsafe(lostPrefix, lostBaseline, unread)
         \/ \E failed, unread \in BOOLEAN : StartSafe(failed, unread)
  PROVE  MessagesInv'
  <1>1. /\ DOMAIN req = Locals /\ Stands(Raw, Raw, Len(Raw), archive)
        /\ kinds \in Seq(ExchangeKinds) /\ FrozenInv /\ MarksInv /\ RequestInv
    BY RawFacts DEF MessagesInv, RequestInv
  <1>2. ASSUME NEW lostPrefix \in BOOLEAN, NEW lostBaseline \in BOOLEAN,
               NEW unread \in BOOLEAN, StartUnsafe(lostPrefix, lostBaseline, unread)
        PROVE  MessagesInv'
    <2>1. /\ req' = [req EXCEPT !.messages = Raw] /\ pc' = "decide"
          /\ frozen' = Written(frozen, Nothing, lostPrefix)
          /\ UNCHANGED <<kinds, archive>> /\ MarksRead(unread)
      BY <1>2 DEF StartUnsafe, client
    <2>2. DOMAIN req' = Locals /\ req'.messages = Raw /\ Raw' = Raw
      BY <1>1, <2>1 DEF Locals, Raw
    <2>3. RequestInv'
      BY <1>1, <2>1, <2>2 DEF RequestInv, Fits
    <2>4. FrozenInv'
      <3>1. Kept(Nothing, Raw, archive)
        BY DEF Kept
      <3>2. LET w == Written(frozen, Nothing, lostPrefix)
            IN  /\ w = [mem |-> w.mem, row |-> w.row]
                /\ Kept(w.mem, Raw, archive) /\ Kept(w.row, Raw, archive)
        BY <1>1, <3>1, WrittenKept DEF FrozenInv
      <3>3. QED
        BY <2>1, <2>2, <3>2 DEF FrozenInv
    <2>5. MarksInv'
      BY <1>1, <2>1, ReadBound
    <2>6. QED
      BY <1>1, <2>1, <2>3, <2>4, <2>5 DEF MessagesInv
  <1>3. ASSUME NEW failed \in BOOLEAN, NEW unread \in BOOLEAN, StartSafe(failed, unread)
        PROVE  MessagesInv'
    <2>1. /\ req' = [req EXCEPT !.baseline = IF failed THEN ReadFailed ELSE base'.mem]
          /\ pc = "begin" /\ pc' = "splice" /\ UNCHANGED <<kinds, frozen, archive>>
          /\ MarksRead(unread)
      BY <1>3 DEF StartSafe, session, client
    <2>2. DOMAIN req' = Locals /\ req'.messages = req.messages
      BY <1>1, <2>1 DEF Locals
    <2>3. req.messages = <<>>
      BY <1>1, <2>1 DEF RequestInv, Fits
    <2>4. Raw' = Raw
      BY <2>1 DEF Raw
    <2>5. RequestInv'
      BY <2>1, <2>2, <2>3 DEF RequestInv, Fits
    <2>6. FrozenInv'
      BY <1>1, <2>1, <2>4 DEF FrozenInv
    <2>7. MarksInv'
      BY <1>1, <2>1, ReadBound
    <2>8. QED
      BY <1>1, <2>1, <2>5, <2>6, <2>7 DEF MessagesInv
  <1>4. QED
    BY <1>2, <1>3

LEMMA SpliceMessages ==
  ASSUME MessagesInv, NEW failed \in BOOLEAN, NEW lost \in BOOLEAN, Splice(failed, lost)
  PROVE  MessagesInv'
  <1> DEFINE prefix == IF frozen.mem = Unloaded THEN frozen.row ELSE frozen.mem
             hit == ~failed /\ prefix # Nothing /\ Verified(prefix)
             refused == ~failed /\ prefix # Nothing /\ ~Verified(prefix)
             spliced == prefix.messages \o After(Raw, prefix.cutoff)
  <1>1. /\ DOMAIN req = Locals /\ Stands(Raw, Raw, Len(Raw), archive) /\ Conversational(Raw)
        /\ kinds \in Seq(ExchangeKinds) /\ FrozenInv /\ MarksInv
    BY RawFacts DEF MessagesInv, RequestInv
  <1>2. /\ frozen' = IF failed THEN frozen
                     ELSE IF refused THEN Written(frozen, Nothing, lost)
                     ELSE [frozen EXCEPT !.mem = prefix]
        /\ req' = [req EXCEPT !.spliced = hit, !.messages = IF hit THEN spliced ELSE Raw]
        /\ pc' = "decide" /\ UNCHANGED <<kinds, marks, archive>>
    BY DEF Splice, session, client
  <1>3. Kept(prefix, Raw, archive)
    BY <1>1 DEF FrozenInv
  <1>4. hit => Stands(spliced, Raw, Len(Raw), archive)
    <2>1. SUFFICES ASSUME hit PROVE Stands(spliced, Raw, Len(Raw), archive)
      OBVIOUS
    <2>2. /\ prefix.cutoff \in 1..Len(Raw) /\ prefix.cutoff % 2 = 1
          /\ Stands(prefix.messages, Raw, prefix.cutoff, archive)
      BY <1>3, <2>1 DEF Kept
    <2> HIDE DEF prefix
    <2>3. QED
      BY <1>1, <2>2, SpliceStands
  <1>5. Raw' = Raw
    BY <1>2 DEF Raw
  <1> HIDE DEF hit, spliced, prefix
  <1>6. /\ DOMAIN req' = Locals /\ req'.spliced = hit
        /\ req'.messages = IF hit THEN spliced ELSE Raw
    BY <1>1, <1>2 DEF Locals
  <1>7. RequestInv'
    <2>1. CASE hit
      <3>1. req'.messages = spliced /\ req'.spliced
        BY <1>6, <2>1
      <3>2. QED
        BY <1>2, <1>4, <1>5, <1>6, <2>1, <3>1 DEF RequestInv, Fits
    <2>2. CASE ~hit
      <3>1. req'.messages = Raw
        BY <1>6, <2>2
      <3>2. QED
        BY <1>1, <1>2, <1>5, <1>6, <3>1 DEF RequestInv, Fits
    <2>3. QED
      BY <2>1, <2>2
  <1>8. FrozenInv'
    <2>1. CASE failed
      BY <1>1, <1>2, <1>5, <2>1 DEF FrozenInv
    <2>2. CASE ~failed /\ refused
      <3>1. Kept(Nothing, Raw, archive)
        BY DEF Kept
      <3>2. LET w == Written(frozen, Nothing, lost)
            IN  /\ w = [mem |-> w.mem, row |-> w.row]
                /\ Kept(w.mem, Raw, archive) /\ Kept(w.row, Raw, archive)
        BY <1>1, <3>1, WrittenKept DEF FrozenInv
      <3>3. frozen' = Written(frozen, Nothing, lost) /\ archive' = archive
        BY <1>2, <2>2
      <3>4. QED
        BY <1>5, <3>2, <3>3 DEF FrozenInv
    <2>3. CASE ~failed /\ ~refused
      <3>1. frozen' = [frozen EXCEPT !.mem = prefix] /\ archive' = archive
        BY <1>2, <2>3
      <3>2. frozen = [mem |-> frozen.mem, row |-> frozen.row] /\ Kept(frozen.row, Raw, archive)
        BY <1>1 DEF FrozenInv
      <3>3. frozen' = [mem |-> prefix, row |-> frozen.row]
        BY <3>1, <3>2
      <3>4. QED
        BY <1>3, <1>5, <3>1, <3>2, <3>3 DEF FrozenInv
    <2>4. QED
      BY <2>1, <2>2, <2>3
  <1>9. MarksInv'
    BY <1>1, <1>2, <1>5 DEF MarksInv
  <1>10. QED
    BY <1>1, <1>2, <1>7, <1>8, <1>9 DEF MessagesInv

LEMMA DecideMessages ==
  ASSUME MessagesInv, NEW waited \in BOOLEAN, NEW lost \in BOOLEAN, Decide(waited, lost)
  PROVE  MessagesInv'
  <1> DEFINE first == Pressure(req.messages)
             drop == req.spliced /\ Trigger(first[2], waited) # "none"
             candidate == IF drop THEN Raw ELSE req.messages
             final == Pressure(candidate)
             trigger == Trigger(final[2], waited)
  <1>1. /\ DOMAIN req = Locals /\ Stands(Raw, Raw, Len(Raw), archive)
        /\ kinds \in Seq(ExchangeKinds) /\ FrozenInv /\ MarksInv
        /\ Stands(req.messages, Raw, Len(Raw), archive) /\ (req.spliced \/ req.messages = Raw)
    BY RawFacts DEF MessagesInv, RequestInv, Fits, Decide
  <1>2. /\ frozen' = IF drop THEN Written(frozen, Nothing, lost) ELSE frozen
        /\ req' = [req EXCEPT !.messages = candidate, !.spliced = @ /\ ~drop,
                              !.source = final[1], !.pressure = final[2],
                              !.trigger = trigger, !.measured = TRUE]
        /\ pc' = "recall" /\ UNCHANGED <<kinds, marks, archive>>
    BY DEF Decide, session, client
  <1>3. Raw' = Raw
    BY <1>2 DEF Raw
  <1>4. trigger = "none" \/ candidate = Raw
    <2>1. CASE drop
      BY <2>1
    <2>2. CASE ~drop /\ req.spliced
      <3>1. candidate = req.messages /\ Trigger(first[2], waited) = "none"
        BY <2>2
      <3>2. final = first
        BY <3>1
      <3>3. QED
        BY <3>1, <3>2
    <2>3. CASE ~drop /\ ~req.spliced
      BY <1>1, <2>3
    <2>4. QED
      BY <2>1, <2>2, <2>3
  <1>5. Stands(candidate, Raw, Len(Raw), archive)
    BY <1>1
  <1> HIDE DEF first, drop, candidate, final, trigger
  <1>6. DOMAIN req' = Locals /\ req'.messages = candidate /\ req'.trigger = trigger
    BY <1>1, <1>2 DEF Locals
  <1>7. RequestInv'
    BY <1>2, <1>3, <1>4, <1>5, <1>6 DEF RequestInv, Fits
  <1>8. FrozenInv'
    <2>1. Kept(Nothing, Raw, archive)
      BY DEF Kept
    <2>2. LET w == Written(frozen, Nothing, lost)
          IN  /\ w = [mem |-> w.mem, row |-> w.row]
              /\ Kept(w.mem, Raw, archive) /\ Kept(w.row, Raw, archive)
      BY <1>1, <2>1, WrittenKept DEF FrozenInv
    <2>3. CASE drop
      BY <1>2, <1>3, <2>2, <2>3 DEF FrozenInv
    <2>4. CASE ~drop
      BY <1>1, <1>2, <1>3, <2>4 DEF FrozenInv
    <2>5. QED
      BY <2>3, <2>4
  <1>9. MarksInv'
    BY <1>1, <1>2, <1>3 DEF MarksInv
  <1>10. QED
    BY <1>1, <1>2, <1>7, <1>8, <1>9 DEF MessagesInv

LEMMA RecallMessages ==
  ASSUME MessagesInv, Recall
  PROVE  MessagesInv'
  <1>1. /\ DOMAIN req = Locals /\ Conversational(Raw) /\ Shaped(Raw, Raw, archive)
        /\ Stands(req.messages, Raw, Len(Raw), archive)
        /\ req.trigger = "none" \/ req.messages = Raw
    BY RawFacts DEF MessagesInv, RequestInv, Fits, Recall
  <1>2. /\ pc' = IF req.trigger = "none" THEN "direct" ELSE "compress"
        /\ UNCHANGED <<kinds, frozen, marks, archive>>
    BY DEF Recall, session, client, keyed
  <1>3. Raw' = Raw
    BY <1>2 DEF Raw
  <1>4. /\ DOMAIN req' = Locals
        /\ req'.messages = req.messages \/ \E i : req'.messages = Recalled(req.messages, i)
    <2>1. \/ req' = req
          \/ \E i \in RecallPlaces(req.messages) :
               req' = [req EXCEPT !.messages = Recalled(req.messages, i), !.action = "light"]
      BY DEF Recall
    <2>2. CASE req' = req
      BY <1>1, <2>2
    <2>3. ASSUME NEW i,
                 req' = [req EXCEPT !.messages = Recalled(req.messages, i), !.action = "light"]
          PROVE  DOMAIN req' = Locals /\ req'.messages = Recalled(req.messages, i)
      BY <1>1, <2>3 DEF Locals
    <2>4. QED
      BY <2>1, <2>2, <2>3
  <1>5. CASE req.trigger = "none"
    <2>1. Stands(req'.messages, Raw, Len(Raw), archive)
      BY <1>1, <1>4, RecalledStands
    <2>2. pc' = "direct"
      BY <1>2, <1>5
    <2>3. RequestInv'
      BY <1>2, <1>3, <1>4, <2>1, <2>2 DEF RequestInv, Fits
    <2>4. QED
      BY <1>2, <2>3, RequestStep
  <1>6. CASE req.trigger # "none"
    <2>1. Shaped(req'.messages, Raw, archive)
      BY <1>1, <1>4, <1>6, RecalledShaped
    <2>2. pc' = "compress"
      BY <1>2, <1>6
    <2>3. RequestInv'
      BY <1>2, <1>3, <1>4, <2>1, <2>2 DEF RequestInv, Fits
    <2>4. QED
      BY <1>2, <2>3, RequestStep
  <1>7. QED
    BY <1>5, <1>6

LEMMA CompressMessages ==
  ASSUME MessagesInv, NEW ok \in BOOLEAN, CompressContext(ok)
  PROVE  MessagesInv'
  <1> DEFINE ms == req.messages
             n == ScanEnd(ms)
  <1>1. DOMAIN req = Locals /\ Conversational(Raw) /\ Shaped(ms, Raw, archive)
    BY RawFacts DEF MessagesInv, RequestInv, Fits, CompressContext
  <1>2. pc' = "collapse" /\ UNCHANGED <<kinds, frozen, marks>> /\ Raw' = Raw
    BY DEF CompressContext, session, client, keyed, Raw
  <1>3. \/ UNCHANGED <<req, archive>>
        \/ /\ archive' = IF ok THEN archive \cup {n} ELSE archive
           /\ req' = [req EXCEPT !.blocked = ~ok, !.messages = IF ok THEN Compressed(ms, n) ELSE ms]
    BY DEF CompressContext, Commit
  <1>4. Shaped(Compressed(ms, n), Raw, archive \cup {n})
    BY <1>1, CompressedShaped
  <1> HIDE DEF n, ms
  <1>5. /\ DOMAIN req' = Locals /\ archive \subseteq archive'
        /\ Shaped(req'.messages, Raw, archive')
    <2>1. CASE UNCHANGED <<req, archive>>
      BY <1>1, <2>1 DEF ms
    <2>2. CASE /\ archive' = IF ok THEN archive \cup {n} ELSE archive
               /\ req' = [req EXCEPT !.blocked = ~ok, !.messages = IF ok THEN Compressed(ms, n) ELSE ms]
      <3>1. DOMAIN req' = Locals /\ req'.messages = IF ok THEN Compressed(ms, n) ELSE ms
        BY <1>1, <2>2 DEF Locals
      <3>2. QED
        BY <1>1, <1>4, <2>2, <3>1
    <2>3. QED
      BY <1>3, <2>1, <2>2
  <1>6. RequestInv'
    BY <1>2, <1>5 DEF RequestInv, Fits
  <1>7. QED
    BY <1>2, <1>5, <1>6, RequestStep

LEMMA PrefixKept ==
  ASSUME kinds \in Seq(ExchangeKinds), NEW after, NEW rows, Stands(after, Raw, Len(Raw), rows)
  PROVE  Kept(Prefix(after), Raw, rows)
  <1>1. Len(Raw) \in Nat /\ Len(Raw) >= 1 /\ Len(Raw) % 2 = 1
    BY RawFacts
  <1>2. Prefix(after).messages = after /\ Prefix(after).cutoff = Len(Raw)
    BY DEF Prefix
  <1>3. Len(Raw) \in 1..Len(Raw)
    BY <1>1
  <1>4. QED
    BY <1>1, <1>2, <1>3 DEF Kept

LEMMA MarksWrittenBound ==
  ASSUME MarksInv, NEW raw, NEW rows, archive \subseteq rows, raw = Raw,
         NEW value, Marked(value, raw, rows), NEW lost \in BOOLEAN
  PROVE  Bound(MarksWritten(value, lost), raw, rows)
  <1> DEFINE w == MarksWritten(value, lost)
  <1>1. Marked(marks.row, raw, rows)
    BY MarkedStored DEF MarksInv, Bound
  <1>2. w = [mem |-> value, row |-> IF lost THEN marks.row ELSE value, loaded |-> marks.loaded]
    BY DEF MarksWritten
  <1> HIDE DEF w
  <1>3. Bound(w, raw, rows)
    BY <1>1, <1>2 DEF Bound
  <1>4. QED
    BY <1>3 DEF w

\* What is sent, stored as the new prefix and bound to the marks of this request.
LEMMA MaterializeMessages ==
  ASSUME MessagesInv, UNCHANGED kinds, archive \subseteq archive', pc' = "sent", NEW after, NEW lost,
         Stands(after, Raw, Len(Raw), archive'),
         frozen' = Written(frozen, Prefix(after), lost),
         NEW marked, Marked(marked, Raw, archive'), NEW lostMarks \in BOOLEAN,
         marks' = MarksWritten(marked, lostMarks),
         DOMAIN req' = Locals, req'.messages = after,
         req'.action = "fallback" => Alternates(after)
  PROVE  MessagesInv'
  <1>1. kinds \in Seq(ExchangeKinds) /\ FrozenInv /\ kinds' = kinds /\ Raw' = Raw
    BY DEF MessagesInv, Raw
  <1>2. FrozenInv'
    <2>1. Kept(Prefix(after), Raw, archive')
      BY <1>1, PrefixKept
    <2>2. Kept(frozen.row, Raw, archive')
      BY <1>1, KeptStored DEF FrozenInv
    <2> DEFINE new == Prefix(after)
    <2> HIDE DEF new
    <2>3. LET w == Written(frozen, new, lost)
          IN  /\ w = [mem |-> w.mem, row |-> w.row]
              /\ Kept(w.mem, Raw, archive') /\ Kept(w.row, Raw, archive')
      <3>1. Kept(new, Raw, archive')
        BY <2>1 DEF new
      <3>2. QED
        BY <2>2, <3>1, WrittenKept
    <2>4. frozen' = Written(frozen, new, lost)
      BY DEF new
    <2>5. QED
      BY <1>1, <2>3, <2>4 DEF FrozenInv
  <1>3. MarksInv'
    <2>1. Bound(MarksWritten(marked, lostMarks), Raw, archive')
      BY MarksWrittenBound DEF MessagesInv
    <2>2. QED
      BY <1>1, <2>1 DEF MarksInv
  <1>4. RequestInv'
    BY <1>1 DEF RequestInv, Fits
  <1>5. QED
    BY <1>1, <1>2, <1>3, <1>4 DEF MessagesInv

\* The archive refused the row: the messages stay as they are.
LEMMA BlockedMessages ==
  ASSUME MessagesInv, pc \in {"collapse", "fallback"}, pc' = "fallback",
         UNCHANGED <<kinds, frozen, marks, archive>>, DOMAIN req' = Locals,
         req'.messages = req.messages
  PROVE  MessagesInv'
  <1>1. Shaped(req.messages, Raw, archive)
    BY DEF MessagesInv, RequestInv, Fits
  <1>2. Raw' = Raw
    BY DEF Raw
  <1>3. RequestInv'
    BY <1>1, <1>2 DEF RequestInv, Fits
  <1>4. QED
    BY <1>3, RequestStep

LEMMA CollapseMessages ==
  ASSUME MessagesInv, NEW ok \in BOOLEAN, NEW lost \in BOOLEAN, NEW lostMarks \in BOOLEAN,
         CollapseHistory(ok, lost, lostMarks)
  PROVE  MessagesInv'
  <1> DEFINE ms == req.messages
             c == Cut
             folded == Collapse(ms, c, c)
             after == ValidateToolPairs(folded)
  <1>1. /\ DOMAIN req = Locals /\ Conversational(Raw) /\ Shaped(ms, Raw, archive)
        /\ Len(Raw) \in Nat
    BY RawFacts DEF MessagesInv, RequestInv, Fits, CollapseHistory
  <1>2. /\ pc = "collapse" /\ c > 0
        /\ archive' = IF ok THEN archive \cup {c} ELSE archive
        /\ IF ok
           THEN /\ marks' = MarksWritten({}, lostMarks) /\ frozen' = Written(frozen, Prefix(after), lost)
                /\ req' = [req EXCEPT !.messages = after, !.action = "collapse"]
                /\ pc' = "sent"
           ELSE /\ req' = [req EXCEPT !.blocked = TRUE] /\ pc' = "fallback"
                /\ UNCHANGED <<marks, frozen>>
        /\ UNCHANGED kinds
    BY DEF CollapseHistory, session, client
  <1>3. c \in 2..(Len(Raw) - 1) /\ Raw[c + 1].results = {}
    <2>1. c = GuardedCutoff(ms, TokenFloor)
      BY <1>2 DEF Cut
    <2> DEFINE floor == TokenFloor
    <2> HIDE DEF c, floor
    <2>2. \/ GuardedCutoff(ms, floor) = 0
          \/ /\ GuardedCutoff(ms, floor) \in 2..(Len(Raw) - 1)
             /\ Raw[GuardedCutoff(ms, floor) + 1].results = {}
      BY <1>1, GuardedFacts
    <2>3. QED
      BY <1>2, <2>1, <2>2 DEF floor
  <1> HIDE DEF c, ms
  <1>4. Stands(folded, Raw, Len(Raw), archive \cup {c})
    BY <1>1, <1>3, CollapseStands
  <1> HIDE DEF folded
  <1>5. after = folded
    BY <1>4, NothingOrphaned DEF Stands, Holds
  <1> HIDE DEF after
  <1>6. CASE ok
    <2>1. Stands(after, Raw, Len(Raw), archive')
      BY <1>2, <1>4, <1>5, <1>6
    <2>2. DOMAIN req' = Locals /\ req'.messages = after /\ req'.action = "collapse"
      BY <1>1, <1>2, <1>6 DEF Locals
    <2>3. Marked({}, Raw, archive') /\ marks' = MarksWritten({}, lostMarks)
      BY <1>2, <1>6 DEF Marked
    <2>4. /\ UNCHANGED kinds /\ archive \subseteq archive' /\ pc' = "sent"
          /\ frozen' = Written(frozen, Prefix(after), lost)
      BY <1>2, <1>6
    <2>5. req'.action = "fallback" => Alternates(after)
      BY <2>2
    <2>6. QED
      BY <2>1, <2>2, <2>3, <2>4, <2>5, MaterializeMessages
  <1>7. CASE ~ok
    <2>1. DOMAIN req' = Locals /\ req'.messages = req.messages
      BY <1>1, <1>2, <1>7 DEF Locals
    <2>2. /\ pc \in {"collapse", "fallback"} /\ pc' = "fallback"
          /\ UNCHANGED <<kinds, frozen, marks, archive>>
      BY <1>2, <1>7
    <2>3. QED
      BY <2>1, <2>2, BlockedMessages
  <1>8. QED
    BY <1>6, <1>7

LEMMA FallbackMessages ==
  ASSUME MessagesInv, NEW ok \in BOOLEAN, NEW lost \in BOOLEAN, NEW lostMarks \in BOOLEAN,
         NEW aged \in SUBSET marks.mem, NEW old \in SUBSET aged,
         Fallback(ok, aged, old, lost, lostMarks)
  PROVE  MessagesInv'
  <1> DEFINE ms == req.messages
             n == Len(Raw)
             destroy == WouldDestroy(ms)
             stubbed == IF destroy THEN Stubify(ms, n) ELSE ms
             marked == marks.mem \cup IF destroy THEN Stubbed(ms) ELSE {}
             after == ValidateToolPairs(Compact(Decayed(stubbed, aged), old))
             rows == IF destroy THEN archive \cup {n} ELSE archive
  <1>1. /\ DOMAIN req = Locals /\ Conversational(Raw) /\ Shaped(ms, Raw, archive)
        /\ Marked(marks.mem, Raw, archive)
    BY RawFacts DEF MessagesInv, RequestInv, Fits, Fallback, MarksInv, Bound
  <1>2. /\ pc = "fallback"
        /\ ~ok => destroy
        /\ archive' = IF destroy /\ ok THEN archive \cup {n} ELSE archive
        /\ IF ok
           THEN /\ marks' = MarksWritten(marked, lostMarks) /\ frozen' = Written(frozen, Prefix(after), lost)
                /\ req' = [req EXCEPT !.messages = after, !.action = "fallback"]
                /\ pc' = "sent"
           ELSE /\ req' = [req EXCEPT !.blocked = TRUE]
                /\ UNCHANGED <<pc, marks, frozen>>
        /\ UNCHANGED kinds
    BY DEF Fallback, session, client
  <1>3. archive \subseteq rows
    OBVIOUS
  <1>4. Reduced(stubbed, Raw, rows)
    <2>1. CASE destroy
      <3>1. Reduced(Stubify(ms, n), Raw, archive \cup {n})
        <4> HIDE DEF ms
        <4>1. QED
          BY <1>1, StubifyReduced
      <3>2. QED
        BY <2>1, <3>1
    <2>2. CASE ~destroy
      <3>1. Reduced(ms, Raw, archive)
        <4> HIDE DEF ms
        <4>1. QED
          BY <1>1, ShapedReduced
      <3>2. QED
        BY <2>2, <3>1
    <2>3. QED
      BY <2>1, <2>2
  <1>5. Marked(aged, Raw, rows)
    <2>1. Marked(marks.mem, Raw, rows)
      <3> HIDE DEF rows
      <3>1. QED
        BY <1>1, <1>3, MarkedStored
    <2>2. QED
      BY <2>1 DEF Marked
  <1>6. Marked(marked, Raw, rows)
    <2>1. Marked(marks.mem, Raw, rows)
      <3> HIDE DEF rows
      <3>1. QED
        BY <1>1, <1>3, MarkedStored
    <2>2. CASE destroy
      <3>1. Marked(Stubbed(ms), Raw, archive \cup {n})
        <4> HIDE DEF ms
        <4>1. QED
          BY <1>1, StubbedMarked
      <3>2. rows = archive \cup {n} /\ marked = marks.mem \cup Stubbed(ms)
        BY <2>2
      <3>3. QED
        BY <2>1, <3>1, <3>2 DEF Marked
    <2>3. CASE ~destroy
      <3>1. marked = marks.mem
        BY <2>3
      <3>2. QED
        BY <2>1, <3>1
    <2>4. QED
      BY <2>2, <2>3
  <1>7. rows = archive' \/ ~ok
    BY <1>2
  <1> HIDE DEF stubbed, rows, marked
  <1>8. Stands(after, Raw, n, rows) /\ Alternates(after)
    BY <1>1, <1>4, <1>5, ReducedRepaired
  <1> HIDE DEF after, ms, destroy
  <1>9. CASE ok
    <2>1. DOMAIN req' = Locals /\ req'.messages = after
      BY <1>1, <1>2, <1>9 DEF Locals
    <2>2. /\ Stands(after, Raw, Len(Raw), archive') /\ Marked(marked, Raw, archive')
          /\ marks' = MarksWritten(marked, lostMarks)
      BY <1>2, <1>6, <1>7, <1>8, <1>9
    <2>3. /\ UNCHANGED kinds /\ archive \subseteq archive' /\ pc' = "sent"
          /\ frozen' = Written(frozen, Prefix(after), lost)
      BY <1>2, <1>9
    <2>4. req'.action = "fallback" => Alternates(after)
      BY <1>8
    <2>5. QED
      BY <2>1, <2>2, <2>3, <2>4, MaterializeMessages
  <1>10. CASE ~ok
    <2>1. DOMAIN req' = Locals /\ req'.messages = req.messages
      BY <1>1, <1>2, <1>10 DEF Locals
    <2>2. /\ pc \in {"collapse", "fallback"} /\ pc' = "fallback"
          /\ UNCHANGED <<kinds, frozen, marks, archive>>
      BY <1>2, <1>10
    <2>3. QED
      BY <2>1, <2>2, BlockedMessages
  <1>11. QED
    BY <1>9, <1>10

LEMMA SentMessages ==
  ASSUME MessagesInv, SendUnreplaced \/ Direct
  PROVE  MessagesInv'
  <1>1. /\ DOMAIN req = Locals /\ Conversational(Raw)
        /\ pc = "fallback" => Shaped(req.messages, Raw, archive)
        /\ pc = "direct" => Stands(req.messages, Raw, Len(Raw), archive)
    BY RawFacts DEF MessagesInv, RequestInv, Fits
  <1>2. pc' = "sent" /\ UNCHANGED <<kinds, frozen, marks, archive>> /\ Raw' = Raw
    BY DEF SendUnreplaced, Direct, session, client, keyed, Raw
  <1>3. /\ DOMAIN req' = Locals /\ Stands(req'.messages, Raw, Len(Raw), archive)
        /\ req'.action # "fallback"
    <2>1. CASE SendUnreplaced
      <3>1. pc = "fallback" /\ req' = [req EXCEPT !.action = "fail_closed"]
        BY <2>1 DEF SendUnreplaced
      <3>2. DOMAIN req' = Locals /\ req'.messages = req.messages /\ req'.action = "fail_closed"
        BY <1>1, <3>1 DEF Locals
      <3>3. Stands(req.messages, Raw, Len(Raw), archive)
        BY <1>1, <3>1, ShapedStands
      <3>4. QED
        BY <3>2, <3>3
    <2>2. CASE Direct
      <3>1. /\ pc = "direct"
            /\ req' = [req EXCEPT !.messages = ValidateToolPairs(@),
                                  !.action = IF @ = "light" THEN "light" ELSE "direct"]
        BY <2>2 DEF Direct
      <3>2. ValidateToolPairs(req.messages) = req.messages
        BY <1>1, <3>1, NothingOrphaned DEF Stands, Holds
      <3>3. /\ DOMAIN req' = Locals /\ req'.messages = ValidateToolPairs(req.messages)
            /\ req'.action = IF req.action = "light" THEN "light" ELSE "direct"
        BY <1>1, <3>1 DEF Locals
      <3>4. QED
        BY <1>1, <3>1, <3>2, <3>3
    <2>3. QED
      BY <2>1, <2>2
  <1>4. RequestInv'
    BY <1>2, <1>3 DEF RequestInv, Fits
  <1>5. QED
    BY <1>2, <1>4, RequestStep

LEMMA EndMessages ==
  ASSUME MessagesInv,
         \/ NoCollapse \/ Refuse \/ NoAnswer
         \/ \E factor \in Factors, lost \in BOOLEAN : Answer(factor, lost)
  PROVE  MessagesInv'
  <1>1. UNCHANGED <<kinds, frozen, marks, archive>> /\ Raw' = Raw
    BY DEF NoCollapse, Refuse, NoAnswer, Answer, session, client, keyed, Raw
  <1>2. RequestInv'
    <2>1. CASE NoCollapse
      <3>1. pc = "collapse" /\ pc' = "fallback" /\ req' = req
        BY <2>1 DEF NoCollapse
      <3>2. DOMAIN req = Locals /\ Shaped(req.messages, Raw, archive)
        BY <3>1 DEF MessagesInv, RequestInv, Fits
      <3>3. QED
        BY <1>1, <3>1, <3>2 DEF RequestInv, Fits
    <2>2. CASE ~NoCollapse
      <3>1. pc' = "idle" /\ req' = Blank
        BY <2>2 DEF Refuse, NoAnswer, Answer
      <3>2. QED
        BY <3>1, NoRequest
    <2>3. QED
      BY <2>1, <2>2
  <1>3. QED
    BY <1>1, <1>2, RequestStep

LEMMA LossMessages ==
  ASSUME MessagesInv, Evict \/ Restart
  PROVE  MessagesInv'
  <1>1. /\ kinds \in Seq(ExchangeKinds) /\ FrozenInv /\ MarksInv /\ RequestInv
        /\ frozen = [mem |-> frozen.mem, row |-> frozen.row] /\ Kept(frozen.row, Raw, archive)
    BY DEF MessagesInv, FrozenInv
  <1>2. /\ frozen' = [frozen EXCEPT !.mem = Unloaded] /\ UNCHANGED <<kinds, archive>> /\ Raw' = Raw
        /\ marks' = marks \/ marks' = [marks EXCEPT !.mem = {}, !.loaded = FALSE]
    BY DEF Evict, Restart, session, client, Raw
  <1>3. frozen' = [mem |-> Unloaded, row |-> frozen.row]
    BY <1>1, <1>2
  <1>4. FrozenInv'
    BY <1>1, <1>2, <1>3 DEF FrozenInv
  <1>5. MarksInv'
    <2>1. CASE marks' = marks
      BY <1>1, <1>2, <2>1 DEF MarksInv
    <2>2. CASE marks' = [marks EXCEPT !.mem = {}, !.loaded = FALSE]
      <3>1. marks' = [mem |-> {}, row |-> marks.row, loaded |-> FALSE]
        BY <1>1, <2>2 DEF MarksInv, Bound
      <3>2. QED
        BY <1>1, <1>2, <3>1 DEF MarksInv, Bound, Marked
    <2>3. QED
      BY <1>2, <2>1, <2>2
  <1>6. RequestInv'
    <2>1. CASE Evict
      <3>1. pc' = pc /\ req' = req
        BY <2>1 DEF Evict
      <3>2. QED
        BY <1>1, <1>2, <3>1 DEF RequestInv
    <2>2. CASE Restart
      <3>1. pc' = "idle" /\ req' = Blank
        BY <2>2 DEF Restart
      <3>2. QED
        BY <3>1, NoRequest
    <2>3. QED
      BY <2>1, <2>2
  <1>7. QED
    BY <1>1, <1>2, <1>4, <1>5, <1>6 DEF MessagesInv

LEMMA NextMessages ==
  ASSUME MessagesInv, [Next]_vars
  PROVE  MessagesInv'
  <1>1. CASE \/ \E kind \in ExchangeKinds, t \in Tops, spelling \in 0..1 : Ask(kind, t, spelling)
             \/ Resend
    BY <1>1, ClientMessages
  <1>2. CASE PassThrough
    BY <1>2, PassThroughMessages
  <1>3. CASE \/ \E lostPrefix, lostBaseline, unread \in BOOLEAN :
                  StartUnsafe(lostPrefix, lostBaseline, unread)
             \/ \E failed, unread \in BOOLEAN : StartSafe(failed, unread)
    BY <1>3, StartMessages
  <1>4. CASE \E failed, lost \in BOOLEAN : Splice(failed, lost)
    BY <1>4, SpliceMessages
  <1>5. CASE \E waited, lost \in BOOLEAN : Decide(waited, lost)
    BY <1>5, DecideMessages
  <1>6. CASE Recall
    BY <1>6, RecallMessages
  <1>7. CASE \E ok \in BOOLEAN : CompressContext(ok)
    BY <1>7, CompressMessages
  <1>8. CASE \E ok, lost, lostMarks \in BOOLEAN : CollapseHistory(ok, lost, lostMarks)
    BY <1>8, CollapseMessages
  <1>9. CASE \E ok, lost, lostMarks \in BOOLEAN, aged \in SUBSET marks.mem :
               \E old \in SUBSET aged : Fallback(ok, aged, old, lost, lostMarks)
    BY <1>9, FallbackMessages
  <1>10. CASE SendUnreplaced \/ Direct
    BY <1>10, SentMessages
  <1>11. CASE \/ NoCollapse \/ Refuse \/ NoAnswer
              \/ \E factor \in Factors, lost \in BOOLEAN : Answer(factor, lost)
    BY <1>11, EndMessages
  <1>12. CASE Evict \/ Restart
    BY <1>12, LossMessages
  <1>13. CASE UNCHANGED vars
    <2>1. Raw' = Raw
      BY <1>13 DEF vars, Raw
    <2>2. QED
      BY <1>13, <2>1 DEF vars, MessagesInv, FrozenInv, MarksInv, RequestInv
  <1>14. QED
    BY <1>1, <1>2, <1>3, <1>4, <1>5, <1>6, <1>7, <1>8, <1>9, <1>10, <1>11, <1>12, <1>13 DEF Next

\* Whatever is spliced, folded, stubbed, merged or lost, what is kept and what is on its
\* way stands for the conversation of the client.
THEOREM MessagesInvariant == Spec => []MessagesInv
  <1>1. Init => MessagesInv
    BY InitMessages
  <1>2. MessagesInv /\ [Next]_vars => MessagesInv'
    BY NextMessages
  <1>3. QED
    BY <1>1, <1>2, PTL DEF Spec

-----------------------------------------------------------------------------
(* What the runs check, for every conversation                             *)

LEMMA MessagesProperties ==
  ASSUME MessagesInv
  PROVE  /\ HistoryIsWhole /\ ReplacedIsStored /\ ResultsHaveUses
         /\ ActivePairIsWhole /\ FallbackAlternates
  <1> DEFINE ms == req.messages
             n == Len(Raw)
  <1>1. /\ Fits(pc, ms, req.spliced, req.trigger, req.action, Raw, archive)
        /\ Conversational(Raw) /\ n \in Nat /\ n >= 1
    BY RawFacts DEF MessagesInv, RequestInv
  <1>2. pc = "sent" => Stands(ms, Raw, n, archive)
    BY <1>1 DEF Fits
  <1>3. Rows(archive) = Archived
    BY DEF Rows, Archived
  <1>4. HistoryIsWhole
    <2>1. SUFFICES ASSUME pc = "sent"
            PROVE  /\ 1..n \subseteq PositionsOf(ms) \cup Archived
                   /\ \A i \in DOMAIN ms : \A j \in 1..(i - 1) :
                        \A p \in ms[j].at, q \in ms[i].at : p < q
      BY DEF HistoryIsWhole
    <2>2. /\ ms \in Seq(Message) /\ DOMAIN ms = 1..Len(ms) /\ Len(ms) \in Nat
          /\ \A p \in 1..n : p \in Rows(archive) \/ \E i \in 1..Len(ms) : p \in ms[i].at
          /\ \A i, j \in 1..Len(ms) : j < i => \A p \in ms[j].at, q \in ms[i].at : p < q
      BY <1>2, <2>1 DEF Stands, Holds, Ordered
    <2> HIDE DEF ms, n
    <2>3. 1..n \subseteq PositionsOf(ms) \cup Archived
      BY <1>3, <2>2 DEF PositionsOf
    <2>4. ASSUME NEW i \in DOMAIN ms, NEW j \in 1..(i - 1)
          PROVE  \A p \in ms[j].at, q \in ms[i].at : p < q
      <3>1. j \in 1..Len(ms) /\ i \in 1..Len(ms) /\ j < i
        BY <2>2, <2>4
      <3>2. QED
        BY <2>2, <3>1
    <2>5. QED
      BY <2>3, <2>4
  <1>5. ReplacedIsStored
    <2>1. DOMAIN ms = {} \/ (/\ ms \in Seq(Message)
                             /\ \A i \in 1..Len(ms) : Stored(ms[i], archive))
      <3>1. CASE pc \in {"idle", "begin", "splice"}
        BY <1>1, <3>1 DEF Fits
      <3>2. CASE pc \in {"decide", "recall", "direct", "sent"}
        BY <1>1, <3>2 DEF Fits, Stands, Holds
      <3>3. CASE pc \in {"compress", "collapse", "fallback"}
        <4>1. Shaped(ms, Raw, archive)
          BY <1>1, <3>3 DEF Fits
        <4> HIDE DEF ms
        <4>2. QED
          BY <1>1, <4>1 DEF Shaped
      <3>4. QED
        BY <1>1, <3>1, <3>2, <3>3 DEF Fits
    <2>2. \A i \in DOMAIN ms : Stored(ms[i], archive)
      BY <2>1
    <2>3. QED
      BY <1>3, <2>2 DEF ReplacedIsStored, Stored, Replacing
  <1>6. ResultsHaveUses
    <2>1. SUFFICES ASSUME pc = "sent", NEW i \in DOMAIN ms
                   PROVE  ms[i].results \subseteq UNION {ms[j].uses : j \in 1..(i - 1)}
      BY DEF ResultsHaveUses
    <2>2. /\ DOMAIN ms = 1..Len(ms) /\ Len(ms) \in Nat
          /\ \A k \in 1..Len(ms) : \A u \in ms[k].results :
               \E j \in 1..Len(ms) : j < k /\ u \in ms[j].uses
      BY <1>2, <2>1 DEF Stands, Holds, Answering
    <2> HIDE DEF ms
    <2>3. ASSUME NEW u \in ms[i].results PROVE \E j \in 1..(i - 1) : u \in ms[j].uses
      <3>1. PICK j \in 1..Len(ms) : j < i /\ u \in ms[j].uses
        BY <2>1, <2>2
      <3>2. j \in 1..(i - 1)
        BY <2>1, <2>2, <3>1
      <3>3. QED
        BY <3>1, <3>2
    <2>4. QED
      BY <2>3
  <1>7. ActivePairIsWhole
    <2>1. SUFFICES ASSUME pc = "sent", HasActivePair(Raw)
                   PROVE  /\ Len(ms) >= 2 /\ Raw[n].results \subseteq ms[Len(ms)].results
                          /\ Raw[n - 1].uses \subseteq ms[Len(ms) - 1].uses
      BY DEF ActivePairIsWhole
    <2>2. Raw[n].results # {}
      BY <2>1 DEF HasActivePair
    <2>3. QED
      BY <1>2, <2>1, <2>2 DEF Stands, EndsAs
  <1>8. FallbackAlternates
    <2>1. SUFFICES ASSUME pc = "sent", req.action = "fallback", NEW i \in 1..(Len(ms) - 1)
                   PROVE  ms[i].role # ms[i + 1].role
      BY DEF FallbackAlternates
    <2>2. Alternates(ms) /\ ms \in Seq(Message)
      BY <1>1, <1>2, <2>1 DEF Fits, Stands, Holds
    <2> HIDE DEF ms
    <2>3. i \in 1..Len(ms) /\ i + 1 \in 1..Len(ms)
      BY <2>1, <2>2
    <2>4. QED
      BY <2>2, <2>3 DEF Alternates
  <1>9. QED
    BY <1>4, <1>5, <1>6, <1>7, <1>8

\* Every message the client sent is on the wire or in an archive row, and what is on the
\* wire is there once and in its order.
THEOREM HistoryIsWholeCorrect == Spec => []HistoryIsWhole
  BY MessagesInvariant, MessagesProperties, PTL

\* Nothing is replaced whose text is not in a committed archive row.
THEOREM ReplacedIsStoredCorrect == Spec => []ReplacedIsStored
  BY MessagesInvariant, MessagesProperties, PTL

\* A tool result that goes out comes after the use it answers.
THEOREM ResultsHaveUsesCorrect == Spec => []ResultsHaveUses
  BY MessagesInvariant, MessagesProperties, PTL

\* The tool use that is being answered goes out with its answer.
THEOREM ActivePairIsWholeCorrect == Spec => []ActivePairIsWhole
  BY MessagesInvariant, MessagesProperties, PTL

\* Roles alternate on what the fallback sends.
THEOREM FallbackAlternatesCorrect == Spec => []FallbackAlternates
  BY MessagesInvariant, MessagesProperties, PTL

-----------------------------------------------------------------------------
(* The baseline                                                            *)

\* A fold that takes the last element first has a value on every set of indices.
IsSum(it, ms, n) ==
  it = [s \in SUBSET (1..n) |->
          IF s = {} THEN 0 ELSE it[s \ {Max(s)}] + ms[Max(s)].weight]

LEMMA SumExists ==
  ASSUME NEW ms \in Seq(Message), NEW n \in Nat, n <= Len(ms)
  PROVE  \E it \in [SUBSET (1..n) -> Nat] : IsSum(it, ms, n)
  <1> DEFINE Summed(k) == \E it \in [SUBSET (1..k) -> Nat] : IsSum(it, ms, k)
             S == {k \in Nat : k <= Len(ms) => Summed(k)}
  <1>1. 0 \in S
    <2> DEFINE it == [s \in SUBSET (1..0) |-> 0]
    <2>1. 1..0 = {} /\ SUBSET (1..0) = {{}}
      OBVIOUS
    <2>2. it \in [SUBSET (1..0) -> Nat]
      <3>1. 0 \in Nat
        OBVIOUS
      <3>2. QED
        BY <3>1, Zenon
    <2>3. IsSum(it, ms, 0)
      <3>1. \A s \in SUBSET (1..0) : s = {}
        BY <2>1
      <3>2. it = [s \in SUBSET (1..0) |->
                   IF s = {} THEN 0 ELSE it[s \ {Max(s)}] + ms[Max(s)].weight]
        BY <3>1, Zenon
      <3>3. QED
        BY <3>2 DEF IsSum
    <2>4. QED
      BY <2>2, <2>3
  <1>2. \A k \in Nat : k \in S => k + 1 \in S
    <2>1. SUFFICES ASSUME NEW k \in Nat, Summed(k), k + 1 <= Len(ms) PROVE Summed(k + 1)
      <3> HIDE DEF Summed
      <3>1. \A k \in Nat : k + 1 \in Nat /\ (k + 1 <= Len(ms) => k <= Len(ms))
        OBVIOUS
      <3>2. QED
        BY <3>1
    <2> DEFINE e == k + 1
    <2>2. PICK it \in [SUBSET (1..k) -> Nat] : IsSum(it, ms, k)
      BY <2>1
    <2>3. /\ e \in Nat /\ e \in 1..e /\ e \notin 1..k /\ 1..k \subseteq 1..e
          /\ \A x \in 1..e : x # e => x \in 1..k
          /\ \A x \in 1..e : x <= e
          /\ \A x \in 1..k : x < e
      OBVIOUS
    <2>4. ms[e].weight \in Nat
      <3>1. e \in 1..Len(ms)
        BY <2>1
      <3>2. ms[e] \in Message
        BY <3>1
      <3>3. QED
        BY <3>2 DEF Message
    <2> HIDE DEF e, S
    <2> DEFINE more == [s \in SUBSET (1..e) |->
                          IF e \in s THEN it[s \ {e}] + ms[e].weight ELSE it[s]]
    <2>5. \A s \in SUBSET (1..e) : s \ {e} \in SUBSET (1..k) /\ (e \notin s => s \in SUBSET (1..k))
      BY <2>3
    <2>6. more \in [SUBSET (1..e) -> Nat]
      BY <2>2, <2>4, <2>5
    <2>7. \A s \in SUBSET (1..e) : e \in s => Max(s) = e
      <3>1. SUFFICES ASSUME NEW s \in SUBSET (1..e), e \in s PROVE Max(s) = e
        OBVIOUS
      <3>2. s \in SUBSET (0..e) /\ s # {}
        BY <2>3, <3>1
      <3>3. Max(s) \in s /\ e <= Max(s)
        BY <2>3, <3>1, <3>2, Extrema
      <3>4. Max(s) <= e /\ Max(s) \in Nat
        <4>1. Max(s) \in 1..e
          BY <3>1, <3>3
        <4>2. QED
          BY <2>3, <4>1
      <3>5. QED
        BY <2>3, <3>3, <3>4
    <2>8. \A s \in SUBSET (1..k) : s # {} => Max(s) \in s
      <3>1. SUFFICES ASSUME NEW s \in SUBSET (1..k), s # {} PROVE Max(s) \in s
        OBVIOUS
      <3>2. s \in SUBSET (0..k)
        OBVIOUS
      <3>3. QED
        BY <3>1, <3>2, Extrema
    <2>9. ASSUME NEW s \in SUBSET (1..e)
          PROVE  more[s] = IF s = {} THEN 0 ELSE more[s \ {Max(s)}] + ms[Max(s)].weight
      <3>1. CASE e \in s
        <4>1. Max(s) = e /\ s # {}
          BY <2>7, <3>1
        <4>2. more[s] = it[s \ {e}] + ms[e].weight
          BY <3>1
        <4>3. more[s \ {e}] = it[s \ {e}]
          BY <2>9
        <4> HIDE DEF more
        <4>4. QED
          BY <4>1, <4>2, <4>3
      <3>2. CASE e \notin s
        <4>1. s \in SUBSET (1..k) /\ more[s] = it[s]
          BY <2>5, <3>2
        <4>2. it[s] = IF s = {} THEN 0 ELSE it[s \ {Max(s)}] + ms[Max(s)].weight
          BY <2>2, <4>1 DEF IsSum
        <4>3. s # {} => more[s \ {Max(s)}] = it[s \ {Max(s)}]
          BY <2>5, <2>9, <3>2
        <4> HIDE DEF more
        <4>4. QED
          BY <4>1, <4>2, <4>3
      <3>3. QED
        BY <3>1, <3>2
    <2>10. IsSum(more, ms, e)
      <3>1. more = [s \in SUBSET (1..e) |->
                      IF s = {} THEN 0 ELSE more[s \ {Max(s)}] + ms[Max(s)].weight]
        BY <2>9
      <3> HIDE DEF more
      <3>2. QED
        BY <3>1 DEF IsSum
    <2>11. QED
      BY <2>6, <2>10 DEF e
  <1>3. \A k \in Nat : k \in S
    <2> HIDE DEF S
    <2>1. QED
      BY <1>1, <1>2, NatSetInduction
  <1>4. QED
    BY <1>3

LEMMA TokensNat ==
  ASSUME NEW ms \in Seq(Message)
  PROVE  Tokens(ms) \in Nat
  <1> DEFINE n == Len(ms)
             it == CHOOSE f : IsSum(f, ms, n)
  <1>1. n \in Nat /\ DOMAIN ms = 1..n
    OBVIOUS
  <1>2. Tokens(ms) = it[1..n]
    BY <1>1 DEF Tokens, FoldLeft, MapThenFoldSet, IsSum
  <1>3. \E f \in [SUBSET (1..n) -> Nat] : IsSum(f, ms, n)
    <2>1. n <= Len(ms)
      BY <1>1
    <2> HIDE DEF n
    <2>2. QED
      BY <1>1, <2>1, SumExists
  <1> HIDE DEF n
  <1>4. IsSum(it, ms, n)
    BY <1>3
  <1> HIDE DEF it
  <1>5. \A k \in Nat : k <= n => it[1..k] \in Nat
    <2> DEFINE S == {k \in Nat : k <= n => it[1..k] \in Nat}
    <2>1. \A s \in SUBSET (1..n) :
            it[s] = IF s = {} THEN 0 ELSE it[s \ {Max(s)}] + ms[Max(s)].weight
      BY <1>4 DEF IsSum
    <2>2. 0 \in S
      <3>1. 1..0 = {} /\ {} \in SUBSET (1..n)
        OBVIOUS
      <3>2. it[{}] = 0
        BY <2>1, <3>1
      <3>3. QED
        BY <3>1, <3>2
    <2>3. \A k \in Nat : k \in S => k + 1 \in S
      <3>1. SUFFICES ASSUME NEW k \in Nat, it[1..k] \in Nat, k + 1 <= n PROVE it[1..(k + 1)] \in Nat
        <4>1. \A k \in Nat : k + 1 \in Nat /\ (k + 1 <= n => k <= n)
          BY <1>1
        <4>2. QED
          BY <4>1
      <3> DEFINE e == k + 1
      <3>2. /\ e \in Nat /\ 1..e \in SUBSET (1..n) /\ 1..e # {} /\ (1..e) \ {e} = 1..k
            /\ e \in 1..e /\ e \in 1..n /\ 1..e \in SUBSET (0..e) /\ \A x \in 1..e : x <= e
        <4>1. e \in Nat /\ e \in 1..e /\ e \in 1..n /\ \A x \in 1..e : x <= e
          BY <1>1, <3>1
        <4>2. 1..e \in SUBSET (1..n) /\ 1..e \in SUBSET (0..e)
          BY <1>1, <3>1
        <4>3. (1..e) \ {e} = 1..k
          BY <1>1, <3>1
        <4>4. QED
          BY <4>1, <4>2, <4>3
      <3>3. ms[e].weight \in Nat
        <4>1. ms[e] \in Message
          BY <3>2 DEF n
        <4>2. QED
          BY <4>1 DEF Message
      <3> HIDE DEF e
      <3>4. Max(1..e) = e
        <4>1. Max(1..e) \in 1..e /\ e <= Max(1..e)
          BY <3>2, Extrema
        <4>2. QED
          BY <3>2, <4>1
      <3>5. it[1..e] = it[1..k] + ms[e].weight
        BY <2>1, <3>2, <3>4
      <3>6. QED
        BY <3>1, <3>3, <3>5 DEF e
    <2>4. \A k \in Nat : k \in S
      <3> HIDE DEF S
      <3>1. QED
        BY <2>2, <2>3, NatSetInduction
    <2>5. QED
      BY <2>4
  <1>6. QED
    BY <1>1, <1>2, <1>5

\* b is what the last measured answer left, and counts no more messages than there are.
Recent(b, last, raw) ==
  b.kind = "exact" /\ b.top = last.top /\ b.print = last.print
    /\ b.count \in Nat /\ b.count <= Len(raw)

Loaded(state) == IF state.mem = Unloaded THEN state.row ELSE state.mem

BaselineInv ==
  /\ top \in Tops /\ wording \in 0..1
  /\ base = [mem |-> base.mem, row |-> base.row]
  /\ answered # Nothing => Recent(Loaded(base), answered, Raw)
  /\ answered # Nothing /\ pc \in {"splice", "decide"} =>
       req.baseline.kind = "failed" \/ Recent(req.baseline, answered, Raw)

LEMMA InitBaseline ==
  ASSUME Init
  PROVE  BaselineInv /\ AnswerIsUsed
  <1>1. top \in Tops /\ wording = 0 /\ answered = Nothing /\ pc = "idle"
        /\ base \in [mem : {Unloaded}, row : EarlierRows]
    BY DEF Init
  <1>2. base = [mem |-> base.mem, row |-> base.row]
    BY <1>1
  <1>3. QED
    BY <1>1, <1>2 DEF BaselineInv, AnswerIsUsed

\* Nothing is known of an answer, or the same as before.
LEMMA AnsweredStep ==
  ASSUME BaselineInv, kinds \in Seq(ExchangeKinds),
         kinds' = kinds \/ \E kind \in ExchangeKinds : kinds' = Append(kinds, kind),
         top' \in Tops, wording' \in 0..1,
         base' = [mem |-> base'.mem, row |-> base'.row],
         answered' # Nothing => answered' = answered /\ Loaded(base') = Loaded(base),
         pc' \notin {"splice", "decide"}
  PROVE  BaselineInv'
  <1>1. ASSUME answered' # Nothing PROVE Recent(Loaded(base'), answered', Raw')
    <2>1. Recent(Loaded(base'), answered', Raw)
      BY <1>1 DEF BaselineInv
    <2>2. Len(Raw) \in Nat /\ (Raw' = Raw \/ Len(Raw') = Len(Raw) + 2)
      BY RawFacts, RawGrows DEF Raw
    <2>3. QED
      BY <2>1, <2>2 DEF Recent
  <1>2. QED
    BY <1>1 DEF BaselineInv

\* The usage of an answer to these system and tools, in this spelling, decides.
LEMMA ExactDecides ==
  ASSUME NEW candidate, Recent(req.baseline, [top |-> top, print |-> wording], Raw)
  PROVE  Pressure(candidate)[1] = "actual_plus_delta"
  BY DEF Pressure, Recent

LEMMA AnswerTyped ==
  ASSUME MessagesInv, BaselineInv, pc = "sent", NEW factor \in Factors
  PROVE  NewBaseline((Estimate * factor) \div 10) # Unloaded
         /\ NewBaseline((Estimate * factor) \div 10).count = Len(Raw) /\ Len(Raw) \in Nat
  <1> DEFINE actual == (Estimate * factor) \div 10
  <1>1. req.messages \in Seq(Message) /\ Len(Raw) \in Nat
    BY RawFacts DEF MessagesInv, RequestInv, Fits, Stands, Holds
  <1>2. Tokens(req.messages) \in Nat
    BY <1>1, TokensNat
  <1>3. top \in Nat /\ wording \in Nat /\ factor \in Nat
    BY PipelineAssumption DEF BaselineInv
  <1>4. Estimate \in Nat
    BY <1>2, <1>3 DEF Estimate
  <1>5. actual \in Nat
    <2> DEFINE product == Estimate * factor
    <2>1. product \in Nat
      BY <1>3, <1>4
    <2> HIDE DEF product
    <2>2. product \div 10 \in Nat
      BY <2>1
    <2>3. QED
      BY <2>2 DEF product
  <1> HIDE DEF actual
  <1>6. NewBaseline(actual) \in [kind : {"none", "failed", "legacy", "conservative", "exact"},
                                 actual : Nat, count : Nat, top : Nat, print : Nat]
    BY <1>1, <1>3, <1>5 DEF NewBaseline, Baseline
  <1>7. NewBaseline(actual).count = Len(Raw)
    BY DEF NewBaseline, Baseline
  <1>8. QED
    BY <1>1, <1>6, <1>7, NothingAssumption DEF actual

LEMMA NextBaseline ==
  ASSUME MessagesInv, BaselineInv, [Next]_vars
  PROVE  BaselineInv'
  <1>1. /\ top \in Tops /\ wording \in 0..1 /\ base = [mem |-> base.mem, row |-> base.row]
        /\ answered # Nothing => Recent(Loaded(base), answered, Raw)
        /\ answered # Nothing /\ pc \in {"splice", "decide"} =>
             req.baseline.kind = "failed" \/ Recent(req.baseline, answered, Raw)
        /\ kinds \in Seq(ExchangeKinds) /\ DOMAIN req = Locals
    BY DEF BaselineInv, MessagesInv, RequestInv
  <1>2. CASE \/ \E kind \in ExchangeKinds, t \in Tops, spelling \in 0..1 : Ask(kind, t, spelling)
             \/ Resend
    <2>1. /\ top' \in Tops /\ wording' \in 0..1 /\ UNCHANGED <<base, answered>> /\ pc' = "begin"
          /\ kinds' = kinds \/ \E kind \in ExchangeKinds : kinds' = Append(kinds, kind)
      BY <1>1, <1>2 DEF Ask, Resend, Send, keyed
    <2>2. QED
      BY <1>1, <2>1, AnsweredStep
  <1>3. CASE \/ PassThrough \/ Recall \/ NoCollapse \/ Refuse \/ SendUnreplaced \/ Direct
             \/ NoAnswer \/ Evict
             \/ \E ok \in BOOLEAN : CompressContext(ok)
             \/ \E ok, lost, lostMarks \in BOOLEAN : CollapseHistory(ok, lost, lostMarks)
             \/ \E ok, lost, lostMarks \in BOOLEAN, aged \in SUBSET marks.mem :
                  \E old \in SUBSET aged : Fallback(ok, aged, old, lost, lostMarks)
    <2>1. UNCHANGED <<kinds, top, wording, base, answered>>
      <3>1. CASE PassThrough \/ Recall \/ NoCollapse \/ Refuse
        BY <3>1 DEF PassThrough, Recall, NoCollapse, Refuse, session, client, keyed
      <3>2. CASE SendUnreplaced \/ Direct \/ NoAnswer \/ Evict
        BY <3>2 DEF SendUnreplaced, Direct, NoAnswer, Evict, session, client, keyed
      <3>3. CASE \E ok \in BOOLEAN : CompressContext(ok)
        BY <3>3 DEF CompressContext, session, client, keyed
      <3>4. ASSUME NEW ok \in BOOLEAN, NEW lost \in BOOLEAN, NEW lostMarks \in BOOLEAN,
                   CollapseHistory(ok, lost, lostMarks)
            PROVE  UNCHANGED <<kinds, top, wording, base, answered>>
        BY <3>4 DEF CollapseHistory, session, client
      <3>5. ASSUME NEW ok \in BOOLEAN, NEW lost \in BOOLEAN, NEW lostMarks \in BOOLEAN,
                   NEW aged, NEW old, Fallback(ok, aged, old, lost, lostMarks)
            PROVE  UNCHANGED <<kinds, top, wording, base, answered>>
        BY <3>5 DEF Fallback, session, client
      <3>6. QED
        BY <1>3, <3>1, <3>2, <3>3, <3>4, <3>5
    <2>2. pc' \notin {"splice", "decide"}
      <3>1. CASE PassThrough \/ Recall \/ NoCollapse \/ Refuse \/ NoAnswer \/ Evict
        BY <3>1 DEF PassThrough, Recall, NoCollapse, Refuse, NoAnswer, Evict
      <3>2. CASE SendUnreplaced \/ Direct \/ \E ok \in BOOLEAN : CompressContext(ok)
        BY <3>2 DEF SendUnreplaced, Direct, CompressContext
      <3>3. ASSUME NEW ok \in BOOLEAN, NEW lost \in BOOLEAN, NEW lostMarks \in BOOLEAN,
                   CollapseHistory(ok, lost, lostMarks)
            PROVE  pc' \notin {"splice", "decide"}
        BY <3>3 DEF CollapseHistory
      <3>4. ASSUME NEW ok \in BOOLEAN, NEW lost \in BOOLEAN, NEW lostMarks \in BOOLEAN,
                   NEW aged, NEW old, Fallback(ok, aged, old, lost, lostMarks)
            PROVE  pc' \notin {"splice", "decide"}
        BY <3>4 DEF Fallback
      <3>5. QED
        BY <1>3, <3>1, <3>2, <3>3, <3>4
    <2>3. QED
      BY <1>1, <2>1, <2>2, AnsweredStep
  <1>4. ASSUME NEW lostPrefix \in BOOLEAN, NEW lostBaseline \in BOOLEAN,
               NEW unread \in BOOLEAN, StartUnsafe(lostPrefix, lostBaseline, unread)
        PROVE  BaselineInv'
    <2>1. UNCHANGED <<top, wording>> /\ answered' = Nothing
          /\ base' = Written(base, NoBaseline, lostBaseline)
      BY <1>4 DEF StartUnsafe, client
    <2>2. base' = [mem |-> base'.mem, row |-> base'.row]
      BY <2>1 DEF Written
    <2>3. QED
      BY <1>1, <2>1, <2>2 DEF BaselineInv
  <1>5. ASSUME NEW failed \in BOOLEAN, NEW unread \in BOOLEAN, StartSafe(failed, unread)
        PROVE  BaselineInv'
    <2>1. /\ UNCHANGED <<kinds, top, wording, answered>> /\ Raw' = Raw
          /\ base' = IF failed \/ base.mem # Unloaded THEN base ELSE [base EXCEPT !.mem = base.row]
          /\ req' = [req EXCEPT !.baseline = IF failed THEN ReadFailed ELSE base'.mem]
          /\ failed => base.mem = Unloaded
      BY <1>5 DEF StartSafe, session, client, Raw
    <2>2. /\ base' = [mem |-> base'.mem, row |-> base'.row] /\ Loaded(base') = Loaded(base)
          /\ ~failed => base'.mem = Loaded(base)
      <3>1. CASE failed \/ base.mem # Unloaded
        <4>1. base' = base
          BY <2>1, <3>1
        <4>2. ~failed => base.mem = Loaded(base)
          BY <3>1 DEF Loaded
        <4>3. QED
          BY <1>1, <4>1, <4>2
      <3>2. CASE ~(failed \/ base.mem # Unloaded)
        <4>1. base' = [mem |-> base.row, row |-> base.row]
          BY <1>1, <2>1, <3>2
        <4>2. QED
          BY <3>2, <4>1 DEF Loaded
      <3>3. QED
        BY <3>1, <3>2
    <2>3. req'.baseline = IF failed THEN ReadFailed ELSE base'.mem
      BY <1>1, <2>1 DEF Locals
    <2>4. answered' # Nothing =>
            req'.baseline.kind = "failed" \/ Recent(req'.baseline, answered', Raw')
      <3>1. CASE failed
        <4>1. req'.baseline.kind = "failed"
          BY <2>3, <3>1 DEF ReadFailed, Baseline
        <4>2. QED
          BY <4>1
      <3>2. CASE ~failed
        BY <1>1, <2>1, <2>2, <2>3, <3>2
      <3>3. QED
        BY <3>1, <3>2
    <2>5. QED
      BY <1>1, <2>1, <2>2, <2>4 DEF BaselineInv
  <1>6. ASSUME NEW failed \in BOOLEAN, NEW lost \in BOOLEAN, Splice(failed, lost)
        PROVE  BaselineInv'
    <2>1. UNCHANGED <<kinds, top, wording, answered, base>> /\ Raw' = Raw /\ pc = "splice"
      BY <1>6 DEF Splice, session, client, Raw
    <2>2. req'.baseline = req.baseline
      BY <1>1, <1>6 DEF Splice, Locals
    <2>3. QED
      BY <1>1, <2>1, <2>2 DEF BaselineInv
  <1>7. ASSUME NEW waited \in BOOLEAN, NEW lost \in BOOLEAN, Decide(waited, lost)
        PROVE  BaselineInv'
    <2>1. UNCHANGED <<kinds, top, wording, answered, base>> /\ pc' = "recall"
      BY <1>7 DEF Decide, session, client
    <2>2. QED
      BY <1>1, <2>1, AnsweredStep
  <1>8. ASSUME NEW factor \in Factors, NEW lost \in BOOLEAN, Answer(factor, lost)
        PROVE  BaselineInv'
    <2> DEFINE actual == (Estimate * factor) \div 10
               b == NewBaseline(actual)
    <2>1. /\ pc = "sent" /\ pc' = "idle" /\ base' = Written(base, b, lost)
          /\ answered' = [top |-> top, print |-> wording]
          /\ UNCHANGED <<kinds, top, wording>> /\ Raw' = Raw
      BY <1>8 DEF Answer, session, client, Raw
    <2>2. b # Unloaded /\ b.count = Len(Raw) /\ Len(Raw) \in Nat
      BY <2>1, AnswerTyped
    <2>3. b.kind = "exact" /\ b.top = top /\ b.print = wording
      BY DEF NewBaseline, Baseline
    <2> HIDE DEF b
    <2>4. base' = [mem |-> base'.mem, row |-> base'.row] /\ base'.mem = b
      BY <2>1 DEF Written
    <2>5. Loaded(base') = b
      BY <2>2, <2>4 DEF Loaded
    <2>6. Recent(b, answered', Raw)
      BY <2>1, <2>2, <2>3 DEF Recent
    <2>7. QED
      BY <1>1, <2>1, <2>4, <2>5, <2>6 DEF BaselineInv
  <1>9. CASE Restart
    <2>1. /\ UNCHANGED <<kinds, top, wording>> /\ base' = [base EXCEPT !.mem = Unloaded] /\ pc' = "idle"
          /\ answered' = IF base.mem \in {Unloaded, base.row} THEN answered ELSE Nothing
      BY <1>9 DEF Restart, session, client
    <2>2. base' = [mem |-> Unloaded, row |-> base.row]
      BY <1>1, <2>1
    <2>3. answered' # Nothing => answered' = answered /\ Loaded(base') = Loaded(base)
      BY <2>1, <2>2 DEF Loaded
    <2>4. QED
      BY <1>1, <2>1, <2>2, <2>3, AnsweredStep
  <1>10. CASE UNCHANGED vars
    <2>1. Raw' = Raw
      BY <1>10 DEF vars, client, Raw
    <2>2. QED
      BY <1>1, <1>10, <2>1 DEF vars, BaselineInv
  <1>11. QED
    BY <1>2, <1>3, <1>4, <1>5, <1>6, <1>7, <1>8, <1>9, <1>10 DEF Next

\* The pressure is decided in one step, and what it is decided from stays.
LEMMA NextAnswerIsUsed ==
  ASSUME MessagesInv, BaselineInv, AnswerIsUsed, [Next]_vars
  PROVE  AnswerIsUsed'
  <1>1. SUFFICES ASSUME pc' = "recall", answered' = [top |-> top', print |-> wording'],
                        req'.baseline.kind # "failed"
                 PROVE  req'.source = "actual_plus_delta"
    BY DEF AnswerIsUsed
  <1>2. CASE UNCHANGED vars
    BY <1>1, <1>2 DEF vars, AnswerIsUsed
  <1>3. ASSUME NEW waited \in BOOLEAN, NEW lost \in BOOLEAN, Decide(waited, lost)
        PROVE  req'.source = "actual_plus_delta"
    <2> DEFINE first == Pressure(req.messages)
               drop == req.spliced /\ Trigger(first[2], waited) # "none"
               candidate == IF drop THEN Raw ELSE req.messages
               final == Pressure(candidate)
    <2>1. /\ pc = "decide" /\ UNCHANGED <<top, wording, answered>>
          /\ req' = [req EXCEPT !.messages = candidate, !.spliced = @ /\ ~drop,
                                !.source = final[1], !.pressure = final[2],
                                !.trigger = Trigger(final[2], waited), !.measured = TRUE]
      BY <1>3 DEF Decide, session, client
    <2>2. DOMAIN req = Locals
      BY DEF MessagesInv, RequestInv
    <2> HIDE DEF candidate, final, drop, first
    <2>3. req'.source = final[1] /\ req'.baseline = req.baseline
      BY <2>1, <2>2 DEF Locals
    <2>4. answered = [top |-> top, print |-> wording] /\ answered # Nothing
      <3>1. answered = [top |-> top, print |-> wording]
        BY <1>1, <2>1
      <3>2. top \in Tops /\ wording \in {0, 1}
        BY DEF BaselineInv
      <3>3. QED
        BY <3>1, <3>2, NothingAssumption
    <2>5. Recent(req.baseline, [top |-> top, print |-> wording], Raw)
      BY <1>1, <2>1, <2>3, <2>4 DEF BaselineInv
    <2>6. final[1] = "actual_plus_delta"
      BY <2>5, ExactDecides DEF final
    <2>7. QED
      BY <2>3, <2>6
  <1>4. ASSUME Next, \A waited, lost \in BOOLEAN : ~Decide(waited, lost) PROVE FALSE
    <2>1. CASE \/ \E kind \in ExchangeKinds, t \in Tops, spelling \in 0..1 : Ask(kind, t, spelling)
               \/ Resend
      BY <1>1, <2>1 DEF Ask, Resend, Send
    <2>2. CASE PassThrough \/ Recall \/ NoCollapse \/ Refuse
      BY <1>1, <2>2 DEF PassThrough, Recall, NoCollapse, Refuse
    <2>3. CASE SendUnreplaced \/ Direct \/ NoAnswer \/ Restart
      BY <1>1, <2>3 DEF SendUnreplaced, Direct, NoAnswer, Restart
    <2>4. CASE Evict
      BY <1>1, <2>4 DEF Evict
    <2>5. ASSUME NEW lostPrefix \in BOOLEAN, NEW lostBaseline \in BOOLEAN, NEW unread \in BOOLEAN,
                 StartUnsafe(lostPrefix, lostBaseline, unread)
          PROVE  FALSE
      BY <1>1, <2>5 DEF StartUnsafe
    <2>6. ASSUME NEW failed \in BOOLEAN, NEW unread \in BOOLEAN, StartSafe(failed, unread)
          PROVE  FALSE
      BY <1>1, <2>6 DEF StartSafe
    <2>7. ASSUME NEW failed \in BOOLEAN, NEW lost \in BOOLEAN, Splice(failed, lost)
          PROVE  FALSE
      BY <1>1, <2>7 DEF Splice
    <2>8. ASSUME NEW ok \in BOOLEAN, CompressContext(ok)
          PROVE  FALSE
      BY <1>1, <2>8 DEF CompressContext
    <2>9. ASSUME NEW ok \in BOOLEAN, NEW lost \in BOOLEAN, NEW lostMarks \in BOOLEAN,
                 CollapseHistory(ok, lost, lostMarks)
          PROVE  FALSE
      BY <1>1, <2>9 DEF CollapseHistory
    <2>10. ASSUME NEW ok \in BOOLEAN, NEW lost \in BOOLEAN, NEW lostMarks \in BOOLEAN,
                  NEW aged, NEW old, Fallback(ok, aged, old, lost, lostMarks)
           PROVE  FALSE
      BY <1>1, <2>10 DEF Fallback
    <2>11. ASSUME NEW factor \in Factors, NEW lost \in BOOLEAN, Answer(factor, lost)
           PROVE  FALSE
      BY <1>1, <2>11 DEF Answer
    <2>12. QED
      BY <1>4, <2>1, <2>2, <2>3, <2>4, <2>5, <2>6, <2>7, <2>8, <2>9, <2>10, <2>11 DEF Next
  <1>5. QED
    BY <1>2, <1>3, <1>4

\* While system and tools stay the same, the usage of the last answer decides.
THEOREM AnswerIsUsedCorrect == Spec => []AnswerIsUsed
  <1>1. Init => BaselineInv /\ AnswerIsUsed
    BY InitBaseline
  <1>2. MessagesInv /\ BaselineInv /\ AnswerIsUsed /\ [Next]_vars => (BaselineInv /\ AnswerIsUsed)'
    BY NextBaseline, NextAnswerIsUsed
  <1>3. QED
    BY <1>1, <1>2, MessagesInvariant, PTL DEF Spec
=============================================================================
