---------------------- MODULE PersistenceWriterProofs ----------------------
(***************************************************************************)
(* Proofs about PersistenceWriter: its types, the exclusion and the order  *)
(* of the writes of one key, what the state table ends up holding, what a  *)
(* completed drain guarantees, and that the pool behaves as the queues of  *)
(* OrderedStore, for any number of writes, keys and workers and any queue  *)
(* capacity.                                                               *)
(***************************************************************************)
EXTENDS PersistenceWriter, SequenceTheorems, WellFoundedInduction, TLAPS

(***************************************************************************)
(* Types.                                                                  *)
(***************************************************************************)

\* Every operation of the health tracker keeps its type.
LEMMA HealthType ==
  ASSUME HealthTypeOK,
         \/ ObserveFailure("sqlite_state", 0)
         \/ ObserveSuccess("sqlite_state")
  PROVE  HealthTypeOK'
<1>1. "sqlite_state" \in HealthScopes
  BY DEF HealthScopes, SQLiteScopes
<1>2. health["sqlite_state"].latestGeneration + 1 \in Nat
  BY <1>1 DEF HealthTypeOK, HealthState
<1>3. FailureGeneration("sqlite_state", 0) \in Nat
  BY <1>2 DEF FailureGeneration
<1>4. CASE ObserveFailure("sqlite_state", 0)
  BY <1>1, <1>3, <1>4 DEF ObserveFailure, HealthTypeOK, HealthState
<1>5. CASE ObserveSuccess("sqlite_state")
  BY <1>5 DEF ObserveSuccess, HealthTypeOK, HealthState
<1>6. QED
  BY <1>4, <1>5

\* Taking the i-th write out leaves a shorter sequence of writes.
LEMMA WithoutType ==
  ASSUME pending \in Seq(Ops), NEW i \in DOMAIN pending
  PROVE  /\ Without(i) \in Seq(Ops)
         /\ Len(Without(i)) = Len(pending) - 1
         /\ DOMAIN Without(i) = 1..(Len(pending) - 1)
<1>1. Len(pending) \in Nat /\ DOMAIN pending = 1..Len(pending)
  OBVIOUS
<1>2. Len(pending) - 1 \in Nat
  BY <1>1
<1>3. ASSUME NEW j \in 1..(Len(pending) - 1)
      PROVE  (IF j < i THEN pending[j] ELSE pending[j + 1]) \in Ops
  BY <1>1, <1>3
<1>4. Without(i) \in [1..(Len(pending) - 1) -> Ops]
  BY <1>3 DEF Without
<1>5. QED
  BY <1>2, <1>4

\* The idle worker states are worker states.
LEMMA IdleType == ASSUME NEW p \in WorkerPC PROVE Idle(p) \in WorkerState
BY DEF Idle, WorkerState

\* Waking the sleepers keeps the workers typed.
LEMMA WokenType ==
  ASSUME worker \in [Workers -> WorkerState]
  PROVE  Woken \in [Workers -> WorkerState]
<1>1. Idle("awake") \in WorkerState
  BY IdleType DEF WorkerPC
<1>2. QED
  BY <1>1 DEF Woken

\* A turn of the loop keeps the queue, the active keys and the workers typed.
LEMMA NextRunnableType ==
  ASSUME TypeOK, NEW w \in Workers, NEW busy \in SUBSET Keys,
         NEW pool \in [Workers -> WorkerState],
         NextRunnable(w, busy, pool)
  PROVE  /\ pending' \in Seq(Ops) /\ Len(pending') <= QueueCapacity
         /\ active' \subseteq Keys
         /\ worker' \in [Workers -> WorkerState]
<1>1. CASE \E i \in DOMAIN pending :
             /\ IsNext(i, busy)
             /\ pending' = Without(i)
             /\ active' = busy \cup {KeyOf[pending[i]]}
             /\ worker' = [pool EXCEPT ![w] =
                             [pc |-> "execute", op |-> pending[i], outcome |-> "none"]]
  <2>1. PICK i \in DOMAIN pending :
             /\ pending' = Without(i)
             /\ active' = busy \cup {KeyOf[pending[i]]}
             /\ worker' = [pool EXCEPT ![w] =
                             [pc |-> "execute", op |-> pending[i], outcome |-> "none"]]
    BY <1>1
  <2>2. pending' \in Seq(Ops) /\ Len(pending') = Len(pending) - 1
    BY <2>1, WithoutType DEF TypeOK
  <2>3. Len(pending') <= QueueCapacity
    BY <2>2, WriterAssumption DEF TypeOK
  <2>4. pending[i] \in Ops
    BY DEF TypeOK
  <2>5. [pc |-> "execute", op |-> pending[i], outcome |-> "none"] \in WorkerState
    BY <2>4 DEF WorkerState, WorkerPC
  <2>6. QED
    BY <2>1, <2>2, <2>3, <2>4, <2>5, WriterAssumption
<1>2. CASE /\ active' = busy
           /\ worker' = [pool EXCEPT ![w] = Idle(IF MayLeave THEN "stopped" ELSE "waiting")]
           /\ UNCHANGED pending
  <2>1. Idle(IF MayLeave THEN "stopped" ELSE "waiting") \in WorkerState
    BY IdleType DEF WorkerPC
  <2>2. QED
    BY <1>2, <2>1 DEF TypeOK
<1>3. QED
  BY <1>1, <1>2 DEF NextRunnable

\* Waking one sleeper keeps the workers typed.
LEMMA SignalType ==
  ASSUME worker \in [Workers -> WorkerState], Signal
  PROVE  worker' \in [Workers -> WorkerState]
BY IdleType DEF Signal, Sleeping, WorkerPC

\* Every step keeps the writer's state within its types and the queue within
\* its capacity.
LEMMA TypeStep == TypeOK /\ [Next]_vars => TypeOK'
<1> SUFFICES ASSUME TypeOK, [Next]_vars PROVE TypeOK'
  OBVIOUS
<1>1. ASSUME NEW op \in Ops, Submit(op) PROVE TypeOK'
  <2>1. pending' \in Seq(Ops) /\ Len(pending') = Len(pending) + 1
    BY <1>1 DEF Submit, TypeOK
  <2>2. Len(pending') <= QueueCapacity
    BY <1>1, <2>1, WriterAssumption DEF Submit, HasRoom, TypeOK
  <2>3. worker' \in [Workers -> WorkerState]
    BY <1>1, SignalType DEF Submit, TypeOK
  <2>4. QED
    BY <1>1, <2>1, <2>2, <2>3 DEF Submit, TypeOK, HealthTypeOK
<1>2. ASSUME NEW op \in Ops, RefuseSubmit(op) PROVE TypeOK'
  BY <1>2 DEF RefuseSubmit, TypeOK, HealthTypeOK, queueVars
<1>3. ASSUME NEW op \in Ops, CompleteRefused(op) PROVE TypeOK'
  BY <1>3 DEF CompleteRefused, TypeOK, HealthTypeOK, queueVars, submitVars
<1>4. ASSUME NEW w \in Workers, Wake(w) PROVE TypeOK'
  BY <1>4, NextRunnableType DEF Wake, TypeOK, HealthTypeOK, submitVars
<1>5. ASSUME NEW w \in Workers, Execute(w) PROVE TypeOK'
  <2>1. worker[w].op \in Ops \cup {NoOp}
    BY DEF TypeOK, WorkerState
  <2>2. PICK outcome \in {"saved", "failed"} :
          worker' = [worker EXCEPT ![w] =
                       [pc |-> "complete", op |-> worker[w].op, outcome |-> outcome]]
    BY <1>5 DEF Execute
  <2>3. [pc |-> "complete", op |-> worker[w].op, outcome |-> outcome] \in WorkerState
    BY <2>1 DEF WorkerState, WorkerPC
  <2>4. worker' \in [Workers -> WorkerState]
    BY <2>2, <2>3 DEF TypeOK
  <2>5. disk' \in [Keys -> Ops \cup {NoOp}]
    BY <1>5, <2>1 DEF Execute, TypeOK
  <2>6. QED
    BY <1>5, <2>4, <2>5 DEF Execute, TypeOK, HealthTypeOK, submitVars
<1>6. ASSUME NEW w \in Workers, Complete(w) PROVE TypeOK'
  BY <1>6 DEF Complete, TypeOK, HealthTypeOK, submitVars, WorkerState, WorkerPC
<1>7. ASSUME NEW w \in Workers, ObserveStateResult(w) PROVE TypeOK'
  <2>1. HealthTypeOK'
    BY <1>7, HealthType DEF ObserveStateResult, TypeOK
  <2>2. QED
    BY <1>7, <2>1 DEF ObserveStateResult, TypeOK, submitVars, WorkerState, WorkerPC
<1>8. ASSUME NEW w \in Workers, Release(w) PROVE TypeOK'
  <2>1. active \ {KeyOf[worker[w].op]} \in SUBSET Keys
    BY DEF TypeOK
  <2>2. Woken \in [Workers -> WorkerState]
    BY WokenType DEF TypeOK
  <2>3. QED
    BY <1>8, <2>1, <2>2, NextRunnableType DEF Release, TypeOK, HealthTypeOK, submitVars
<1>9. ASSUME BeginClose PROVE TypeOK'
  BY <1>9, WokenType DEF BeginClose, TypeOK, HealthTypeOK, submitVars
<1>10. ASSUME EndClose PROVE TypeOK'
  BY <1>10 DEF EndClose, TypeOK, HealthTypeOK, submitVars, queueVars
<1>11. CASE UNCHANGED vars
  BY <1>11 DEF TypeOK, HealthTypeOK, vars, submitVars, queueVars
<1>12. QED
  BY <1>1, <1>2, <1>3, <1>4, <1>5, <1>6, <1>7, <1>8, <1>9, <1>10, <1>11
     DEF Next, WorkerStep

\* The initial state is typed.
LEMMA InitType == Init => TypeOK
<1> SUFFICES ASSUME Init PROVE TypeOK
  OBVIOUS
<1>1. HealthTypeOK
  BY DEF Init, HealthInit, HealthTypeOK, HealthState
<1>2. Idle("awake") \in WorkerState
  BY IdleType DEF WorkerPC
<1>3. worker \in [Workers -> WorkerState]
  BY <1>2 DEF Init
<1>4. QED
  <2>1. pending \in Seq(Ops) /\ Len(pending) <= QueueCapacity
    BY WriterAssumption DEF Init
  <2>2. QED
    BY <1>1, <1>3, <2>1 DEF Init, TypeOK

\* The writer's state stays within its types: the queue never grows beyond its
\* fixed capacity.
THEOREM TypeCorrect == Spec => []TypeOK
<1>1. QED
  BY InitType, TypeStep, PTL DEF Spec

(***************************************************************************)
(* Exclusion and order.  QueueInv, HoldInv and KeyExclusive depend on each *)
(* other: a key is marked while one worker holds the oldest unanswered     *)
(* write of it, so the next worker to take one finds the next oldest.      *)
(***************************************************************************)

IInv ==
  /\ TypeOK
  /\ TicketInv
  /\ QueueInv
  /\ HoldInv
  /\ KeyExclusive
  /\ ActiveInv
  /\ PlaceInv
  /\ StopInv

\* What Without(i) is made of: the other positions, in their order.
LEMMA WithoutOrder ==
  ASSUME pending \in Seq(Ops), NEW i \in DOMAIN pending
  PROVE  /\ \A j \in DOMAIN Without(i) :
              \E k \in DOMAIN pending : k # i /\ Without(i)[j] = pending[k]
         /\ \A j, l \in DOMAIN Without(i) : j < l =>
              \E k, m \in DOMAIN pending :
                /\ k < m
                /\ Without(i)[j] = pending[k] /\ Without(i)[l] = pending[m]
         /\ \A k \in DOMAIN pending : k # i =>
              \E j \in DOMAIN Without(i) : Without(i)[j] = pending[k]
<1>1. Len(pending) \in Nat /\ DOMAIN pending = 1..Len(pending)
  OBVIOUS
<1>2. DOMAIN Without(i) = 1..(Len(pending) - 1)
  BY WithoutType
<1> DEFINE at(j) == IF j < i THEN j ELSE j + 1
<1>3. ASSUME NEW j \in DOMAIN Without(i)
      PROVE  at(j) \in DOMAIN pending /\ at(j) # i /\ Without(i)[j] = pending[at(j)]
  BY <1>1, <1>2 DEF Without
<1>4. ASSUME NEW j \in DOMAIN Without(i), NEW l \in DOMAIN Without(i), j < l
      PROVE  at(j) < at(l)
  BY <1>1, <1>2, <1>4
<1>5. ASSUME NEW k \in DOMAIN pending, k # i
      PROVE  \E j \in DOMAIN Without(i) : Without(i)[j] = pending[k]
  <2>1. CASE k < i
    <3>1. k \in DOMAIN Without(i) /\ at(k) = k
      BY <1>1, <1>2, <2>1
    <3>2. QED
      BY <1>3, <3>1
  <2>2. CASE k > i
    <3>1. k - 1 \in DOMAIN Without(i) /\ at(k - 1) = k
      BY <1>1, <1>2, <2>2
    <3>2. QED
      BY <1>3, <3>1
  <2>3. QED
    BY <1>1, <1>5, <2>1, <2>2
<1> HIDE DEF at
<1>6. QED
  BY <1>3, <1>4, <1>5

\* The turn of the loop that w takes after Wake or Release: busy are the keys of
\* the writes the others hold, and the others stay as they are or are woken.
Turn(w, busy, pool) ==
  /\ pool \in [Workers -> WorkerState]
  /\ \A v \in Workers \ {w} :
       \/ pool[v] = worker[v]
       \/ worker[v].pc = "waiting" /\ pool[v] = Idle("awake")
  /\ \A v \in Workers \ {w} : Holding(v) => KeyOf[worker[v].op] \in busy
  /\ \A k \in busy : \E v \in Workers \ {w} : Holding(v) /\ KeyOf[worker[v].op] = k
  /\ busy \subseteq active
  /\ worker[w].pc \in {"awake", "release"}
  /\ NextRunnable(w, busy, pool)
  /\ UNCHANGED <<submitVars, receipt, closing, drained>>

\* A woken worker takes a turn with the keys that are marked.
LEMMA WakeTurn ==
  ASSUME IInv, NEW w \in Workers, Wake(w)
  PROVE  Turn(w, active, worker)
BY DEF Wake, Turn, IInv, TypeOK, HoldInv, Held, ActiveInv, Holding

\* A worker that frees its key takes a turn with the keys the others hold.
LEMMA ReleaseTurn ==
  ASSUME IInv, NEW w \in Workers, Release(w)
  PROVE  Turn(w, active \ {KeyOf[worker[w].op]}, Woken)
<1> DEFINE busy == active \ {KeyOf[worker[w].op]}
<1>1. worker[w].pc = "release" /\ Holding(w)
  BY DEF Release, Holding
<1>2. /\ Woken \in [Workers -> WorkerState]
      /\ \A v \in Workers : \/ Woken[v] = worker[v]
                            \/ worker[v].pc = "waiting" /\ Woken[v] = Idle("awake")
  BY WokenType DEF IInv, TypeOK, Woken, Sleeping
<1>3. ASSUME NEW v \in Workers \ {w}, Holding(v) PROVE KeyOf[worker[v].op] \in busy
  BY <1>1, <1>3 DEF IInv, HoldInv, Held, KeyExclusive
<1>4. \A k \in busy : \E v \in Workers \ {w} : Holding(v) /\ KeyOf[worker[v].op] = k
  BY DEF IInv, ActiveInv
<1>5. QED
  BY <1>1, <1>2, <1>3, <1>4 DEF Release, Turn

\* A turn of the loop keeps exclusion and order: the write it takes is the
\* oldest pending one of a key that nobody holds.
LEMMA TurnStep ==
  ASSUME IInv, TypeOK', NEW w \in Workers, NEW busy, NEW pool, Turn(w, busy, pool)
  PROVE  IInv'
<1> USE DEF submitVars
<1>1. ASSUME NEW v \in Workers \ {w}
      PROVE  /\ Holding(v)' <=> Holding(v)
             /\ Holding(v) => worker'[v] = worker[v]
             /\ worker'[v].pc = "stopped" <=> worker[v].pc = "stopped"
             /\ worker'[v].pc \in {"execute", "complete"}
                  <=> worker[v].pc \in {"execute", "complete"}
  <2>1. worker'[v] = pool[v]
    BY DEF Turn, NextRunnable
  <2>3. QED
    BY <2>1 DEF Turn, Holding, Idle
<1>2. CASE \E i \in DOMAIN pending :
             /\ IsNext(i, busy)
             /\ pending' = Without(i)
             /\ active' = busy \cup {KeyOf[pending[i]]}
             /\ worker' = [pool EXCEPT ![w] =
                             [pc |-> "execute", op |-> pending[i], outcome |-> "none"]]
  <2>1. PICK i \in DOMAIN pending :
             /\ IsNext(i, busy)
             /\ pending' = Without(i)
             /\ active' = busy \cup {KeyOf[pending[i]]}
             /\ worker' = [pool EXCEPT ![w] =
                             [pc |-> "execute", op |-> pending[i], outcome |-> "none"]]
    BY <1>2
  <2>2. PICK op \in Ops : op = pending[i]
    BY DEF IInv, TypeOK
  <2>3. worker'[w].op = op /\ worker'[w].pc = "execute"
    BY <2>2, <2>1 DEF Turn
  <2>4. ASSUME NEW j \in DOMAIN pending'
        PROVE  \E k \in DOMAIN pending : k # i /\ pending'[j] = pending[k]
    BY <2>1, WithoutOrder DEF IInv, TypeOK
  <2>5. QueueInv'
    <3>1. ASSUME NEW j \in DOMAIN pending', NEW l \in DOMAIN pending', j < l
          PROVE  ticket'[pending'[j]] < ticket'[pending'[l]]
      BY <2>1, <3>1, WithoutOrder DEF IInv, TypeOK, QueueInv, Turn
    <3>2. QED
      BY <2>4, <3>1 DEF IInv, QueueInv, Turn
  <2>6. \A k \in DOMAIN pending :
          k # i /\ KeyOf[pending[k]] = KeyOf[op] => ticket[op] < ticket[pending[k]]
    <3>1. ASSUME NEW k \in DOMAIN pending, KeyOf[pending[k]] = KeyOf[op], k < i PROVE FALSE
      BY <2>2, <2>1, <3>1 DEF IsNext, Runnable
    <3>2. ASSUME NEW k \in DOMAIN pending, KeyOf[pending[k]] = KeyOf[op], k # i
          PROVE  ticket[op] < ticket[pending[k]]
      <4>1. Len(pending) \in Nat /\ DOMAIN pending = 1..Len(pending)
        BY DEF IInv, TypeOK
      <4>2. i < k
        BY <3>1, <3>2, <4>1
      <4>3. QED
        BY <2>2, <4>2 DEF IInv, QueueInv
    <3>3. QED
      BY <3>2
  <2>7. \A v \in Workers \ {w} : Holding(v) => KeyOf[worker[v].op] # KeyOf[op]
    BY <2>2, <2>1 DEF Turn, IsNext, Runnable
  <2>8. ASSUME NEW v \in Workers, v # w, Holding(v)' PROVE Held(v)'
    BY <1>1, <2>1, <2>4, <2>8 DEF IInv, HoldInv, Held, Turn
  <2>9. Held(w)'
    <3>1. admission[op] = "accepted" /\ receipt[op] = "none"
      BY <2>2 DEF IInv, QueueInv
    <3>2. \A j \in DOMAIN pending' :
            KeyOf[pending'[j]] = KeyOf[op] => ticket[op] < ticket[pending'[j]]
      BY <2>2, <2>4, <2>6
    <3>3. QED
      BY <2>2, <2>1, <2>3, <3>1, <3>2 DEF Held, Turn
  <2>10. HoldInv'
    BY <2>8, <2>9 DEF HoldInv
  <2>11. KeyExclusive'
    BY <1>1, <2>3, <2>7 DEF KeyExclusive, IInv
  <2>12. ActiveInv'
    <3>1. ASSUME NEW k \in busy
          PROVE  \E v \in Workers : Holding(v)' /\ KeyOf[worker'[v].op] = k
      BY <1>1 DEF Turn
    <3>2. Holding(w)' /\ KeyOf[worker'[w].op] = KeyOf[op]
      BY <2>3 DEF Holding
    <3>3. QED
      BY <2>2, <2>1, <3>1, <3>2 DEF ActiveInv
  <2>13. PlaceInv'
    <3>1. ASSUME NEW p \in Ops, InPending(p), p # op PROVE InPending(p)'
      <4>1. PICK k \in DOMAIN pending : pending[k] = p /\ k # i
        BY <2>2, <3>1 DEF InPending
      <4>2. \E j \in DOMAIN Without(i) : Without(i)[j] = pending[k]
        BY <4>1, WithoutOrder DEF IInv, TypeOK
      <4>3. QED
        BY <2>1, <4>1, <4>2 DEF InPending
    <3>2. ASSUME NEW p \in Ops, InHand(p) PROVE InHand(p)'
      BY <1>1, <3>2 DEF InHand, Turn, Holding
    <3>3. InHand(op)'
      BY <2>3 DEF InHand
    <3>4. QED
      BY <3>1, <3>2, <3>3 DEF PlaceInv, IInv, Turn
  <2>14. StopInv'
    <3>1. ~drained
      BY DEF IInv, StopInv, Turn
    <3>2. \A v \in Workers : worker'[v].pc # "stopped"
      BY <1>1, <2>3 DEF IInv, StopInv
    <3>3. QED
      BY <3>1, <3>2 DEF StopInv, Turn
  <2>15. TicketInv'
    BY DEF IInv, TicketInv, Turn
  <2>16. QED
    BY <2>5, <2>10, <2>11, <2>12, <2>13, <2>14, <2>15 DEF IInv
<1>3. CASE /\ active' = busy
           /\ worker' = [pool EXCEPT ![w] = Idle(IF MayLeave THEN "stopped" ELSE "waiting")]
           /\ UNCHANGED pending
  <2>1. ~Holding(w)'
    BY <1>3 DEF Turn, Holding, Idle
  <2>2. HoldInv'
    BY <1>1, <1>3, <2>1 DEF IInv, HoldInv, Held, Turn
  <2>3. KeyExclusive'
    BY <1>1, <2>1 DEF KeyExclusive, IInv
  <2>4. ActiveInv'
    BY <1>1, <1>3 DEF ActiveInv, Turn
  <2>5. PlaceInv'
    <3>1. ASSUME NEW p \in Ops, InHand(p) PROVE InHand(p)'
      BY <1>1, <3>1 DEF InHand, Turn, Holding
    <3>2. QED
      BY <1>3, <3>1 DEF PlaceInv, IInv, Turn, InPending
  <2>6. StopInv'
    BY <1>1, <1>3 DEF StopInv, IInv, Turn, MayLeave, Idle
  <2>7. TicketInv' /\ QueueInv'
    BY <1>3 DEF IInv, TicketInv, QueueInv, Turn
  <2>8. QED
    BY <2>2, <2>3, <2>4, <2>5, <2>6, <2>7 DEF IInv
<1>4. QED
  BY <1>2, <1>3 DEF Turn, NextRunnable

\* Every step of the submitters, the workers and the shutdown keeps exclusion,
\* order and accounting of the writes.
LEMMA InvStep == IInv /\ [Next]_vars => IInv'
<1> SUFFICES ASSUME IInv, [Next]_vars PROVE IInv'
  OBVIOUS
<1>0. TypeOK'
  BY TypeStep DEF IInv
<1> USE <1>0 DEF submitVars, queueVars
<1>1. ASSUME NEW op \in Ops, Submit(op) PROVE IInv'
  <2>1. /\ ticket' = [ticket EXCEPT ![op] = accepted + 1]
        /\ admission' = [admission EXCEPT ![op] = "accepted"]
        /\ pending' = Append(pending, op)
        /\ UNCHANGED <<active, receipt, closing, drained>>
        /\ admission[op] = "none" /\ ~closing
    BY <1>1 DEF Submit
  <2>2. /\ ticket'[op] = accepted + 1
        /\ \A p \in Ops : p # op => ticket'[p] = ticket[p] /\ ticket[p] < accepted + 1
        /\ \A p \in Ops : p # op => admission'[p] = admission[p]
        /\ admission'[op] = "accepted"
    BY <2>1 DEF IInv, TicketInv, TypeOK
  <2>3. TicketInv'
    <3>1. accepted' = accepted + 1 /\ receipt' = receipt /\ accepted \in Nat
      BY <1>1 DEF Submit, IInv, TypeOK
    <3>2. \A p \in Ops : ticket[p] \in Nat
      BY DEF IInv, TypeOK
    <3>3. QED
      BY <2>2, <3>1, <3>2 DEF IInv, TicketInv
  <2>4. /\ Len(pending) \in Nat
        /\ DOMAIN pending = 1..Len(pending)
        /\ DOMAIN pending' = 1..(Len(pending) + 1)
        /\ \A i \in DOMAIN pending : pending'[i] = pending[i] /\ pending[i] \in Ops
        /\ pending'[Len(pending) + 1] = op
    <3>1. pending \in Seq(Ops)
      BY DEF IInv, TypeOK
    <3>2. QED
      BY <2>1, <3>1
  <2>5. \A i \in DOMAIN pending : pending[i] # op
    BY <2>1 DEF IInv, QueueInv
  <2>6. receipt' = receipt /\ receipt[op] = "none"
    BY <2>1 DEF IInv, TicketInv
  <2>7. QueueInv'
    <3>1. ASSUME NEW i \in DOMAIN pending', NEW j \in DOMAIN pending', i < j
          PROVE  ticket'[pending'[i]] < ticket'[pending'[j]]
      <4>1. i \in DOMAIN pending /\ pending[i] # op /\ pending[i] \in Ops
        BY <2>4, <2>5, <3>1
      <4>2. CASE j = Len(pending) + 1
        BY <2>2, <2>4, <4>1, <4>2
      <4>3. CASE j \in DOMAIN pending
        <5>1. pending[j] # op /\ pending[j] \in Ops /\ pending'[j] = pending[j]
          BY <2>4, <2>5, <4>3
        <5>2. ticket[pending[i]] < ticket[pending[j]]
          BY <3>1, <4>1, <4>3 DEF IInv, QueueInv
        <5>3. QED
          BY <2>2, <2>4, <4>1, <5>1, <5>2
      <4>4. QED
        BY <2>4, <4>2, <4>3
    <3>2. ASSUME NEW i \in DOMAIN pending'
          PROVE  admission'[pending'[i]] = "accepted" /\ receipt'[pending'[i]] = "none"
      <4>1. CASE i = Len(pending) + 1
        BY <2>2, <2>4, <2>6, <4>1
      <4>2. CASE i \in DOMAIN pending
        <5>1. pending'[i] = pending[i] /\ pending[i] \in Ops /\ pending[i] # op
          BY <2>4, <2>5, <4>2
        <5>2. admission[pending[i]] = "accepted" /\ receipt[pending[i]] = "none"
          BY <4>2 DEF IInv, QueueInv
        <5>3. QED
          BY <2>2, <2>6, <5>1, <5>2
      <4>3. QED
        BY <2>4, <4>1, <4>2
    <3>3. QED
      BY <3>1, <3>2 DEF QueueInv
  <2>8. \A v \in Workers : /\ Holding(v)' <=> Holding(v)
                           /\ Holding(v) => worker'[v] = worker[v]
                           /\ worker'[v].pc = "stopped" <=> worker[v].pc = "stopped"
    <3>1. \A v \in Workers : \/ worker'[v] = worker[v]
                             \/ worker[v].pc = "waiting" /\ worker'[v] = Idle("awake")
      BY <1>1 DEF Submit, Signal, Sleeping, IInv, TypeOK
    <3>2. QED
      BY <3>1 DEF Holding, Idle
  <2>9. HoldInv'
    <3>1. ASSUME NEW v \in Workers, Holding(v)' PROVE Held(v)'
      <4>1. Held(v) /\ worker'[v] = worker[v]
        BY <2>8, <3>1 DEF IInv, HoldInv
      <4>2. worker[v].op \in Ops /\ worker[v].op # op
        BY <2>1, <4>1 DEF Held
      <4>3. ASSUME NEW i \in DOMAIN pending', KeyOf[pending'[i]] = KeyOf[worker[v].op]
            PROVE  ticket'[worker[v].op] < ticket'[pending'[i]]
        <5>1. CASE i = Len(pending) + 1
          BY <2>2, <2>4, <4>2, <5>1
        <5>2. CASE i \in DOMAIN pending
          BY <2>2, <2>4, <2>5, <4>1, <4>2, <4>3, <5>2 DEF Held
        <5>3. QED
          BY <2>4, <5>1, <5>2
      <4>4. QED
        BY <2>1, <2>2, <4>1, <4>2, <4>3 DEF Held
    <3>2. QED
      BY <3>1 DEF HoldInv
  <2>10. KeyExclusive' /\ ActiveInv'
    BY <2>1, <2>8 DEF IInv, KeyExclusive, ActiveInv
  <2>11. PlaceInv'
    <3>1. ASSUME NEW p \in Ops, InPending(p) \/ p = op PROVE InPending(p)'
      BY <2>4, <3>1 DEF InPending
    <3>2. ASSUME NEW p \in Ops, InHand(p) PROVE InHand(p)'
      <4>1. PICK v \in Workers :
              worker[v].pc \in {"execute", "complete"} /\ worker[v].op = p
        BY <3>2 DEF InHand
      <4>2. worker'[v] = worker[v]
        BY <2>8, <4>1 DEF Holding
      <4>3. QED
        BY <4>1, <4>2 DEF InHand
    <3>3. QED
      BY <2>2, <2>6, <3>1, <3>2 DEF PlaceInv, IInv
  <2>12. StopInv'
    BY <2>1, <2>8 DEF IInv, StopInv
  <2>13. QED
    BY <2>3, <2>7, <2>9, <2>10, <2>11, <2>12 DEF IInv
<1>2. ASSUME NEW op \in Ops, RefuseSubmit(op) PROVE IInv'
  <2>1. /\ \A p \in Ops : p # op => admission'[p] = admission[p]
        /\ admission[op] = "none" /\ admission'[op] # "accepted" /\ admission'[op] # "none"
        /\ UNCHANGED <<pending, active, worker, accepted, ticket, receipt, closing, drained>>
    BY <1>2 DEF RefuseSubmit, IInv, TypeOK
  <2>2. TicketInv'
    BY <2>1 DEF IInv, TicketInv
  <2>3. QueueInv'
    <3>1. \A i \in DOMAIN pending : pending[i] \in Ops /\ pending[i] # op
      BY <2>1 DEF IInv, QueueInv, TypeOK
    <3>2. QED
      BY <2>1, <3>1 DEF IInv, QueueInv
  <2>4. HoldInv'
    BY <2>1 DEF IInv, HoldInv, Held, Holding
  <2>5. KeyExclusive' /\ ActiveInv' /\ StopInv'
    BY <2>1 DEF IInv, KeyExclusive, ActiveInv, StopInv, Holding
  <2>6. PlaceInv'
    BY <2>1 DEF IInv, PlaceInv, InPending, InHand
  <2>7. QED
    BY <2>2, <2>3, <2>4, <2>5, <2>6 DEF IInv
<1>3. ASSUME NEW op \in Ops, CompleteRefused(op) PROVE IInv'
  <2>1. /\ \A p \in Ops : p # op => receipt'[p] = receipt[p]
        /\ admission[op] # "accepted" /\ admission[op] # "none"
        /\ receipt'[op] \notin {"saved", "failed"}
        /\ UNCHANGED <<pending, active, worker, accepted, ticket, admission, closing, drained>>
    BY <1>3 DEF CompleteRefused, IInv, TypeOK
  <2>2. TicketInv'
    BY <2>1 DEF IInv, TicketInv
  <2>3. QueueInv'
    <3>1. \A i \in DOMAIN pending : pending[i] \in Ops /\ pending[i] # op
      BY <2>1 DEF IInv, QueueInv, TypeOK
    <3>2. QED
      BY <2>1, <3>1 DEF IInv, QueueInv
  <2>4. HoldInv'
    BY <2>1 DEF IInv, HoldInv, Held, Holding
  <2>5. KeyExclusive' /\ ActiveInv' /\ StopInv'
    BY <2>1 DEF IInv, KeyExclusive, ActiveInv, StopInv, Holding
  <2>6. PlaceInv'
    BY <2>1 DEF IInv, PlaceInv, InPending, InHand
  <2>7. QED
    BY <2>2, <2>3, <2>4, <2>5, <2>6 DEF IInv
<1>4. ASSUME NEW w \in Workers, Wake(w) PROVE IInv'
  BY <1>4, WakeTurn, TurnStep
<1>5. ASSUME NEW w \in Workers, Execute(w) PROVE IInv'
  <2>1. PICK outcome \in {"saved", "failed"} :
          worker' = [worker EXCEPT ![w] =
                       [pc |-> "complete", op |-> worker[w].op, outcome |-> outcome]]
    BY <1>5 DEF Execute
  <2>2. /\ worker[w].pc = "execute"
        /\ worker'[w] = [pc |-> "complete", op |-> worker[w].op, outcome |-> outcome]
        /\ \A v \in Workers : v # w => worker'[v] = worker[v]
        /\ UNCHANGED <<pending, active, accepted, ticket, admission, receipt, closing, drained>>
    BY <1>5, <2>1 DEF Execute, IInv, TypeOK
  <2>3. \A v \in Workers : Holding(v)' <=> Holding(v)
    BY <2>2 DEF Holding
  <2>4. HoldInv'
    BY <2>2, <2>3 DEF IInv, HoldInv, Held
  <2>5. KeyExclusive' /\ ActiveInv'
    BY <2>2, <2>3 DEF IInv, KeyExclusive, ActiveInv
  <2>6. PlaceInv'
    BY <2>2 DEF IInv, PlaceInv, InPending, InHand
  <2>7. TicketInv' /\ QueueInv' /\ StopInv'
    BY <2>2 DEF IInv, TicketInv, QueueInv, StopInv
  <2>8. QED
    BY <2>4, <2>5, <2>6, <2>7 DEF IInv
<1>6. ASSUME NEW w \in Workers, Complete(w) PROVE IInv'
  <2> DEFINE result == worker[w].outcome
  <2>1. /\ worker[w].pc = "complete" /\ worker'[w] = [worker[w] EXCEPT !.pc = "observe"]
        /\ \A v \in Workers : v # w => worker'[v] = worker[v]
        /\ UNCHANGED <<pending, active, accepted, ticket, admission, closing, drained>>
    BY <1>6 DEF Complete, IInv, TypeOK
  <2>2. /\ worker'[w].pc = "observe" /\ worker'[w].op = worker[w].op
        /\ worker'[w].outcome = worker[w].outcome
    BY <2>1 DEF IInv, TypeOK, WorkerState
  <2>3. PICK op \in Ops : /\ op = worker[w].op /\ admission[op] = "accepted"
                          /\ result \in {"saved", "failed"} /\ receipt[op] = "none"
    BY <2>1 DEF IInv, HoldInv, Held, Holding
  <2>4. receipt'[op] = result /\ \A p \in Ops : p # op => receipt'[p] = receipt[p]
    BY <1>6, <2>3 DEF Complete, IInv, TypeOK
  <2>5. \A v \in Workers : (Holding(v)' <=> Holding(v)) /\ worker'[v].op = worker[v].op
    BY <2>1, <2>2 DEF Holding
  <2>6. TicketInv'
    BY <2>1, <2>3, <2>4 DEF IInv, TicketInv
  <2>7. QueueInv'
    <3>1. \A i \in DOMAIN pending : pending[i] \in Ops /\ pending[i] # op
      <4>1. ASSUME NEW i \in DOMAIN pending, pending[i] = op PROVE FALSE
        <5>1. Held(w)
          BY <2>1 DEF IInv, HoldInv, Holding
        <5>2. ticket[op] < ticket[op] /\ ticket[op] \in Nat
          BY <2>3, <4>1, <5>1 DEF Held, IInv, TypeOK
        <5>3. QED
          BY <5>2
      <4>2. QED
        BY <4>1 DEF IInv, TypeOK
    <3>2. QED
      BY <2>1, <2>4, <3>1 DEF IInv, QueueInv
  <2>8. HoldInv'
    <3>1. ASSUME NEW v \in Workers, v # w, Holding(v)' PROVE Held(v)'
      <4>1. Held(v) /\ worker'[v] = worker[v] /\ worker[v].op # op
        BY <2>1, <2>3, <2>5, <3>1 DEF IInv, HoldInv, KeyExclusive, Holding
      <4>2. QED
        BY <2>1, <2>4, <4>1 DEF Held
    <3>2. Held(w)'
      <4>1. Held(w)
        BY <2>1 DEF IInv, HoldInv, Holding
      <4>2. QED
        BY <2>1, <2>2, <2>3, <2>4, <4>1 DEF Held
    <3>3. QED
      BY <3>1, <3>2 DEF HoldInv
  <2>9. KeyExclusive' /\ ActiveInv'
    BY <2>1, <2>5 DEF IInv, KeyExclusive, ActiveInv
  <2>10. PlaceInv'
    <3>1. ASSUME NEW p \in Ops, p # op, InHand(p) PROVE InHand(p)'
      BY <2>1, <2>3, <3>1 DEF InHand
    <3>2. QED
      BY <2>1, <2>3, <2>4, <3>1 DEF IInv, PlaceInv, InPending
  <2>11. StopInv'
    BY <2>1, <2>2 DEF IInv, StopInv
  <2>12. QED
    BY <2>6, <2>7, <2>8, <2>9, <2>10, <2>11 DEF IInv
<1>7. ASSUME NEW w \in Workers, ObserveStateResult(w) PROVE IInv'
  <2>1. /\ worker[w].pc = "observe" /\ worker'[w] = [worker[w] EXCEPT !.pc = "release"]
        /\ \A v \in Workers : v # w => worker'[v] = worker[v]
        /\ UNCHANGED <<pending, active, accepted, ticket, admission, receipt, closing, drained>>
    BY <1>7 DEF ObserveStateResult, IInv, TypeOK
  <2>2. worker'[w].pc = "release" /\ worker'[w].op = worker[w].op
    BY <2>1 DEF IInv, TypeOK, WorkerState
  <2>3. \A v \in Workers : (Holding(v)' <=> Holding(v)) /\ worker'[v].op = worker[v].op
    BY <2>1, <2>2 DEF Holding
  <2>4. HoldInv'
    <3>1. ASSUME NEW v \in Workers, Holding(v)' PROVE Held(v)'
      <4>1. Held(v) /\ worker'[v].op = worker[v].op
        BY <2>3, <3>1 DEF IInv, HoldInv
      <4>2. v # w => worker'[v] = worker[v]
        BY <2>1
      <4>3. QED
        BY <2>1, <2>2, <4>1, <4>2 DEF Held
    <3>2. QED
      BY <3>1 DEF HoldInv
  <2>5. KeyExclusive' /\ ActiveInv'
    BY <2>1, <2>3 DEF IInv, KeyExclusive, ActiveInv
  <2>6. PlaceInv'
    BY <2>1, <2>2 DEF IInv, PlaceInv, InPending, InHand
  <2>7. TicketInv' /\ QueueInv' /\ StopInv'
    <3>1. TicketInv'
      BY <2>1, <2>2 DEF IInv, TicketInv
    <3>2. QueueInv'
      BY <2>1, <2>2 DEF IInv, QueueInv
    <3>3. StopInv'
      BY <2>1, <2>2 DEF IInv, StopInv
    <3>4. QED
      BY <3>1, <3>2, <3>3
  <2>8. QED
    BY <2>4, <2>5, <2>6, <2>7 DEF IInv
<1>8. ASSUME NEW w \in Workers, Release(w) PROVE IInv'
  BY <1>8, ReleaseTurn, TurnStep
<1>9. ASSUME BeginClose PROVE IInv'
  <2>1. /\ UNCHANGED <<pending, active, accepted, ticket, admission, receipt, drained>>
        /\ closing' = TRUE /\ worker' = Woken
    BY <1>9 DEF BeginClose
  <2>2. \A v \in Workers : /\ Holding(v)' <=> Holding(v)
                           /\ Holding(v) => worker'[v] = worker[v]
                           /\ worker'[v].pc = "stopped" <=> worker[v].pc = "stopped"
                           /\ worker'[v].pc \in {"execute", "complete"}
                                => worker'[v] = worker[v]
                           /\ worker[v].pc \in {"execute", "complete"}
                                => worker'[v] = worker[v]
    BY <2>1 DEF Woken, Sleeping, Holding, Idle
  <2>3. HoldInv' /\ KeyExclusive' /\ ActiveInv'
    BY <2>1, <2>2 DEF IInv, HoldInv, Held, KeyExclusive, ActiveInv
  <2>4. PlaceInv' /\ StopInv'
    BY <2>1, <2>2 DEF IInv, PlaceInv, InPending, InHand, StopInv
  <2>5. TicketInv' /\ QueueInv'
    BY <2>1 DEF IInv, TicketInv, QueueInv
  <2>6. QED
    BY <2>3, <2>4, <2>5 DEF IInv
<1>10. ASSUME EndClose PROVE IInv'
  <2>1. /\ UNCHANGED <<pending, active, worker, accepted, ticket, admission, receipt, closing>>
        /\ \A w \in Workers : worker[w].pc = "stopped"
    BY <1>10 DEF EndClose
  <2>2. TicketInv' /\ QueueInv' /\ HoldInv' /\ KeyExclusive' /\ ActiveInv'
    BY <2>1 DEF IInv, TicketInv, QueueInv, HoldInv, Held, KeyExclusive, ActiveInv, Holding
  <2>3. PlaceInv' /\ StopInv'
    BY <2>1 DEF IInv, PlaceInv, InPending, InHand, StopInv
  <2>4. QED
    BY <2>2, <2>3 DEF IInv
<1>11. CASE UNCHANGED vars
  <2>1. UNCHANGED <<pending, active, worker, accepted, ticket, admission, receipt, closing,
                    drained>>
    BY <1>11 DEF vars
  <2>2. TicketInv' /\ QueueInv' /\ HoldInv' /\ KeyExclusive' /\ ActiveInv'
    BY <2>1 DEF IInv, TicketInv, QueueInv, HoldInv, Held, KeyExclusive, ActiveInv, Holding
  <2>3. PlaceInv' /\ StopInv'
    BY <2>1 DEF IInv, PlaceInv, InPending, InHand, StopInv
  <2>4. QED
    BY <2>2, <2>3 DEF IInv
<1>12. QED
  BY <1>1, <1>2, <1>3, <1>4, <1>5, <1>6, <1>7, <1>8, <1>9, <1>10, <1>11
     DEF Next, WorkerStep

\* Exclusion and order hold before anything is submitted.
LEMMA InitInv == Init => IInv
<1> SUFFICES ASSUME Init PROVE IInv
  OBVIOUS
<1>1. \A w \in Workers : ~Holding(w) /\ worker[w].pc # "stopped"
  BY DEF Init, Holding, Idle
<1>2. DOMAIN pending = {}
  BY DEF Init
<1>3. TicketInv
  BY DEF Init, TicketInv
<1>4. QueueInv /\ HoldInv /\ KeyExclusive /\ ActiveInv /\ PlaceInv /\ StopInv
  BY <1>1, <1>2 DEF Init, QueueInv, HoldInv, KeyExclusive, ActiveInv, PlaceInv, StopInv
<1>5. QED
  BY <1>3, <1>4, InitType DEF IInv

\* The coordination of submitters and workers stays coherent.
THEOREM InvCorrect == Spec => []IInv
<1>1. QED
  BY InitInv, InvStep, PTL DEF Spec

\* Two workers never hold writes of the same key.
THEOREM KeyExclusiveCorrect == Spec => []KeyExclusive
<1>1. IInv => KeyExclusive
  BY DEF IInv
<1>2. QED
  BY <1>1, InvCorrect, PTL

\* When CloseAndDrain has returned, every accepted write was tried and answered.
THEOREM DrainedIsCompleteCorrect == Spec => []DrainedIsComplete
<1>1. IInv => DrainedIsComplete
  <2> SUFFICES ASSUME IInv, drained PROVE
        /\ pending = <<>> /\ active = {}
        /\ \A op \in Ops : admission[op] = "accepted" => receipt[op] \in {"saved", "failed"}
    BY DEF DrainedIsComplete
  <2>1. \A w \in Workers : worker[w].pc = "stopped"
    BY DEF IInv, StopInv
  <2>2. pending = <<>>
    BY <2>1, WriterAssumption DEF IInv, StopInv
  <2>3. active = {}
    BY <2>1 DEF IInv, ActiveInv, Holding
  <2>4. \A op \in Ops : ~InPending(op) /\ ~InHand(op)
    BY <2>1, <2>2 DEF InPending, InHand
  <2>5. QED
    BY <2>2, <2>3, <2>4 DEF IInv, PlaceInv
<1>2. QED
  BY <1>1, InvCorrect, PTL

(***************************************************************************)
(* What reaches the state table.                                           *)
(***************************************************************************)

\* Only a database call changes what was tried and saved and what is stored.
LEMMA OnlyExecuteTries ==
  ASSUME IInv, [Next]_vars, \A w \in Workers : ~Execute(w)
  PROVE  /\ \A p \in Ops : (Tried(p)' <=> Tried(p)) /\ (Saved(p)' <=> Saved(p))
         /\ disk' = disk
<1> DEFINE Same == \A v \in Workers :
             worker[v].pc = "complete" \/ worker'[v].pc = "complete" => worker'[v] = worker[v]
           Goal == /\ \A p \in Ops : (Tried(p)' <=> Tried(p)) /\ (Saved(p)' <=> Saved(p))
                   /\ disk' = disk
<1>1. ASSUME Same, UNCHANGED <<receipt, disk>> PROVE Goal
  BY <1>1 DEF Tried, Saved
<1>2. ASSUME NEW op \in Ops, Submit(op) PROVE Goal
  <2>1. \A v \in Workers : \/ worker'[v] = worker[v]
                           \/ worker[v].pc = "waiting" /\ worker'[v] = Idle("awake")
    BY <1>2 DEF Submit, Signal, Sleeping, IInv, TypeOK
  <2>2. Same
    BY <2>1 DEF Idle
  <2>3. QED
    BY <1>1, <1>2, <2>2 DEF Submit
<1>3. ASSUME NEW op \in Ops, RefuseSubmit(op) PROVE Goal
  BY <1>1, <1>3 DEF RefuseSubmit, queueVars
<1>4. ASSUME NEW op \in Ops, CompleteRefused(op) PROVE Goal
  <2>1. /\ receipt[op] = "none" /\ receipt'[op] = "unavailable"
        /\ \A p \in Ops : p # op => receipt'[p] = receipt[p]
        /\ UNCHANGED <<worker, disk>>
    BY <1>4 DEF CompleteRefused, IInv, TypeOK, queueVars
  <2>2. QED
    BY <2>1 DEF Tried, Saved
<1>5. ASSUME NEW w \in Workers, NEW busy, NEW pool, NextRunnable(w, busy, pool),
             pool \in [Workers -> WorkerState],
             \A v \in Workers : \/ pool[v] = worker[v]
                                \/ worker[v].pc = "waiting" /\ pool[v] = Idle("awake"),
             worker[w].pc # "complete"
      PROVE  Same
  <2>1. \A v \in Workers : v # w => worker'[v] = pool[v]
    BY <1>5 DEF NextRunnable
  <2>2. worker'[w].pc # "complete"
    BY <1>5 DEF NextRunnable, Idle
  <2>3. QED
    BY <1>5, <2>1, <2>2 DEF Idle
<1>6. ASSUME NEW w \in Workers, Wake(w) PROVE Goal
  <2>1. Same
    BY <1>5, <1>6 DEF Wake, IInv, TypeOK
  <2>2. QED
    BY <1>1, <1>6, <2>1 DEF Wake
<1>7. /\ Woken \in [Workers -> WorkerState]
      /\ \A v \in Workers : \/ Woken[v] = worker[v]
                            \/ worker[v].pc = "waiting" /\ Woken[v] = Idle("awake")
  BY WokenType DEF IInv, TypeOK, Woken, Sleeping
<1>8. ASSUME NEW w \in Workers, Release(w) PROVE Goal
  <2>1. Same
    BY <1>5, <1>7, <1>8 DEF Release
  <2>2. QED
    BY <1>1, <1>8, <2>1 DEF Release
<1>9. ASSUME NEW w \in Workers, Complete(w) PROVE Goal
  <2>1. /\ worker[w].pc = "complete" /\ worker'[w] = [worker[w] EXCEPT !.pc = "observe"]
        /\ \A v \in Workers : v # w => worker'[v] = worker[v]
        /\ disk' = disk
    BY <1>9 DEF Complete, IInv, TypeOK
  <2>2. worker'[w].pc = "observe"
    BY <2>1 DEF IInv, TypeOK, WorkerState
  <2>3. PICK op \in Ops : /\ op = worker[w].op
                          /\ worker[w].outcome \in {"saved", "failed"}
                          /\ receipt[op] = "none"
    BY <2>1 DEF IInv, HoldInv, Held, Holding
  <2>4. receipt'[op] = worker[w].outcome /\ \A p \in Ops : p # op => receipt'[p] = receipt[p]
    BY <1>9, <2>3 DEF Complete, IInv, TypeOK
  <2>5. ASSUME NEW v \in Workers, v # w, worker[v].pc = "complete" PROVE worker[v].op # op
    BY <2>1, <2>3, <2>5 DEF IInv, KeyExclusive, Holding
  <2>6. ASSUME NEW p \in Ops, p # op PROVE (Tried(p)' <=> Tried(p)) /\ (Saved(p)' <=> Saved(p))
    <3>1. Tried(p)' <=> Tried(p)
      BY <2>1, <2>2, <2>3, <2>4, <2>6 DEF Tried
    <3>2. Saved(p)' <=> Saved(p)
      BY <2>1, <2>2, <2>3, <2>4, <2>6 DEF Saved
    <3>3. QED
      BY <3>1, <3>2
  <2>7. (Tried(op)' <=> Tried(op)) /\ (Saved(op)' <=> Saved(op))
    <3>1. Tried(op) /\ Tried(op)'
      BY <2>1, <2>3, <2>4 DEF Tried
    <3>2. Saved(op) <=> worker[w].outcome = "saved"
      BY <2>1, <2>3, <2>5 DEF Saved
    <3>3. Saved(op)' <=> worker[w].outcome = "saved"
      BY <2>1, <2>2, <2>3, <2>4, <2>5 DEF Saved
    <3>4. QED
      BY <3>1, <3>2, <3>3
  <2>8. QED
    BY <2>1, <2>6, <2>7
<1>10. ASSUME NEW w \in Workers, ObserveStateResult(w) PROVE Goal
  <2>1. /\ worker[w].pc = "observe" /\ worker'[w] = [worker[w] EXCEPT !.pc = "release"]
        /\ \A v \in Workers : v # w => worker'[v] = worker[v]
        /\ UNCHANGED <<receipt, disk>>
    BY <1>10 DEF ObserveStateResult, IInv, TypeOK
  <2>2. worker'[w].pc = "release"
    BY <2>1 DEF IInv, TypeOK, WorkerState
  <2>3. Same
    BY <2>1, <2>2
  <2>4. QED
    BY <1>1, <2>1, <2>3
<1>11. ASSUME BeginClose PROVE Goal
  <2>1. Same
    BY <1>7, <1>11 DEF BeginClose, Idle
  <2>2. QED
    BY <1>1, <1>11, <2>1 DEF BeginClose
<1>12. ASSUME EndClose PROVE Goal
  BY <1>1, <1>12 DEF EndClose, queueVars
<1>13. CASE UNCHANGED vars
  BY <1>1, <1>13 DEF vars, queueVars
<1>14. QED
  BY <1>2, <1>3, <1>4, <1>6, <1>8, <1>9, <1>10, <1>11, <1>12, <1>13 DEF Next, WorkerStep

OrderInv == IInv /\ TriedInOrder /\ DiskIsNewestSaved

\* The database call of w tries exactly the write it holds, and every older
\* accepted write of that key has been tried before.
LEMMA ExecuteTries ==
  ASSUME IInv, NEW w \in Workers, Execute(w), NEW op, op = worker[w].op
  PROVE  /\ op \in Ops /\ admission[op] = "accepted" /\ ~Tried(op) /\ Tried(op)'
         /\ \A p \in Ops : p # op => (Tried(p)' <=> Tried(p)) /\ (Saved(p)' <=> Saved(p))
         /\ \A p \in Ops : /\ admission[p] = "accepted" /\ KeyOf[p] = KeyOf[op]
                           /\ ticket[p] < ticket[op]
                           => Tried(p)
<1>1. PICK outcome \in {"saved", "failed"} :
        worker' = [worker EXCEPT ![w] =
                     [pc |-> "complete", op |-> op, outcome |-> outcome]]
  BY DEF Execute
<1>2. /\ worker[w].pc = "execute"
      /\ worker'[w] = [pc |-> "complete", op |-> op, outcome |-> outcome]
      /\ \A v \in Workers : v # w => worker'[v] = worker[v]
      /\ UNCHANGED <<receipt, admission, ticket>>
  BY <1>1 DEF Execute, submitVars, IInv, TypeOK
<1>3. Held(w)
  BY <1>2 DEF IInv, HoldInv, Holding
<1>4. op \in Ops /\ admission[op] = "accepted" /\ receipt[op] = "none"
  BY <1>2, <1>3 DEF Held
<1>5. ~Tried(op)
  BY <1>2, <1>4 DEF Tried, IInv, KeyExclusive, Holding
<1>6. Tried(op)'
  BY <1>2 DEF Tried
<1>7. ASSUME NEW p \in Ops, p # op PROVE (Tried(p)' <=> Tried(p)) /\ (Saved(p)' <=> Saved(p))
  BY <1>2, <1>7 DEF Tried, Saved
<1>8. ASSUME NEW p \in Ops, admission[p] = "accepted", KeyOf[p] = KeyOf[op],
             ticket[p] < ticket[op]
      PROVE  Tried(p)
  <2>1. ticket[p] \in Nat /\ ticket[op] \in Nat
    BY <1>4 DEF IInv, TypeOK
  <2>2. ~InPending(p)
    BY <1>3, <1>8, <2>1 DEF InPending, Held
  <2>3. ASSUME NEW v \in Workers, worker[v].pc = "execute", worker[v].op = p PROVE FALSE
    <3>1. v = w
      BY <1>2, <1>8, <2>3 DEF IInv, KeyExclusive, Holding
    <3>2. QED
      BY <1>8, <2>1, <2>3, <3>1
  <2>4. QED
    BY <1>8, <2>2, <2>3 DEF IInv, PlaceInv, InHand, Tried
<1>9. QED
  BY <1>4, <1>5, <1>6, <1>7, <1>8

\* No step breaks the order in which the writes of a key are tried, nor lets an
\* older value stand where a newer one was saved.
LEMMA OrderStep == OrderInv /\ [Next]_vars => OrderInv'
<1> SUFFICES ASSUME OrderInv, [Next]_vars PROVE TriedInOrder' /\ DiskIsNewestSaved'
  BY InvStep DEF OrderInv
<1>1. IInv /\ TriedInOrder /\ DiskIsNewestSaved /\ IInv'
  BY InvStep DEF OrderInv
<1>2. CASE \A w \in Workers : ~Execute(w)
  <2>1. /\ \A p \in Ops : (Tried(p)' <=> Tried(p)) /\ (Saved(p)' <=> Saved(p))
        /\ disk' = disk
    BY <1>1, <1>2, OnlyExecuteTries
  <2>2. ASSUME NEW p \in Ops, Tried(p) PROVE admission[p] = "accepted"
    BY <1>1, <2>2 DEF IInv, TicketInv, HoldInv, Held, Holding, Tried
  <2>3. /\ \A p \in Ops : admission[p] = "accepted" => ticket'[p] = ticket[p]
        /\ \A p \in Ops : admission[p] # "accepted" /\ admission'[p] = "accepted" =>
             ticket'[p] = accepted + 1
    <3>1. ASSUME NEW op \in Ops, Submit(op)
          PROVE  /\ admission[op] = "none" /\ ticket'[op] = accepted + 1
                 /\ \A p \in Ops : p # op => /\ ticket'[p] = ticket[p]
                                             /\ admission'[p] = admission[p]
      BY <1>1, <3>1 DEF Submit, IInv, TypeOK
    <3>2. CASE \E op \in Ops : Submit(op)
      BY <3>1, <3>2
    <3>3. CASE ~\E op \in Ops : Submit(op)
      <4>1. ticket' = ticket /\ \A p \in Ops : admission'[p] = "accepted" => admission[p] = "accepted"
        BY <1>1, <3>3 DEF Next, RefuseSubmit, CompleteRefused, WorkerStep, Wake, Execute,
             Complete, ObserveStateResult, Release, BeginClose, EndClose, vars, submitVars,
             IInv, TypeOK
      <4>2. QED
        BY <4>1
    <3>4. QED
      BY <3>2, <3>3
  <2>4. \A p \in Ops : ticket[p] \in Nat /\ ticket[p] <= accepted /\ accepted \in Nat
    BY <1>1 DEF IInv, TypeOK, TicketInv
  <2>5. ASSUME NEW p \in Ops, Saved(p) PROVE Tried(p)
    BY <2>5 DEF Saved, Tried
  <2>6. TriedInOrder'
    <3>1. SUFFICES ASSUME NEW p \in Ops, NEW q \in Ops,
                          KeyOf[p] = KeyOf[q], admission'[p] = "accepted",
                          ticket'[p] < ticket'[q], Tried(q)'
                   PROVE  Tried(p)'
      BY DEF TriedInOrder
    <3>2. Tried(q) /\ ticket'[q] = ticket[q]
      BY <2>1, <2>2, <2>3, <3>1
    <3>3. admission[p] = "accepted" /\ ticket'[p] = ticket[p]
      BY <2>3, <2>4, <3>1, <3>2
    <3>4. QED
      BY <1>1, <2>1, <3>1, <3>2, <3>3 DEF TriedInOrder
  <2>7. DiskIsNewestSaved'
    <3>1. \A p \in Ops : Saved(p) => ticket'[p] = ticket[p]
      BY <2>2, <2>3, <2>5
    <3>2. QED
      BY <1>1, <2>1, <3>1 DEF DiskIsNewestSaved
  <2>8. QED
    BY <2>6, <2>7
<1>3. ASSUME NEW w \in Workers, Execute(w) PROVE TriedInOrder' /\ DiskIsNewestSaved'
  <2>1. PICK op : op = worker[w].op
    OBVIOUS
  <2>2. /\ op \in Ops /\ admission[op] = "accepted" /\ ~Tried(op) /\ Tried(op)'
        /\ \A p \in Ops : p # op => (Tried(p)' <=> Tried(p)) /\ (Saved(p)' <=> Saved(p))
        /\ \A p \in Ops : /\ admission[p] = "accepted" /\ KeyOf[p] = KeyOf[op]
                          /\ ticket[p] < ticket[op]
                          => Tried(p)
    BY <1>1, <1>3, <2>1, ExecuteTries
  <2>3. UNCHANGED <<admission, ticket, receipt>>
    BY <1>3 DEF Execute, submitVars
  <2>4. \A p \in Ops : ticket[p] \in Nat
    BY <1>1 DEF IInv, TypeOK
  <2>5. TriedInOrder'
    <3>1. SUFFICES ASSUME NEW p \in Ops, NEW q \in Ops,
                          KeyOf[p] = KeyOf[q], admission[p] = "accepted",
                          ticket[p] < ticket[q], Tried(q)'
                   PROVE  Tried(p)'
      BY <2>3 DEF TriedInOrder
    <3>2. CASE q = op
      BY <2>2, <2>4, <3>1, <3>2
    <3>3. CASE q # op
      BY <1>1, <2>2, <3>1, <3>3 DEF TriedInOrder
    <3>4. QED
      BY <3>2, <3>3
  <2>6. PICK outcome \in {"saved", "failed"} :
          /\ worker' = [worker EXCEPT ![w] =
                          [pc |-> "complete", op |-> op, outcome |-> outcome]]
          /\ disk' = IF outcome = "failed" THEN disk
                     ELSE [disk EXCEPT ![KeyOf[op]] = IF op \in Deletes THEN NoOp ELSE op]
    BY <1>3, <2>1 DEF Execute
  <2>7. /\ worker'[w] = [pc |-> "complete", op |-> op, outcome |-> outcome]
        /\ worker[w].pc = "execute"
        /\ \A v \in Workers : v # w => worker'[v] = worker[v]
    BY <1>1, <1>3, <2>6 DEF Execute, IInv, TypeOK
  <2>8. Saved(op)' <=> outcome = "saved"
    <3>1. receipt'[op] # "saved"
      BY <2>2, <2>3 DEF Tried
    <3>2. ASSUME NEW v \in Workers, v # w, worker'[v].pc = "complete", worker'[v].op = op
          PROVE  FALSE
      BY <2>2, <2>7, <3>2 DEF Tried
    <3>3. QED
      BY <2>7, <3>1, <3>2 DEF Saved
  <2>9. ASSUME NEW p \in Ops, p # op, Saved(p), KeyOf[p] = KeyOf[op] PROVE ticket[p] < ticket[op]
    <3>1. Tried(p)
      BY <2>9 DEF Saved, Tried
    <3>2. ~(ticket[op] < ticket[p])
      BY <1>1, <2>2, <2>9, <3>1 DEF TriedInOrder
    <3>3. ticket[op] # ticket[p]
      BY <1>1, <2>2, <2>9 DEF IInv, TicketInv
    <3>4. QED
      BY <2>2, <2>4, <3>2, <3>3
  <2>10. DiskIsNewestSaved'
    <3>1. SUFFICES ASSUME NEW k \in Keys, NEW p \in Ops, KeyOf[p] = k, Saved(p)',
                          \A q \in Ops : KeyOf[q] = k /\ Saved(q)' => ticket[q] <= ticket[p]
                   PROVE  disk'[k] = IF p \in Deletes THEN NoOp ELSE p
      BY <2>3 DEF DiskIsNewestSaved
    <3>2. CASE outcome = "failed"
      <4>1. \A q \in Ops : Saved(q) => Saved(q)'
        BY <2>2 DEF Saved, Tried
      <4>2. Saved(p)
        BY <2>2, <2>8, <3>1, <3>2
      <4>3. QED
        BY <1>1, <2>6, <3>1, <3>2, <4>1, <4>2 DEF DiskIsNewestSaved
    <3>3. CASE outcome = "saved" /\ p = op
      BY <1>1, <2>6, <3>1, <3>3 DEF IInv, TypeOK
    <3>4. CASE outcome = "saved" /\ p # op /\ KeyOf[p] = KeyOf[op]
      <4>1. ticket[p] < ticket[op]
        BY <2>2, <2>9, <3>1, <3>4
      <4>2. ticket[op] <= ticket[p]
        BY <2>2, <2>8, <3>1, <3>4
      <4>3. QED
        BY <2>2, <2>4, <4>1, <4>2
    <3>5. CASE outcome = "saved" /\ KeyOf[p] # KeyOf[op]
      <4>1. Saved(p) /\ p # op /\ disk'[k] = disk[k]
        BY <1>1, <2>2, <2>6, <3>1, <3>5 DEF IInv, TypeOK
      <4>2. \A q \in Ops : KeyOf[q] = k /\ Saved(q) => Saved(q)'
        BY <2>2, <3>1, <3>5
      <4>3. QED
        BY <1>1, <3>1, <4>1, <4>2 DEF DiskIsNewestSaved
    <3>6. QED
      BY <3>2, <3>3, <3>4, <3>5
  <2>11. QED
    BY <2>5, <2>10
<1>4. QED
  BY <1>2, <1>3

\* Nothing was tried before the start.
LEMMA InitOrder == Init => OrderInv
<1> SUFFICES ASSUME Init PROVE OrderInv
  OBVIOUS
<1>1. \A op \in Ops : ~Tried(op) /\ ~Saved(op)
  BY DEF Init, Tried, Saved, Idle
<1>2. QED
  BY <1>1, InitInv DEF OrderInv, TriedInOrder, DiskIsNewestSaved

\* The writes of a key are tried in the order in which they were accepted.
THEOREM TriedInOrderCorrect == Spec => []TriedInOrder
<1>1. OrderInv => TriedInOrder
  BY DEF OrderInv
<1>2. QED
  BY <1>1, InitOrder, OrderStep, PTL DEF Spec

\* The state table holds, for every key, the newest write that was saved.
THEOREM DiskIsNewestSavedCorrect == Spec => []DiskIsNewestSaved
<1>1. OrderInv => DiskIsNewestSaved
  BY DEF OrderInv
<1>2. QED
  BY <1>1, InitOrder, OrderStep, PTL DEF Spec

(***************************************************************************)
(* Wake-ups.  Free keys are matched with workers that are awake, as long as *)
(* anybody sleeps; the matching itself is inductive.                       *)
(***************************************************************************)

Awake == {w \in Workers : worker[w].pc = "awake"}

\* There are at least as many awake workers as free keys.
Matched(keys, pool) == \E f \in [keys -> pool] : \A j, k \in keys : j # k => f[j] # f[k]

\* Fewer keys and more workers are matched, too.
LEMMA MatchedMonotone ==
  ASSUME NEW keys, NEW pool, Matched(keys, pool),
         NEW less \in SUBSET keys, NEW more, pool \subseteq more
  PROVE  Matched(less, more)
<1>1. PICK f \in [keys -> pool] : \A j, k \in keys : j # k => f[j] # f[k]
  BY DEF Matched
<1> DEFINE g == [k \in less |-> f[k]]
<1>2. g \in [less -> more]
  OBVIOUS
<1>3. \A j, k \in less : j # k => g[j] # g[k]
  BY <1>1
<1>4. QED
  BY <1>2, <1>3 DEF Matched

\* One key and one worker more.
LEMMA MatchedOneMore ==
  ASSUME NEW keys, NEW pool, Matched(keys, pool), NEW key, NEW w, w \notin pool
  PROVE  Matched(keys \cup {key}, pool \cup {w})
<1>1. PICK f \in [keys -> pool] : \A j, k \in keys : j # k => f[j] # f[k]
  BY DEF Matched
<1> DEFINE g == [k \in keys \cup {key} |-> IF k \in keys THEN f[k] ELSE w]
<1>2. g \in [keys \cup {key} -> pool \cup {w}]
  OBVIOUS
<1>3. \A j, k \in keys \cup {key} : j # k => g[j] # g[k]
  BY <1>1
<1>4. QED
  BY <1>2, <1>3 DEF Matched

\* One key and one worker less, whichever key the worker was matched with.
LEMMA MatchedOneLess ==
  ASSUME NEW keys, NEW pool, Matched(keys, pool), NEW key \in keys, NEW w
  PROVE  Matched(keys \ {key}, pool \ {w})
<1>1. PICK f \in [keys -> pool] : \A j, k \in keys : j # k => f[j] # f[k]
  BY DEF Matched
<1> DEFINE g == [k \in keys \ {key} |-> IF f[k] = w THEN f[key] ELSE f[k]]
<1>2. g \in [keys \ {key} -> pool \ {w}]
  BY <1>1
<1>3. \A j, k \in keys \ {key} : j # k => g[j] # g[k]
  BY <1>1
<1>4. QED
  BY <1>2, <1>3 DEF Matched

\* No keys are matched by anybody.
LEMMA MatchedNone == ASSUME NEW pool PROVE Matched({}, pool)
<1> DEFINE g == [k \in {} |-> k]
<1>1. g \in [{} -> pool]
  OBVIOUS
<1>2. QED
  BY <1>1 DEF Matched

\* The property in terms of the two sets the lemmas are about.
LEMMA MatchedInv == NoLostWakeup <=> (Sleeping # {} => Matched(FreeKeys, Awake))
BY DEF NoLostWakeup, Matched, Awake

\* A step that neither wakes nor puts to sleep, and leaves the queue alone.
LEMMA WakeupFrame ==
  ASSUME NoLostWakeup, pending' = pending, active' = active, Sleeping' = Sleeping, Awake' = Awake
  PROVE  NoLostWakeup'
<1>1. FreeKeys' = FreeKeys
  BY DEF FreeKeys
<1>2. (NoLostWakeup <=> (Sleeping # {} => Matched(FreeKeys, Awake)))'
  BY MatchedInv, PTL
<1>3. (Sleeping # {} => Matched(FreeKeys, Awake))'
  BY <1>1, MatchedInv DEF Matched
<1>4. QED
  BY <1>2, <1>3

\* A submission signals, a turn of the loop takes at most one key, a release wakes all.
LEMMA WakeupStep == TypeOK /\ NoLostWakeup /\ [Next]_vars => NoLostWakeup'
<1> SUFFICES ASSUME TypeOK, NoLostWakeup, [Next]_vars PROVE NoLostWakeup'
  OBVIOUS
<1> USE DEF queueVars, submitVars
<1>1. (NoLostWakeup <=> (Sleeping # {} => Matched(FreeKeys, Awake)))'
  BY MatchedInv, PTL
<1>2. /\ worker \in [Workers -> WorkerState] /\ pending \in Seq(Ops)
      /\ KeyOf \in [Ops -> Keys]
  BY WriterAssumption DEF TypeOK
<1>3. Sleeping # {} => Matched(FreeKeys, Awake)
  BY MatchedInv
<1>4. ASSUME NEW op \in Ops, Submit(op) PROVE NoLostWakeup'
  <2>1. FreeKeys' \subseteq FreeKeys \cup {KeyOf[op]}
    <3>1. pending' = Append(pending, op) /\ active' = active
      BY <1>4 DEF Submit
    <3>2. ASSUME NEW i \in DOMAIN pending'
          PROVE  pending'[i] = op \/ (i \in DOMAIN pending /\ pending'[i] = pending[i])
      <4>1. i \in 1..(Len(pending) + 1)
        BY <1>2, <3>1
      <4>2. CASE i = Len(pending) + 1
        BY <1>2, <3>1, <4>2
      <4>3. CASE i \in 1..Len(pending)
        BY <1>2, <3>1, <4>3
      <4>4. QED
        BY <1>2, <4>1, <4>2, <4>3
    <3>3. QED
      BY <3>1, <3>2 DEF FreeKeys
  <2>2. CASE Sleeping = {}
    <3>1. Sleeping' = {}
      BY <1>4, <2>2 DEF Submit, Signal, Sleeping
    <3>2. QED
      BY <1>1, <3>1
  <2>3. CASE Sleeping # {}
    <3>1. PICK w \in Sleeping : worker' = [worker EXCEPT ![w] = Idle("awake")]
      BY <1>4, <2>3 DEF Submit, Signal
    <3>2. Awake' = Awake \cup {w} /\ w \notin Awake
      BY <1>2, <3>1 DEF Awake, Sleeping, Idle
    <3>3. Matched(FreeKeys \cup {KeyOf[op]}, Awake')
      BY <1>3, <2>3, <3>2, MatchedOneMore
    <3>4. Matched(FreeKeys', Awake')
      BY <2>1, <3>3, MatchedMonotone
    <3>5. QED
      BY <1>1, <3>4 DEF Matched
  <2>4. QED
    BY <2>2, <2>3
<1>5. ASSUME NEW op \in Ops, RefuseSubmit(op) \/ CompleteRefused(op) PROVE NoLostWakeup'
  BY <1>5, WakeupFrame DEF RefuseSubmit, CompleteRefused, Sleeping, Awake
<1>6. ASSUME NEW w \in Workers, Execute(w) \/ Complete(w) \/ ObserveStateResult(w)
      PROVE  NoLostWakeup'
  <2>1. /\ pending' = pending /\ active' = active
        /\ worker[w].pc \notin {"awake", "waiting"} /\ worker'[w].pc \notin {"awake", "waiting"}
        /\ \A v \in Workers \ {w} : worker'[v] = worker[v]
    BY <1>2, <1>6 DEF Execute, Complete, ObserveStateResult, WorkerState
  <2>2. Sleeping' = Sleeping /\ Awake' = Awake
    BY <2>1 DEF Sleeping, Awake
  <2>3. QED
    BY <2>1, <2>2, WakeupFrame
<1>7. ASSUME NEW w \in Workers, Wake(w) PROVE NoLostWakeup'
  <2>1. worker[w].pc = "awake" /\ NextRunnable(w, active, worker)
    BY <1>7 DEF Wake
  <2>2. CASE \E i \in DOMAIN pending : IsNext(i, active) /\ pending' = Without(i)
                 /\ active' = active \cup {KeyOf[pending[i]]}
                 /\ worker' = [worker EXCEPT ![w] =
                                 [pc |-> "execute", op |-> pending[i], outcome |-> "none"]]
    <3>1. PICK i \in DOMAIN pending :
             /\ IsNext(i, active) /\ pending' = Without(i)
             /\ active' = active \cup {KeyOf[pending[i]]}
             /\ worker' = [worker EXCEPT ![w] =
                             [pc |-> "execute", op |-> pending[i], outcome |-> "none"]]
      BY <2>2
    <3>2. KeyOf[pending[i]] \in FreeKeys
      BY <3>1 DEF IsNext, Runnable, FreeKeys
    <3>3. FreeKeys' \subseteq FreeKeys \ {KeyOf[pending[i]]}
      <4>1. \A j \in DOMAIN pending' : \E k \in DOMAIN pending : pending'[j] = pending[k]
        BY <1>2, <3>1, WithoutOrder
      <4>2. QED
        BY <3>1, <4>1 DEF FreeKeys
    <3>4. Awake' = Awake \ {w} /\ Sleeping' = Sleeping
      BY <1>2, <2>1, <3>1 DEF Awake, Sleeping
    <3>5. CASE Sleeping # {}
      <4>1. Matched(FreeKeys \ {KeyOf[pending[i]]}, Awake')
        BY <1>3, <3>2, <3>4, <3>5, MatchedOneLess
      <4>2. Matched(FreeKeys', Awake')
        BY <3>3, <4>1, MatchedMonotone
      <4>3. QED
        BY <1>1, <4>2 DEF Matched
    <3>6. CASE Sleeping = {}
      BY <1>1, <3>4, <3>6
    <3>7. QED
      BY <3>5, <3>6
  <2>3. CASE (\A i \in DOMAIN pending : ~Runnable(i, active)) /\ active' = active
             /\ UNCHANGED pending
    <3>1. FreeKeys' = {}
      BY <2>3 DEF FreeKeys, Runnable
    <3>2. Matched(FreeKeys', Awake')
      BY <3>1, MatchedNone
    <3>3. QED
      BY <1>1, <3>2 DEF Matched
  <2>4. QED
    BY <2>1, <2>2, <2>3 DEF NextRunnable
<1>8. ASSUME NEW w \in Workers, Release(w) PROVE NoLostWakeup'
  <2> DEFINE busy == active \ {KeyOf[worker[w].op]}
  <2>1. worker[w].pc = "release" /\ NextRunnable(w, busy, Woken)
    BY <1>8 DEF Release
  <2>2. \A v \in Workers : Woken[v].pc # "waiting"
    BY DEF Woken, Sleeping, Idle
  <2> HIDE DEF busy
  <2>3. CASE \E i \in DOMAIN pending : worker' = [Woken EXCEPT ![w] =
                                 [pc |-> "execute", op |-> pending[i], outcome |-> "none"]]
    <3>1. Woken \in [Workers -> WorkerState]
      BY <1>2, WokenType
    <3>2. Sleeping' = {}
      BY <2>2, <2>3, <3>1 DEF Sleeping
    <3>3. QED
      BY <1>1, <3>2
  <2>4. CASE (\A i \in DOMAIN pending : ~Runnable(i, busy)) /\ active' = busy
             /\ UNCHANGED pending
    <3>1. FreeKeys' = {}
      BY <2>4 DEF FreeKeys, Runnable
    <3>2. Matched(FreeKeys', Awake')
      BY <3>1, MatchedNone
    <3>3. QED
      BY <1>1, <3>2 DEF Matched
  <2>5. QED
    BY <2>1, <2>3, <2>4 DEF NextRunnable
<1>9. ASSUME BeginClose PROVE NoLostWakeup'
  <2>1. Sleeping' = {}
    BY <1>9 DEF BeginClose, Woken, Sleeping, Idle
  <2>2. QED
    BY <1>1, <2>1
<1>10. ASSUME EndClose \/ UNCHANGED vars PROVE NoLostWakeup'
  BY <1>10, WakeupFrame DEF EndClose, vars, Sleeping, Awake
<1>11. QED
  BY <1>4, <1>5, <1>6, <1>7, <1>8, <1>9, <1>10 DEF Next, WorkerStep

\* No worker sleeps beside work that nobody is on the way to take.
THEOREM NoLostWakeupCorrect == Spec => []NoLostWakeup
<1>1. Init => NoLostWakeup
  <2>1. Init => Sleeping = {}
    BY DEF Init, Sleeping, Idle
  <2>2. QED
    BY <2>1, MatchedInv
<1>2. QED
  BY <1>1, TypeCorrect, WakeupStep, PTL DEF Spec

(***************************************************************************)
(* The writes of one key in the queue.                                     *)
(***************************************************************************)

\* Induction, for a property given as a set.
LEMMA NatSetInduction ==
  ASSUME NEW S, 0 \in S, \A n \in Nat : n \in S => n + 1 \in S
  PROVE  \A n \in Nat : n \in S
<1> SUFFICES ASSUME Nat \ S # {} PROVE FALSE
  OBVIOUS
<1> DEFINE R == {ss \in Nat \X Nat : ss[1] < ss[2]}
           T == Nat \ S
<1>1. IsWellFoundedOn(R, Nat)
  BY NatLessThanWellFounded DEF OpToRel
<1>2. T \subseteq Nat /\ T # {}
  OBVIOUS
<1> HIDE DEF T, R
<1>3. \E x \in T : \A y \in T : <<y, x>> \notin R
  BY <1>1, <1>2, WFMin
<1> USE DEF T, R
<1>4. PICK x \in T : \A y \in T : ~(y < x)
  BY <1>3
<1>5. x # 0 /\ x - 1 \in Nat /\ x - 1 \in T
  BY <1>4
<1>6. QED
  BY <1>4, <1>5

\* The equation that the function inside OfKey satisfies, if any function does.
Prefixes(s, k, f) ==
  f = [n \in 0..Len(s) |-> IF n = 0 THEN <<>>
                           ELSE IF KeyOf[s[n]] = k THEN Append(f[n - 1], s[n])
                           ELSE f[n - 1]]

\* Such a function exists for every sequence of writes, whatever its length.
LEMMA PrefixesExist ==
  ASSUME NEW s \in Seq(Ops), NEW k
  PROVE  \E f : Prefixes(s, k, f)
<1> DEFINE Good(m, f) ==
             /\ f = [n \in 0..Len(s) |-> f[n]]
             /\ \A n \in 0..m : n <= Len(s) => 
                 f[n] = IF n = 0 THEN <<>>
                        ELSE IF KeyOf[s[n]] = k THEN Append(f[n - 1], s[n]) ELSE f[n - 1]
           S == {m \in Nat : \E f : Good(m, f)}
<1>0. Len(s) \in Nat
  OBVIOUS
<1>1. 0 \in S
  <2>1. Good(0, [n \in 0..Len(s) |-> <<>>])
    OBVIOUS
  <2>2. QED
    BY <2>1
<1>2. ASSUME NEW m \in Nat, m \in S PROVE m + 1 \in S
  <2>1. PICK f : Good(m, f)
    BY <1>2
  <2> DEFINE v == IF KeyOf[s[m + 1]] = k THEN Append(f[m], s[m + 1]) ELSE f[m]
             g == [n \in 0..Len(s) |-> IF n = m + 1 THEN v ELSE f[n]]
  <2>2. /\ g = [n \in 0..Len(s) |-> g[n]]
        /\ m + 1 <= Len(s) => g[m + 1] = v
        /\ \A n \in 0..m : n <= Len(s) => g[n] = f[n]
    BY <1>0
  <2> HIDE DEF g
  <2>3. ASSUME NEW n \in 0..(m + 1), n <= Len(s)
        PROVE g[n] = IF n = 0 THEN <<>>
                     ELSE IF KeyOf[s[n]] = k THEN Append(g[n - 1], s[n]) ELSE g[n - 1]
    <3>1. CASE n = m + 1
      <4>1. n # 0 /\ n - 1 = m /\ m <= Len(s) /\ g[n] = v /\ g[m] = f[m]
        BY <1>0, <2>2, <2>3, <3>1
      <4>2. QED
        BY <3>1, <4>1
    <3>2. CASE n # m + 1
      <4>1. n \in 0..m /\ g[n] = f[n] /\ (n # 0 => n - 1 \in 0..m /\ n - 1 <= Len(s))
        BY <1>0, <2>2, <2>3, <3>2
      <4>2. n # 0 => g[n - 1] = f[n - 1]
        BY <2>2, <4>1
      <4>3. QED
        BY <2>1, <2>3, <4>1, <4>2
    <3>3. QED
      BY <3>1, <3>2
  <2>4. Good(m + 1, g)
    BY <2>2, <2>3
  <2>5. QED
    BY <2>4
<1>3. Len(s) \in S
  <2> HIDE DEF S
  <2>1. QED
    BY <1>0, <1>1, <1>2, NatSetInduction
<1>4. PICK f : Good(Len(s), f)
  BY <1>3
<1>5. Prefixes(s, k, f)
  BY <1>4 DEF Prefixes
<1>6. QED
  BY <1>5

\* f has the writes of the key in each prefix of s.
Collects(f, s, k) ==
  /\ f[0] = <<>>
  /\ \A n \in 1..Len(s) :
       f[n] = IF KeyOf[s[n]] = k THEN Append(f[n - 1], s[n]) ELSE f[n - 1]

\* OfKey walks the sequence from its first write to its last.
LEMMA OfKeyPrefixes ==
  ASSUME NEW s \in Seq(Ops), NEW k
  PROVE  \E f : Collects(f, s, k) /\ OfKey(s, k) = f[Len(s)]
<1> DEFINE f == CHOOSE f : Prefixes(s, k, f)
<1>1. Prefixes(s, k, f)
  BY PrefixesExist
<1>2. OfKey(s, k) = f[Len(s)]
  BY DEF OfKey, Prefixes
<1> HIDE DEF f
<1> DEFINE Value(n) == IF n = 0 THEN <<>>
                       ELSE IF KeyOf[s[n]] = k THEN Append(f[n - 1], s[n]) ELSE f[n - 1]
           g == [n \in 0..Len(s) |-> Value(n)]
<1>3. f = g
  BY <1>1 DEF Prefixes
<1>4. \A n \in 0..Len(s) : g[n] = Value(n)
  OBVIOUS
<1> HIDE DEF g
<1>5. \A n \in 0..Len(s) : f[n] = Value(n)
  BY <1>3, <1>4
<1>6. Len(s) \in Nat
  OBVIOUS
<1>7. Collects(f, s, k)
  BY <1>5, <1>6 DEF Collects
<1>8. QED
  BY <1>2, <1>7

\* The writes of a key are writes of the sequence that have the key.
LEMMA OfKeyElements ==
  ASSUME NEW s \in Seq(Ops), NEW k
  PROVE  /\ OfKey(s, k) \in Seq(Ops)
         /\ \A m \in 1..Len(OfKey(s, k)) :
              \E i \in 1..Len(s) : s[i] = OfKey(s, k)[m] /\ KeyOf[s[i]] = k
<1>1. Len(s) \in Nat
  OBVIOUS
<1>2. PICK f : Collects(f, s, k) /\ OfKey(s, k) = f[Len(s)]
  BY OfKeyPrefixes
<1> DEFINE Good(n) == /\ f[n] \in Seq(Ops)
                      /\ \A m \in 1..Len(f[n]) :
                           \E i \in 1..Len(s) : s[i] = f[n][m] /\ KeyOf[s[i]] = k
           S == {n \in Nat : n <= Len(s) => Good(n)}
<1>3. 0 \in S
  <2>1. f[0] = <<>>
    BY <1>2 DEF Collects
  <2>2. f[0] \in Seq(Ops) /\ Len(f[0]) = 0
    BY <2>1
  <2>3. 1..Len(f[0]) = {}
    BY <2>2
  <2> QED
    BY <2>2, <2>3
<1>4. ASSUME NEW n \in Nat, n \in S PROVE n + 1 \in S
  <2>1. SUFFICES ASSUME n + 1 <= Len(s) PROVE Good(n + 1)
    OBVIOUS
  <2>2. Good(n) /\ n + 1 \in 1..Len(s) /\ (n + 1) - 1 = n /\ s[n + 1] \in Ops
    BY <1>1, <1>4, <2>1
  <2>3. CASE KeyOf[s[n + 1]] = k
    <3>1. f[n + 1] = Append(f[n], s[n + 1])
      BY <1>2, <2>2, <2>3 DEF Collects
    <3>2. QED
      BY <2>2, <2>3, <3>1
  <2>4. CASE KeyOf[s[n + 1]] # k
    <3>1. f[n + 1] = f[n]
      BY <1>2, <2>2, <2>4 DEF Collects
    <3>2. QED
      BY <2>2, <3>1
  <2>5. QED
    BY <2>3, <2>4
<1>5. Good(Len(s))
  <2> HIDE DEF S
  <2>1. Len(s) \in S
    BY <1>1, <1>3, <1>4, NatSetInduction
  <2>2. QED
    BY <1>1, <2>1 DEF S
<1>6. QED
  BY <1>2, <1>5 DEF Collects

\* A write at the end of the sequence is at the end of the writes of its key.
LEMMA OfKeyAppend ==
  ASSUME NEW s \in Seq(Ops), NEW x \in Ops, NEW k
  PROVE  OfKey(Append(s, x), k) = IF KeyOf[x] = k THEN Append(OfKey(s, k), x) ELSE OfKey(s, k)
<1> DEFINE t == Append(s, x)
<1>1. /\ Len(s) \in Nat /\ t \in Seq(Ops) /\ Len(t) = Len(s) + 1
      /\ t[Len(s) + 1] = x /\ \A i \in 1..Len(s) : t[i] = s[i]
  OBVIOUS
<1> HIDE DEF t
<1>2. PICK f : Collects(f, s, k) /\ OfKey(s, k) = f[Len(s)]
  BY OfKeyPrefixes
<1>3. PICK g : Collects(g, t, k) /\ OfKey(t, k) = g[Len(t)]
  BY <1>1, OfKeyPrefixes
<1> DEFINE S == {n \in Nat : n <= Len(s) => g[n] = f[n]}
<1>4. 0 \in S
  BY <1>2, <1>3 DEF Collects
<1>5. ASSUME NEW n \in Nat, n \in S PROVE n + 1 \in S
  <2>1. SUFFICES ASSUME n + 1 <= Len(s) PROVE g[n + 1] = f[n + 1]
    OBVIOUS
  <2>2. /\ g[n] = f[n] /\ n + 1 \in 1..Len(s) /\ n + 1 \in 1..Len(t) /\ (n + 1) - 1 = n
        /\ t[n + 1] = s[n + 1]
    BY <1>1, <1>5, <2>1
  <2>3. QED
    BY <1>2, <1>3, <2>2 DEF Collects
<1>6. g[Len(s)] = f[Len(s)]
  <2> HIDE DEF S
  <2>1. Len(s) \in S
    BY <1>1, <1>4, <1>5, NatSetInduction
  <2>2. QED
    BY <1>1, <2>1 DEF S
<1>7. Len(t) \in 1..Len(t) /\ Len(t) - 1 = Len(s) /\ t[Len(t)] = x
  BY <1>1
<1>8. QED
  <2>1. OfKey(t, k) = IF KeyOf[x] = k THEN Append(g[Len(s)], x) ELSE g[Len(s)]
    BY <1>3, <1>7 DEF Collects
  <2>2. QED
    BY <1>2, <1>6, <2>1 DEF t

\* Putting a write in front of a sequence and one behind it can be done in any order.
LEMMA PushAppend ==
  ASSUME NEW S, NEW a \in S, NEW s \in Seq(S), NEW x \in S
  PROVE  <<a>> \o Append(s, x) = Append(<<a>> \o s, x)
<1>1. <<a>> \in Seq(S) /\ <<x>> \in Seq(S) /\ <<a>> \o s \in Seq(S)
  OBVIOUS
<1>2. Append(s, x) = s \o <<x>> /\ Append(<<a>> \o s, x) = (<<a>> \o s) \o <<x>>
  BY <1>1, AppendIsConcat
<1>3. QED
  BY <1>1, <1>2, ConcatAssociative

\* t is s without its i-th write; no write before the i-th has its key if that is k.
IsWithout(t, s, i) ==
  /\ Len(t) = Len(s) - 1
  /\ \A j \in 1..Len(t) : t[j] = IF j < i THEN s[j] ELSE s[j + 1]

FirstOfKey(s, i, k) == KeyOf[s[i]] = k => \A j \in 1..(i - 1) : KeyOf[s[j]] # k

\* Taking one write out of the sequence takes it from the writes of its key, from their
\* head when no earlier write has the key, and leaves the other keys alone.
LEMMA OfKeyTaken ==
  ASSUME NEW s \in Seq(Ops), NEW i \in 1..Len(s), NEW t \in Seq(Ops), NEW k,
         IsWithout(t, s, i), FirstOfKey(s, i, k)
  PROVE  OfKey(s, k) = IF KeyOf[s[i]] = k THEN <<s[i]>> \o OfKey(t, k) ELSE OfKey(t, k)
<1> USE DEF IsWithout, FirstOfKey
<1>1. /\ Len(s) \in Nat /\ Len(t) \in Nat /\ i \in Nat /\ i - 1 \in 0..Len(t) /\ s[i] \in Ops
      /\ Len(t) + 1 = Len(s)
  OBVIOUS
<1>p. \A u \in Seq(Ops), x \in Ops : <<s[i]>> \o Append(u, x) = Append(<<s[i]>> \o u, x)
  BY <1>1, PushAppend
<1>2. PICK f : Collects(f, s, k) /\ OfKey(s, k) = f[Len(s)]
  BY OfKeyPrefixes
<1>3. PICK g : Collects(g, t, k) /\ OfKey(t, k) = g[Len(t)]
  BY <1>1, OfKeyPrefixes
<1> DEFINE Taken(n) == IF KeyOf[s[i]] = k THEN <<s[i]>> \o g[n] ELSE g[n]
           Good(n) == /\ g[n] \in Seq(Ops)
                      /\ n < i => g[n] = f[n]
                      /\ n < i /\ KeyOf[s[i]] = k => g[n] = <<>>
                      /\ n >= i - 1 => f[n + 1] = Taken(n)
           S == {n \in Nat : n <= Len(t) => Good(n)}
<1>4. ASSUME g[i - 1] = f[i - 1], g[i - 1] \in Seq(Ops), KeyOf[s[i]] = k => g[i - 1] = <<>>
      PROVE  f[i] = Taken(i - 1)
  <2>1. f[i] = IF KeyOf[s[i]] = k THEN Append(g[i - 1], s[i]) ELSE g[i - 1]
    BY <1>1, <1>2, <1>4 DEF Collects
  <2>2. Append(<<>>, s[i]) = <<s[i]>> \o <<>>
    BY <1>1
  <2> HIDE DEF Good, S
  <2>3. QED
    BY <1>4, <2>1, <2>2
<1>5. 0 \in S
  <2>1. g[0] = <<>> /\ f[0] = <<>> /\ g[0] \in Seq(Ops)
    BY <1>2, <1>3 DEF Collects
  <2>2. 0 >= i - 1 => f[0 + 1] = Taken(0)
    <3>1. SUFFICES ASSUME 0 >= i - 1 PROVE f[0 + 1] = Taken(0)
      OBVIOUS
    <3>2. i = 1 /\ i - 1 = 0 /\ 0 + 1 = i
      BY <1>1, <3>1
    <3>3. g[i - 1] = f[i - 1] /\ g[i - 1] \in Seq(Ops) /\ g[i - 1] = <<>>
      BY <2>1, <3>2
    <3>4. f[i] = Taken(i - 1)
      BY <1>4, <3>3
    <3>5. QED
      BY <3>2, <3>4
  <2> HIDE DEF Taken
  <2>3. QED
    BY <2>1, <2>2
<1>6. ASSUME NEW n \in Nat, n \in S PROVE n + 1 \in S
  <2>1. SUFFICES ASSUME n + 1 <= Len(t) PROVE Good(n + 1)
    OBVIOUS
  <2>2. Good(n) /\ n + 1 \in 1..Len(t) /\ (n + 1) - 1 = n /\ t[n + 1] \in Ops
    BY <1>1, <1>6, <2>1
  <2>3. g[n + 1] = IF KeyOf[t[n + 1]] = k THEN Append(g[n], t[n + 1]) ELSE g[n]
    BY <1>3, <2>2 DEF Collects
  <2>4. g[n + 1] \in Seq(Ops)
    BY <2>2, <2>3
  <2>5. CASE n + 1 < i
    <3>1. t[n + 1] = s[n + 1] /\ n + 1 \in 1..Len(s) /\ n < i /\ n + 1 \in 1..(i - 1)
      BY <1>1, <2>2, <2>5, SMTT(30)
    <3>2. f[n + 1] = IF KeyOf[t[n + 1]] = k THEN Append(f[n], t[n + 1]) ELSE f[n]
      BY <1>2, <2>2, <3>1 DEF Collects
    <3>3. g[n + 1] = f[n + 1]
      BY <2>2, <2>3, <3>1, <3>2
    <3>4. KeyOf[s[i]] = k => g[n + 1] = <<>>
      BY <2>2, <2>3, <3>1
    <3>5. n + 1 >= i - 1 => f[n + 2] = Taken(n + 1)
      <4>1. SUFFICES ASSUME n + 1 >= i - 1 PROVE f[n + 2] = Taken(n + 1)
        OBVIOUS
      <4>2. n + 1 = i - 1 /\ n + 2 = i
        BY <1>1, <2>5, <4>1
      <4>3. QED
        BY <1>4, <2>4, <3>3, <3>4, <4>2
    <3>6. n + 1 + 1 = n + 2
      OBVIOUS
    <3>7. QED
      BY <2>4, <3>3, <3>4, <3>5, <3>6
  <2>6. CASE ~(n + 1 < i)
    <3>1. /\ t[n + 1] = s[n + 2] /\ n + 2 \in 1..Len(s) /\ (n + 2) - 1 = n + 1 /\ n >= i - 1
          /\ n + 1 + 1 = n + 2
      <4>1. n + 1 >= i /\ i \in Int
        BY <1>1, <2>6
      <4>2. t[n + 1] = s[(n + 1) + 1]
        BY <2>2, <4>1
      <4>3. QED
        BY <1>1, <2>2, <4>1, <4>2
    <3>2. f[n + 2] = IF KeyOf[t[n + 1]] = k THEN Append(f[n + 1], t[n + 1]) ELSE f[n + 1]
      BY <1>2, <3>1 DEF Collects
    <3>3. f[n + 1] = Taken(n)
      BY <2>2, <3>1
    <3>4. <<s[i]>> \o Append(g[n], t[n + 1]) = Append(<<s[i]>> \o g[n], t[n + 1])
      <4>1. g[n] \in Seq(Ops)
        BY <2>2
      <4> HIDE DEF Good
      <4>2. QED
        BY <1>p, <2>2, <4>1
    <3>5. f[n + 2] = Taken(n + 1)
      BY <2>3, <3>2, <3>3, <3>4
    <3>6. QED
      BY <2>4, <2>6, <3>1, <3>5
  <2>7. QED
    BY <2>5, <2>6
<1>7. Good(Len(t))
  <2> HIDE DEF S
  <2>1. Len(t) \in S
    BY <1>1, <1>5, <1>6, NatSetInduction
  <2>2. QED
    BY <1>1, <2>1 DEF S
<1>8. QED
  BY <1>1, <1>2, <1>3, <1>7 DEF Collects

(***************************************************************************)
(* The writer implements OrderedStore.                                     *)
(***************************************************************************)

\* A key of which nobody executes a write has its pending writes for a queue.
LEMMA QueueIdle ==
  ASSUME NEW k, \A w \in Workers : worker[w].pc = "execute" => KeyOf[worker[w].op] # k
  PROVE  Queue(k) = OfKey(pending, k)
BY DEF Queue, InExecution

\* The write a worker executes heads the queue of its key.
LEMMA QueueBusy ==
  ASSUME IInv, NEW w \in Workers, worker[w].pc = "execute"
  PROVE  Queue(KeyOf[worker[w].op]) = <<worker[w].op>> \o OfKey(pending, KeyOf[worker[w].op])
<1> DEFINE op == worker[w].op
<1>1. op \in Ops
  BY DEF IInv, HoldInv, Held, Holding
<1>2. ASSUME NEW p \in InExecution(KeyOf[op]) PROVE p = op
  BY <1>2 DEF InExecution, IInv, KeyExclusive, Holding
<1>3. op \in InExecution(KeyOf[op])
  BY <1>1 DEF InExecution
<1>4. InExecution(KeyOf[op]) = {op}
  BY <1>2, <1>3
<1>5. (CHOOSE p \in InExecution(KeyOf[op]) : TRUE) = op
  BY <1>4
<1>6. QED
  BY <1>4, <1>5 DEF Queue

\* OfKey has no state of its own.
LEMMA OfKeyNext == ASSUME NEW k PROVE OfKey(pending, k)' = OfKey(pending', k)
BY DEF OfKey

\* A step that leaves the queue and the executing workers alone leaves every
\* queue of OrderedStore alone.
LEMMA QueueSame ==
  ASSUME UNCHANGED pending,
         \A w \in Workers : worker[w].pc = "execute" \/ worker'[w].pc = "execute" =>
                              worker'[w] = worker[w]
  PROVE  \A k \in Keys : Queue(k)' = Queue(k)
<1> SUFFICES ASSUME NEW k \in Keys PROVE Queue(k)' = Queue(k)
  OBVIOUS
<1>1. InExecution(k)' = InExecution(k)
  BY DEF InExecution
<1>2. QED
  BY <1>1 DEF Queue

\* The turn of the loop moves a write from the head of its key's pending writes to
\* the hands of the worker, where the queue of the key still has it at its head.
LEMMA QueueTurn ==
  ASSUME IInv, IInv', NEW w \in Workers, NEW busy, NEW pool, Turn(w, busy, pool)
  PROVE  \A k \in Keys : Queue(k)' = Queue(k)
<1>1. \A v \in Workers \ {w} : /\ worker'[v] = pool[v]
                               /\ worker[v].pc = "execute" \/ worker'[v].pc = "execute" =>
                                    worker'[v] = worker[v]
  BY DEF Turn, NextRunnable, Idle
<1>2. worker[w].pc # "execute"
  BY DEF Turn
<1>3. CASE UNCHANGED pending /\ worker'[w].pc # "execute"
  BY <1>1, <1>2, <1>3, QueueSame
<1>4. CASE \E i \in DOMAIN pending :
             /\ IsNext(i, busy)
             /\ pending' = Without(i)
             /\ worker'[w] = [pc |-> "execute", op |-> pending[i], outcome |-> "none"]
  <2>1. PICK i \in DOMAIN pending :
             /\ IsNext(i, busy)
             /\ pending' = Without(i)
             /\ worker'[w] = [pc |-> "execute", op |-> pending[i], outcome |-> "none"]
    BY <1>4
  <2>2. /\ pending \in Seq(Ops) /\ i \in 1..Len(pending) /\ pending[i] \in Ops
        /\ pending' \in Seq(Ops) /\ Len(pending') = Len(pending) - 1
        /\ DOMAIN pending = 1..Len(pending) /\ Len(pending) \in Nat
    <3>1. pending \in Seq(Ops)
      BY DEF IInv, TypeOK
    <3>2. DOMAIN pending = 1..Len(pending) /\ Len(pending) \in Nat /\ pending[i] \in Ops
      BY <3>1
    <3>3. pending' \in Seq(Ops) /\ Len(pending') = Len(pending) - 1
      BY <2>1, <3>1, WithoutType
    <3>4. QED
      BY <3>1, <3>2, <3>3
  <2>3. \A j \in 1..Len(pending') : pending'[j] = IF j < i THEN pending[j] ELSE pending[j + 1]
    BY <2>1, <2>2 DEF Without
  <2>4. \A j \in 1..(i - 1) : KeyOf[pending[j]] # KeyOf[pending[i]]
    <3>1. SUFFICES ASSUME NEW j \in 1..(i - 1) PROVE KeyOf[pending[j]] # KeyOf[pending[i]]
      OBVIOUS
    <3>2. j \in DOMAIN pending /\ j < i
      BY <2>2
    <3>3. QED
      BY <2>1, <3>2 DEF IsNext, Runnable
  <2>5. ASSUME NEW k \in Keys
        PROVE  OfKey(pending, k) = IF KeyOf[pending[i]] = k
                                   THEN <<pending[i]>> \o OfKey(pending', k)
                                   ELSE OfKey(pending', k)
    <3>1. FirstOfKey(pending, i, k)
      BY <2>4 DEF FirstOfKey
    <3> DEFINE t == pending'
    <3>2. t \in Seq(Ops) /\ IsWithout(t, pending, i)
      BY <2>2, <2>3 DEF IsWithout
    <3>3. pending \in Seq(Ops) /\ i \in 1..Len(pending)
      BY <2>2
    <3> HIDE DEF t
    <3>4. OfKey(pending, k) = IF KeyOf[pending[i]] = k
                              THEN <<pending[i]>> \o OfKey(t, k) ELSE OfKey(t, k)
      BY <3>1, <3>2, <3>3, OfKeyTaken
    <3>5. QED
      BY <3>4 DEF t
  <2>6. ASSUME NEW k \in Keys, k # KeyOf[pending[i]] PROVE Queue(k)' = Queue(k)
    <3>1. OfKey(pending, k)' = OfKey(pending, k)
      BY <2>5, <2>6, OfKeyNext
    <3>2. InExecution(k)' = InExecution(k)
      BY <1>1, <1>2, <2>1, <2>6 DEF InExecution
    <3>3. QED
      BY <3>1, <3>2 DEF Queue
  <2>7. ASSUME NEW k \in Keys, k = KeyOf[pending[i]] PROVE Queue(k)' = Queue(k)
    <3>1. k \notin busy
      BY <2>1, <2>2, <2>7 DEF IsNext, Runnable
    <3>2. \A v \in Workers : worker[v].pc = "execute" => KeyOf[worker[v].op] # k
      BY <1>2, <3>1 DEF Turn, Holding
    <3>3. Queue(k) = OfKey(pending, k)
      BY <3>2, QueueIdle
    <3>4. InExecution(k)' = {pending[i]}
      <4>1. \A v \in Workers \ {w} : worker'[v].pc = "execute" => KeyOf[worker'[v].op] # k
        BY <1>1, <3>2
      <4>2. worker'[w].pc = "execute" /\ worker'[w].op = pending[i]
        BY <2>1
      <4>3. QED
        BY <2>2, <2>7, <4>1, <4>2 DEF InExecution
    <3>5. (CHOOSE op \in InExecution(k)' : TRUE) = pending[i]
      BY <3>4
    <3>6. Queue(k)' = <<pending[i]>> \o OfKey(pending', k)
      BY <3>4, <3>5, OfKeyNext DEF Queue
    <3>7. QED
      BY <2>5, <2>7, <3>3, <3>6
  <2>8. QED
    BY <2>6, <2>7
<1>5. QED
  BY <1>3, <1>4 DEF Turn, NextRunnable, Idle

\* Every write in a queue of OrderedStore was accepted.
LEMMA QueueElements ==
  ASSUME IInv, NEW k \in Keys
  PROVE  /\ Queue(k) \in Seq(Ops)
         /\ \A i \in DOMAIN Queue(k) : admission[Queue(k)[i]] = "accepted"
<1> DEFINE waiting == OfKey(pending, k)
<1>1. pending \in Seq(Ops) /\ DOMAIN pending = 1..Len(pending)
  BY DEF IInv, TypeOK
<1>2. /\ waiting \in Seq(Ops)
      /\ \A m \in 1..Len(waiting) : \E i \in 1..Len(pending) : pending[i] = waiting[m]
  BY <1>1, OfKeyElements
<1>3. \A m \in 1..Len(waiting) : admission[waiting[m]] = "accepted"
  <2>1. \A i \in 1..Len(pending) : admission[pending[i]] = "accepted"
    BY <1>1 DEF IInv, QueueInv
  <2>2. QED
    BY <1>2, <2>1
<1>4. CASE \A w \in Workers : worker[w].pc = "execute" => KeyOf[worker[w].op] # k
  <2>1. Queue(k) = waiting
    BY <1>4, QueueIdle
  <2>2. QED
    BY <1>2, <1>3, <2>1
<1>5. ASSUME NEW w \in Workers, worker[w].pc = "execute", KeyOf[worker[w].op] = k
      PROVE  /\ Queue(k) \in Seq(Ops)
             /\ \A i \in DOMAIN Queue(k) : admission[Queue(k)[i]] = "accepted"
  <2>1. PICK op \in Ops : op = worker[w].op /\ admission[op] = "accepted"
    BY <1>5 DEF IInv, HoldInv, Held, Holding
  <2>2. Queue(k) = <<op>> \o waiting
    BY <1>5, <2>1, QueueBusy
  <2> HIDE DEF waiting
  <2>3. /\ Queue(k) \in Seq(Ops) /\ Len(Queue(k)) = Len(waiting) + 1
        /\ Queue(k)[1] = op
        /\ \A i \in 2..Len(Queue(k)) : Queue(k)[i] = waiting[i - 1]
    BY <1>2, <2>1, <2>2
  <2>4. DOMAIN Queue(k) = 1..(Len(waiting) + 1) /\ Len(waiting) \in Nat
    BY <1>2, <2>3
  <2>5. ASSUME NEW i \in DOMAIN Queue(k) PROVE admission[Queue(k)[i]] = "accepted"
    <3>1. CASE i = 1
      BY <2>1, <2>3, <3>1
    <3>2. CASE i # 1
      <4>1. i \in 2..Len(Queue(k)) /\ i - 1 \in 1..Len(waiting)
        BY <2>3, <2>4, <3>2
      <4>2. QED
        BY <1>3, <2>3, <4>1
    <3>3. QED
      BY <3>1, <3>2
  <2>6. QED
    BY <2>3, <2>5
<1>6. QED
  BY <1>4, <1>5

\* What the submitter is told follows from the admission and from the database:
\* between the call and the receipt it is the outcome the worker carries.
ToldOf(op) ==
  IF admission[op] = "none" THEN "none"
  ELSE IF admission[op] # "accepted" THEN "unavailable"
  ELSE IF ~Tried(op) THEN "none"
  ELSE IF Saved(op) THEN "saved" ELSE "failed"

\* Before, during and after its call of the database a write has one answer.
LEMMA AnswerIsTold ==
  ASSUME IInv, NEW op \in Ops
  PROVE  Answer(op) = ToldOf(op)
<1>1. /\ admission[op] \in {"none", "accepted", "queue_full", "lifecycle"}
      /\ receipt[op] \in {"none", "unavailable", "saved", "failed"}
  BY DEF IInv, TypeOK
<1>2. Tried(op) => admission[op] = "accepted"
  BY DEF IInv, TicketInv, HoldInv, Held, Holding, Tried
<1>3. CASE admission[op] = "accepted"
  <2>1. receipt[op] # "unavailable"
    <3>1. InPending(op) => receipt[op] = "none"
      BY DEF InPending, IInv, QueueInv
    <3>2. InHand(op) => receipt[op] = "none"
      BY DEF InHand, IInv, HoldInv, Held, Holding
    <3>3. QED
      BY <1>3, <3>1, <3>2 DEF IInv, PlaceInv
  <2>2. receipt[op] = "failed" => ~Saved(op)
    BY DEF Saved, IInv, HoldInv, Held, Holding
  <2>3. QED
    BY <1>1, <1>3, <2>1, <2>2 DEF Answer, ToldOf, Tried, Saved
<1>4. CASE admission[op] # "accepted"
  BY <1>1, <1>2, <1>4 DEF Answer, ToldOf, Tried, IInv, TicketInv
<1>5. QED
  BY <1>3, <1>4

\* The same in the state after a step.
LEMMA AnswerIsToldNext == IInv' => \A op \in Ops : Answer(op)' = ToldOf(op)'
<1>1. IInv => \A op \in Ops : Answer(op) = ToldOf(op)
  BY AnswerIsTold
<1>2. (IInv => \A op \in Ops : Answer(op) = ToldOf(op))'
  BY <1>1, PTL
<1>3. QED
  BY <1>2

\* The refinement mapping, as two values.
QueueOf  == [k \in Keys |-> Queue(k)]
AnswerOf == [op \in Ops |-> Answer(op)]

\* An admission appends the write to the queue of its key.
LEMMA SubmitStep ==
  ASSUME IInv, IInv', NEW op \in Ops, Submit(op)
  PROVE  Store!Accept(op)
<1>1. /\ admission[op] = "none" /\ admission'[op] = "accepted"
      /\ \A p \in Ops \ {op} : admission'[p] = admission[p]
      /\ pending' = Append(pending, op) /\ pending \in Seq(Ops)
      /\ UNCHANGED disk
  BY DEF Submit, IInv, TypeOK
<1>2. \A w \in Workers : worker[w].pc = "execute" \/ worker'[w].pc = "execute" =>
                           worker'[w] = worker[w]
  BY DEF Submit, Signal, Sleeping, Idle, IInv, TypeOK
<1>3. KeyOf[op] \in Keys
  BY WriterAssumption
<1>4. ASSUME NEW k \in Keys PROVE InExecution(k)' = InExecution(k)
  BY <1>2 DEF InExecution
<1>5. ASSUME NEW k \in Keys
      PROVE  OfKey(pending, k)' = IF KeyOf[op] = k THEN Append(OfKey(pending, k), op)
                                  ELSE OfKey(pending, k)
  BY <1>1, OfKeyAppend, OfKeyNext
<1>6. ASSUME NEW k \in Keys, k # KeyOf[op] PROVE Queue(k)' = Queue(k)
  <2>1. OfKey(pending, k)' = OfKey(pending, k)
    BY <1>5, <1>6
  <2>2. InExecution(k)' = InExecution(k)
    BY <1>4
  <2>3. QED
    BY <2>1, <2>2 DEF Queue
<1>7. Queue(KeyOf[op])' = Append(Queue(KeyOf[op]), op)
  <2> DEFINE k == KeyOf[op]
             waiting == OfKey(pending, k)
             first == CHOOSE p \in InExecution(k) : TRUE
  <2>1. waiting \in Seq(Ops) /\ OfKey(pending, k)' = Append(waiting, op)
    BY <1>1, <1>3, <1>5, OfKeyElements
  <2>2. InExecution(k)' = InExecution(k)
    BY <1>3, <1>4
  <2>3. CASE InExecution(k) = {}
    BY <2>1, <2>2, <2>3 DEF Queue
  <2>4. CASE InExecution(k) # {}
    <3>1. first \in Ops
      BY <2>4 DEF InExecution
    <3> HIDE DEF first
    <3>2. <<first>> \o Append(waiting, op) = Append(<<first>> \o waiting, op)
      <4> HIDE DEF waiting
      <4>1. QED
        BY <2>1, <3>1, PushAppend
    <3>3. Queue(k)' = <<first>> \o Append(waiting, op)
      BY <2>1, <2>2, <2>4 DEF Queue, first
    <3>4. Queue(k) = <<first>> \o waiting
      BY <2>4 DEF Queue, first
    <3>5. QED
      BY <3>2, <3>3, <3>4
  <2>5. QED
    BY <2>3, <2>4
<1>8. QueueOf' = [QueueOf EXCEPT ![KeyOf[op]] = Append(QueueOf[KeyOf[op]], op)]
  BY <1>3, <1>6, <1>7 DEF QueueOf
<1>9. \A p \in Ops : (Tried(p)' <=> Tried(p)) /\ (Saved(p)' <=> Saved(p))
  <2>1. \A w \in Workers : ~Execute(w)
    BY <1>1 DEF Execute, submitVars
  <2>2. QED
    BY <2>1, OnlyExecuteTries DEF Next
<1>10. ~Tried(op)
  BY <1>1 DEF IInv, TicketInv, HoldInv, Held, Holding, Tried
<1>11. \A p \in Ops : ToldOf(p)' = ToldOf(p)
  BY <1>1, <1>9, <1>10 DEF ToldOf
<1>12. AnswerOf' = AnswerOf /\ AnswerOf[op] = "none"
  BY <1>1, <1>11, AnswerIsTold, AnswerIsToldNext DEF AnswerOf, ToldOf
<1>13. ~\E i \in DOMAIN QueueOf[KeyOf[op]] : QueueOf[KeyOf[op]][i] = op
  BY <1>1, <1>3, QueueElements DEF QueueOf
<1>14. QED
  BY <1>1, <1>8, <1>12, <1>13 DEF Store!Accept, Store!Queued, QueueOf, AnswerOf

\* A step that tries no write and decides no admission leaves every answer alone.
LEMMA AnswerSame ==
  ASSUME IInv, IInv', [Next]_vars, \A w \in Workers : ~Execute(w), UNCHANGED admission
  PROVE  AnswerOf' = AnswerOf
<1>1. \A p \in Ops : (Tried(p)' <=> Tried(p)) /\ (Saved(p)' <=> Saved(p))
  BY OnlyExecuteTries
<1>2. \A p \in Ops : ToldOf(p)' = ToldOf(p)
  BY <1>1 DEF ToldOf
<1>3. QED
  BY <1>2, AnswerIsTold, AnswerIsToldNext DEF AnswerOf

\* A refusal is told at once.
LEMMA RefuseStep ==
  ASSUME IInv, IInv', NEW op \in Ops, RefuseSubmit(op)
  PROVE  Store!Refuse(op)
<1>1. /\ admission[op] = "none" /\ admission'[op] \in {"lifecycle", "queue_full"}
      /\ \A p \in Ops \ {op} : admission'[p] = admission[p]
      /\ UNCHANGED <<pending, active, worker, disk>>
  BY DEF RefuseSubmit, queueVars, IInv, TypeOK
<1>2. QueueOf' = QueueOf
  BY <1>1, QueueSame DEF QueueOf
<1>3. \A p \in Ops : (Tried(p)' <=> Tried(p)) /\ (Saved(p)' <=> Saved(p))
  <2>1. \A w \in Workers : ~Execute(w)
    BY <1>1 DEF Execute, submitVars
  <2>2. QED
    BY <2>1, OnlyExecuteTries DEF Next
<1>4. ToldOf(op) = "none" /\ ToldOf(op)' = "unavailable"
  BY <1>1 DEF ToldOf
<1>5. \A p \in Ops \ {op} : ToldOf(p)' = ToldOf(p)
  BY <1>1, <1>3 DEF ToldOf
<1>6. AnswerOf[op] = "none" /\ AnswerOf' = [AnswerOf EXCEPT ![op] = "unavailable"]
  BY <1>4, <1>5, AnswerIsTold, AnswerIsToldNext DEF AnswerOf
<1>7. ~\E i \in DOMAIN QueueOf[KeyOf[op]] : QueueOf[KeyOf[op]][i] = op
  BY <1>1, QueueElements, WriterAssumption DEF QueueOf
<1>8. QED
  BY <1>1, <1>2, <1>6, <1>7 DEF Store!Refuse, Store!Queued, QueueOf, AnswerOf

\* A call of the database tries the head of the queue of its key.
LEMMA ExecuteStep ==
  ASSUME IInv, IInv', NEW w \in Workers, Execute(w)
  PROVE  Store!Try(KeyOf[worker[w].op])
<1>1. PICK op \in Ops : op = worker[w].op /\ admission[op] = "accepted"
  BY DEF Execute, IInv, HoldInv, Held, Holding
<1>2. PICK key \in Keys : key = KeyOf[op]
  BY WriterAssumption
<1>3. PICK outcome \in {"saved", "failed"} :
        /\ worker' = [worker EXCEPT ![w] =
                        [pc |-> "complete", op |-> op, outcome |-> outcome]]
        /\ disk' = IF outcome = "failed" THEN disk
                   ELSE [disk EXCEPT ![key] = IF op \in Deletes THEN NoOp ELSE op]
  BY <1>1, <1>2 DEF Execute
<1>4. /\ worker[w].pc = "execute"
      /\ worker'[w] = [pc |-> "complete", op |-> op, outcome |-> outcome]
      /\ \A v \in Workers \ {w} : worker'[v] = worker[v]
      /\ UNCHANGED <<pending, admission, receipt>>
  BY <1>3 DEF Execute, submitVars, IInv, TypeOK
<1> DEFINE waiting == OfKey(pending, key)
<1>5. waiting \in Seq(Ops)
  BY OfKeyElements DEF IInv, TypeOK
<1>6. Queue(key) = <<op>> \o waiting
  BY <1>1, <1>2, <1>4, QueueBusy
<1>7. \A v \in Workers \ {w} : worker[v].pc = "execute" => KeyOf[worker[v].op] # key
  BY <1>1, <1>2, <1>4 DEF IInv, KeyExclusive, Holding
<1>8. Queue(key)' = waiting
  <2>1. InExecution(key)' = {}
    BY <1>4, <1>7 DEF InExecution
  <2>2. OfKey(pending, key)' = waiting
    BY <1>4, OfKeyNext
  <2>3. QED
    BY <2>1, <2>2 DEF Queue
<1>9. ASSUME NEW k \in Keys, k # key PROVE Queue(k)' = Queue(k)
  <2>1. InExecution(k)' = InExecution(k)
    BY <1>1, <1>2, <1>4, <1>9 DEF InExecution
  <2>2. OfKey(pending, k)' = OfKey(pending, k)
    BY <1>4, OfKeyNext
  <2>3. QED
    BY <2>1, <2>2 DEF Queue
<1> HIDE DEF waiting
<1>10. Queue(key) # <<>> /\ Head(Queue(key)) = op /\ Tail(Queue(key)) = waiting
  BY <1>5, <1>6
<1>11. /\ QueueOf[key] # <<>> /\ Head(QueueOf[key]) = op
       /\ QueueOf' = [QueueOf EXCEPT ![key] = Tail(QueueOf[key])]
  <2>1. QueueOf[key] = Queue(key)
    BY DEF QueueOf
  <2>2. QueueOf' = [QueueOf EXCEPT ![key] = waiting]
    BY <1>8, <1>9 DEF QueueOf
  <2>3. QED
    BY <1>10, <2>1, <2>2
<1>12. /\ ~Tried(op) /\ Tried(op)'
       /\ \A p \in Ops : p # op => (Tried(p)' <=> Tried(p)) /\ (Saved(p)' <=> Saved(p))
  BY <1>1, ExecuteTries
<1>13. Saved(op)' <=> outcome = "saved"
  <2>1. receipt[op] = "none"
    BY <1>1, <1>4 DEF IInv, HoldInv, Held, Holding
  <2>2. \A v \in Workers \ {w} : worker[v].pc = "complete" => worker[v].op # op
    BY <1>1, <1>4 DEF IInv, KeyExclusive, Holding
  <2>3. QED
    BY <1>4, <2>1, <2>2 DEF Saved
<1>14. ToldOf(op)' = outcome /\ \A p \in Ops \ {op} : ToldOf(p)' = ToldOf(p)
  BY <1>1, <1>4, <1>12, <1>13 DEF ToldOf
<1>15. AnswerOf' = [AnswerOf EXCEPT ![op] = outcome]
  BY <1>14, AnswerIsTold, AnswerIsToldNext DEF AnswerOf
<1>16. Store!Try(key)
  <2>1. CASE outcome = "saved"
    BY <1>3, <1>11, <1>15, <2>1 DEF Store!Try, QueueOf, AnswerOf
  <2>2. CASE outcome = "failed"
    BY <1>3, <1>11, <1>15, <2>2 DEF Store!Try, QueueOf, AnswerOf
  <2>3. QED
    BY <2>1, <2>2
<1>17. QED
  BY <1>1, <1>2, <1>16

\* Every step of the writer is a step of OrderedStore or leaves its queues, its values
\* and its answers alone: wakeups, turns of the loop, completions, observations and
\* the shutdown move nothing a submitter or a reader of the table could tell.
LEMMA StoreStep ==
  IInv /\ [Next]_vars => Store!Next \/ UNCHANGED <<QueueOf, disk, AnswerOf>>
<1> SUFFICES ASSUME IInv, [Next]_vars
             PROVE  Store!Next \/ UNCHANGED <<QueueOf, disk, AnswerOf>>
  OBVIOUS
<1>i. IInv'
  BY InvStep
<1>1. ASSUME NEW op \in Ops, Submit(op) PROVE Store!Next
  BY <1>i, <1>1, SubmitStep DEF Store!Next
<1>2. ASSUME NEW op \in Ops, RefuseSubmit(op) PROVE Store!Next
  BY <1>i, <1>2, RefuseStep DEF Store!Next
<1>3. ASSUME NEW w \in Workers, Execute(w) PROVE Store!Next
  <2>1. KeyOf[worker[w].op] \in Keys
    BY <1>3, WriterAssumption DEF Execute, IInv, HoldInv, Held, Holding
  <2>2. QED
    BY <1>i, <1>3, <2>1, ExecuteStep DEF Store!Next
<1>4. CASE /\ \A op \in Ops : ~Submit(op) /\ ~RefuseSubmit(op)
           /\ \A w \in Workers : ~Execute(w)
  <2>1. admission' = admission /\ disk' = disk
    BY <1>4 DEF Next, CompleteRefused, WorkerStep, Wake, Complete, ObserveStateResult, Release,
                BeginClose, EndClose, vars, submitVars
  <2>2. AnswerOf' = AnswerOf
    BY <1>i, <1>4, <2>1, AnswerSame
  <2>3. \A k \in Keys : Queue(k)' = Queue(k)
    <3>1. ASSUME NEW w \in Workers, Wake(w) PROVE \A k \in Keys : Queue(k)' = Queue(k)
      BY <1>i, <3>1, WakeTurn, QueueTurn
    <3>2. ASSUME NEW w \in Workers, Release(w) PROVE \A k \in Keys : Queue(k)' = Queue(k)
      BY <1>i, <3>2, ReleaseTurn, QueueTurn
    <3>3. ASSUME NEW w \in Workers, Complete(w) \/ ObserveStateResult(w)
          PROVE  \A k \in Keys : Queue(k)' = Queue(k)
      <4>1. /\ worker[w].pc # "execute" /\ worker'[w].pc # "execute"
            /\ \A v \in Workers \ {w} : worker'[v] = worker[v]
            /\ UNCHANGED pending
        BY <3>3 DEF Complete, ObserveStateResult, IInv, TypeOK, WorkerState
      <4>2. QED
        BY <4>1, QueueSame
    <3>4. ASSUME BeginClose PROVE \A k \in Keys : Queue(k)' = Queue(k)
      <4>1. \A v \in Workers : worker[v].pc = "execute" \/ worker'[v].pc = "execute" =>
                                 worker'[v] = worker[v]
        BY <3>4 DEF BeginClose, Woken, Sleeping, Idle
      <4>2. QED
        BY <3>4, <4>1, QueueSame DEF BeginClose
    <3>5. ASSUME UNCHANGED <<pending, worker>> PROVE \A k \in Keys : Queue(k)' = Queue(k)
      BY <3>5, QueueSame
    <3>6. QED
      BY <1>4, <3>1, <3>2, <3>3, <3>4, <3>5
      DEF Next, WorkerStep, CompleteRefused, EndClose, vars, queueVars
  <2>4. QED
    BY <2>1, <2>2, <2>3 DEF QueueOf
<1>5. QED
  BY <1>1, <1>2, <1>3, <1>4

\* The pool keeps the safety half of its promise: it behaves as one queue per key, whose
\* writes are tried one at a time in the order of acceptance, and every submission gets
\* one answer, the one the database gave to its write.
THEOREM OrderedStoreSafe == Spec => Store!SafeSpec
<1>1. Init => Store!Init
  <2> SUFFICES ASSUME Init PROVE Store!Init
    OBVIOUS
  <2>1. IInv
    BY InitInv
  <2>2. ASSUME NEW k \in Keys PROVE Queue(k) = <<>>
    <3>1. \A w \in Workers : worker[w].pc # "execute"
      BY DEF Init, Idle
    <3>2. pending = <<>> /\ pending \in Seq(Ops) /\ Len(pending) = 0
      BY DEF Init
    <3>3. OfKey(pending, k) = <<>>
      <4>1. PICK f : Collects(f, pending, k) /\ OfKey(pending, k) = f[Len(pending)]
        BY <3>2, OfKeyPrefixes
      <4>2. QED
        BY <3>2, <4>1 DEF Collects
    <3>4. QED
      BY <3>1, <3>3, QueueIdle
  <2>3. ASSUME NEW op \in Ops PROVE Answer(op) = "none"
    BY <2>1, AnswerIsTold DEF ToldOf, Init
  <2>4. QED
    BY <2>2, <2>3 DEF Store!Init, Init
<1>2. IInv /\ [Next]_vars => [Store!Next]_<<QueueOf, disk, AnswerOf>>
  BY StoreStep
<1>3. Init /\ [][Next]_vars => []IInv
  BY InitInv, InvStep, PTL
<1>4. Spec => Store!Init /\ [][Store!Next]_<<QueueOf, disk, AnswerOf>>
  BY <1>1, <1>2, <1>3, PTL DEF Spec
<1>5. QED
  BY <1>4, PTL DEF Store!SafeSpec, Store!vars, QueueOf, AnswerOf
=============================================================================
