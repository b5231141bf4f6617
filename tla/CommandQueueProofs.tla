------------------------- MODULE CommandQueueProofs -------------------------
(***************************************************************************)
(* Theorems of CommandQueue, for every set of lanes and every finite set   *)
(* of tasks, every assignment of tasks to lanes and every set of limits.   *)
(*                                                                         *)
(* Each operation prepares a lane s and the statuses st (an entry pushed,  *)
(* a task settled, a limit set) and then drains: the argument is that      *)
(* Consistent(l, s, st) survives both halves.                              *)
(***************************************************************************)
EXTENDS CommandQueue, LanesProofs, FiniteSetTheorems

\* What lane l, in state s, has to do with the statuses st of its tasks.
Queued(l, st)  == { t \in Task : st[t] = "queued" /\ LaneOf[t] = l }
Running(l, st) == { t \in Task : st[t] = "running" /\ LaneOf[t] = l }
Consistent(l, s, st) ==
  /\ s \in LaneState(Task)
  /\ \A i, j \in 1..Len(s.queue) : s.queue[i] = s.queue[j] => i = j
  /\ { s.queue[i] : i \in 1..Len(s.queue) } = Queued(l, st)
  /\ s.active = Cardinality(Running(l, st))

\* The statuses after lane s has been drained.
Started(s, st) == [u \in Task |-> IF u \in StartedBy(s) THEN "running" ELSE st[u]]

\* What an operation does to lane l before it drains: it leaves the tasks of
\* other lanes alone, starts nobody, and may append to the queue.
OnlyIn(l, st, st2) == \A t \in Task : LaneOf[t] # l => st2[t] = st[t]
StartsNobody(st, st2) ==
  \A t \in Task : /\ st2[t] = "running" => st[t] = "running"
                  /\ st[t] = "new" => st2[t] \in {"new", "queued"}
Extends(q, q2) ==
  /\ Len(q) <= Len(q2)
  /\ \A i \in 1..Len(q) : q2[i] = q[i]

\* The step that prepares (l, s, st) and drains.
DrainStep(l, s, st) ==
  /\ l \in Lane /\ st \in [Task -> Status] /\ Consistent(l, s, st)
  /\ OnlyIn(l, status, st) /\ StartsNobody(status, st) /\ Extends(lanes[l].queue, s.queue)
  /\ lanes' = [lanes EXCEPT ![l] = DrainLane(s)]
  /\ status' = Started(s, st)
  /\ configured' \in [Lane -> Nat \ {0}]

IInv ==
  /\ TypeOK
  /\ \A l \in Lane : Consistent(l, lanes[l], status)
  /\ WorkConserving
-----------------------------------------------------------------------------
\* Draining keeps lane and statuses consistent: the started entries leave the
\* queue and are counted, each once (l.57-65).
LEMMA DrainConsistent ==
  ASSUME NEW l \in Lane, NEW st \in [Task -> Status], NEW s, Consistent(l, s, st)
  PROVE  /\ Started(s, st) \in [Task -> Status]
         /\ StartedBy(s) \subseteq Queued(l, st)
         /\ Consistent(l, DrainLane(s), Started(s, st))
<1> DEFINE n == Batch(s)
           rest == SubSeq(s.queue, n + 1, Len(s.queue))
           st2 == Started(s, st)
<1>1. s \in LaneState(Task) /\ s.queue \in Seq(Task) /\ Len(s.queue) \in Nat /\ s.active \in Nat
  BY LaneFields DEF Consistent
<1>2. n \in 0..Len(s.queue) /\ n \in Nat
  BY <1>1, BatchFits
<1>3. StartedBy(s) \subseteq Queued(l, st)
  BY <1>1, <1>2 DEF Consistent, StartedBy
<1>4. st2 \in [Task -> Status]
  BY DEF Started, Status
<1>5. /\ DrainLane(s) \in LaneState(Task)
      /\ DrainLane(s).queue = rest /\ DrainLane(s).active = s.active + n
      /\ rest \in Seq(Task) /\ Len(rest) = Len(s.queue) - n
  <2>1. DrainLane(s) = [active |-> s.active + n, queue |-> rest,
                        maxConcurrent |-> IF Vacant(s) THEN 1 ELSE s.maxConcurrent]
    BY <1>1, DrainLaneResult
  <2>2. DrainLane(s).queue = rest /\ DrainLane(s).active = s.active + n
    BY <1>1, <1>2, <2>1
  <2>3. rest \in Seq(Task) /\ Len(rest) = Len(s.queue) - n
    BY <1>1, DrainLaneResult
  <2>4. DrainLane(s) \in LaneState(Task)
    BY <1>1, DrainLaneConserves
  <2> QED
    BY <2>2, <2>3, <2>4
<1>6. \A i \in 1..Len(rest) : rest[i] = s.queue[i + n] /\ i + n \in (n + 1)..Len(s.queue)
  <2>1. ASSUME NEW i \in 1..Len(rest)
        PROVE  i \in Nat /\ i + n \in (n + 1)..Len(s.queue) /\ i \in 1..(Len(s.queue) - n)
    BY <1>1, <1>2, <1>5
  <2>2. ASSUME NEW i \in 1..Len(rest)
        PROVE  rest[i] = s.queue[i + n]
    BY <2>1, <1>1, <1>2, SMTT(30)
  <2> QED
    BY <2>1, <2>2
<1>7. \A i, j \in 1..Len(rest) : rest[i] = rest[j] => i = j
  <2>1. \A i, j \in 1..Len(s.queue) : s.queue[i] = s.queue[j] => i = j
    BY DEF Consistent
  <2>2. ASSUME NEW i \in 1..Len(rest), NEW j \in 1..Len(rest), rest[i] = rest[j]
        PROVE  i = j
    <3>1. i + n \in 1..Len(s.queue) /\ j + n \in 1..Len(s.queue)
      BY <1>1, <1>2, <1>5
    <3>2. s.queue[i + n] = s.queue[j + n]
      BY <1>6, <2>2
    <3>3. i + n = j + n
      BY <2>1, <3>1, <3>2
    <3> QED
      BY <1>2, <1>5, <3>3
  <2> QED
    BY <2>2
<1>8. { rest[i] : i \in 1..Len(rest) } = Queued(l, st2)
  <2>1. ASSUME NEW i \in 1..Len(rest)
        PROVE  rest[i] \in Queued(l, st2)
    <3>1. rest[i] = s.queue[i + n] /\ i + n \in 1..Len(s.queue) /\ i + n > n
      BY <1>1, <1>2, <1>5, <1>6
    <3>2. rest[i] \in Queued(l, st)
      BY <3>1 DEF Consistent
    <3>3. rest[i] \notin StartedBy(s)
      BY <1>1, <1>2, <3>1, SMTT(30) DEF Consistent, StartedBy
    <3> QED
      BY <3>2, <3>3 DEF Queued, Started
  <2>2. ASSUME NEW t \in Queued(l, st2)
        PROVE  \E i \in 1..Len(rest) : rest[i] = t
    <3>1. t \in Queued(l, st) /\ t \notin StartedBy(s)
      BY DEF Queued, Started
    <3>2. PICK k \in 1..Len(s.queue) : s.queue[k] = t
      BY <3>1 DEF Consistent
    <3>3. k > n
      BY <1>1, <1>2, <3>1, <3>2 DEF StartedBy
    <3>4. k - n \in 1..Len(rest) /\ (k - n) + n = k
      BY <1>1, <1>2, <1>5, <3>2, <3>3
    <3> QED
      BY <1>6, <3>2, <3>4
  <2> QED
    BY <2>1, <2>2
<1>9. DrainLane(s).active = Cardinality(Running(l, st2))
  <2>1. IsFiniteSet(StartedBy(s)) /\ Cardinality(StartedBy(s)) = n
    <3>1. Lists(s.queue, Queued(l, st))
      BY DEF Consistent, Lists
    <3> QED
      BY <1>1, <1>2, <3>1, PrefixCardinality DEF StartedBy
  <2>2. Running(l, st2) = Running(l, st) \union StartedBy(s)
    BY <1>3 DEF Running, Queued, Started
  <2>3. IsFiniteSet(Running(l, st))
    BY TaskAssumption, FS_Subset DEF Running
  <2>4. Running(l, st) \cap StartedBy(s) = {}
    BY <1>3 DEF Running, Queued
  <2>5. Cardinality(Running(l, st2)) = Cardinality(Running(l, st)) + n - 0
    BY <2>1, <2>2, <2>3, <2>4, FS_Union, FS_EmptySet
  <2> QED
    BY <1>1, <1>2, <1>5, <2>5 DEF Consistent
<1> QED
  BY <1>3, <1>4, <1>5, <1>7, <1>8, <1>9 DEF Consistent

\* Consistency only looks at the tasks of the lane itself.
LEMMA ConsistentFrame ==
  ASSUME NEW k \in Lane, NEW s, NEW st, NEW st2, Consistent(k, s, st),
         \A t \in Task : LaneOf[t] = k => st2[t] = st[t]
  PROVE  Consistent(k, s, st2)
<1>1. Queued(k, st2) = Queued(k, st) /\ Running(k, st2) = Running(k, st)
  BY DEF Queued, Running
<1> QED
  BY <1>1 DEF Consistent

\* Such a step keeps the invariant.
LEMMA DrainPreserves ==
  ASSUME IInv, NEW STATE l, NEW STATE s, NEW STATE st, DrainStep(l, s, st)
  PROVE  IInv'
<1> USE DEF DrainStep
<1>1. s \in LaneState(Task)
  BY DEF Consistent
<1>2. /\ status' \in [Task -> Status]
      /\ StartedBy(s) \subseteq Queued(l, st)
      /\ Consistent(l, DrainLane(s), status')
  BY DrainConsistent
<1>3. lanes' \in [Lane -> LaneState(Task)]
  BY <1>1, DrainLaneConserves DEF IInv, TypeOK
<1>4. lanes'[l] = DrainLane(s) /\ \A k \in Lane \ {l} : lanes'[k] = lanes[k]
  BY DEF IInv, TypeOK
<1>5. ASSUME NEW k \in Lane
      PROVE  Consistent(k, lanes'[k], status')
  <2>1. CASE k = l
    BY <1>2, <1>4, <2>1
  <2>2. CASE k # l
    <3>1. \A t \in Task : LaneOf[t] = k => status'[t] = status[t]
      BY <1>2, <2>2 DEF Started, Queued, OnlyIn
    <3>2. Consistent(k, lanes[k], status)
      BY DEF IInv
    <3>3. Consistent(k, lanes[k], status')
      BY <3>1, <3>2, ConsistentFrame
    <3> QED
      BY <1>4, <2>2, <3>3
  <2> QED
    BY <2>1, <2>2
<1>6. WorkConserving'
  <2>1. ASSUME NEW k \in Lane, lanes'[k].queue # << >>
        PROVE  lanes'[k].active >= lanes'[k].maxConcurrent
    <3>1. CASE k = l
      BY <1>1, <1>4, <2>1, <3>1, DrainLaneConserves
    <3>2. CASE k # l
      BY <1>4, <2>1, <3>2 DEF IInv, WorkConserving, Queue
    <3> QED
      BY <3>1, <3>2
  <2> QED
    BY <2>1 DEF WorkConserving, Queue
<1> QED
  BY <1>2, <1>3, <1>5, <1>6 DEF IInv, TypeOK
-----------------------------------------------------------------------------
\* One lemma per operation: what happens before the drain is consistent.
LEMMA PushConsistent ==
  ASSUME NEW st \in [Task -> Status], NEW t \in Task, st[t] = "new",
         NEW s, Consistent(LaneOf[t], s, st)
  PROVE  /\ Consistent(LaneOf[t], PushEntry(s, t), [st EXCEPT ![t] = "queued"])
         /\ Extends(s.queue, PushEntry(s, t).queue)
<1> DEFINE l == LaneOf[t]
           q == Append(s.queue, t)
           st2 == [st EXCEPT ![t] = "queued"]
<1>1. s \in LaneState(Task) /\ s.queue \in Seq(Task) /\ Len(s.queue) \in Nat
  BY LaneFields DEF Consistent
<1>2. PushEntry(s, t) = [active |-> s.active, queue |-> q, maxConcurrent |-> s.maxConcurrent]
  <2>1. PushEntry(s, t) = [s EXCEPT !.queue = q]
    BY DEF PushEntry
  <2> HIDE DEF q
  <2> QED
    BY <1>1, <2>1 DEF LaneState
<1>3. /\ q \in Seq(Task) /\ Len(q) = Len(s.queue) + 1 /\ q[Len(q)] = t
      /\ \A i \in 1..Len(s.queue) : q[i] = s.queue[i]
  BY <1>1
<1>4. /\ PushEntry(s, t) \in LaneState(Task)
      /\ PushEntry(s, t).queue = q /\ PushEntry(s, t).active = s.active
  <2> HIDE DEF q
  <2> QED
    BY <1>1, <1>2, <1>3 DEF LaneState
<1>5. \A i \in 1..Len(s.queue) : s.queue[i] # t
  BY DEF Consistent, Queued
<1>6. ASSUME NEW i \in 1..Len(q), NEW j \in 1..Len(q), q[i] = q[j]
      PROVE  i = j
  <2>1. CASE i = Len(q) \/ j = Len(q)
    BY <1>1, <1>3, <1>5, <1>6, <2>1
  <2>2. CASE i \in 1..Len(s.queue) /\ j \in 1..Len(s.queue)
    BY <1>3, <1>6, <2>2 DEF Consistent
  <2> QED
    BY <1>1, <1>3, <2>1, <2>2
<1>7. { q[i] : i \in 1..Len(q) } = Queued(l, st) \union {t}
  <2>1. 1..Len(q) = (1..Len(s.queue)) \union {Len(q)}
    BY <1>1, <1>3
  <2>2. { q[i] : i \in 1..Len(q) } = { s.queue[i] : i \in 1..Len(s.queue) } \union {t}
    BY <1>3, <2>1
  <2> QED
    BY <2>2 DEF Consistent
<1>8. Queued(l, st2) = Queued(l, st) \union {t} /\ Running(l, st2) = Running(l, st)
  BY DEF Queued, Running
<1>9. s.active = Cardinality(Running(l, st))
  BY DEF Consistent
<1>10. Consistent(l, PushEntry(s, t), st2)
  <2> HIDE DEF l, q, st2
  <2>1. /\ { q[i] : i \in 1..Len(q) } = Queued(l, st2)
        /\ s.active = Cardinality(Running(l, st2))
    BY <1>7, <1>8, <1>9
  <2> QED
    BY <1>4, <1>6, <2>1 DEF Consistent
<1>11. Extends(s.queue, PushEntry(s, t).queue)
  BY <1>1, <1>3, <1>4 DEF Extends
<1> QED
  BY <1>10, <1>11

LEMMA FinishConsistent ==
  ASSUME NEW st \in [Task -> Status], NEW t \in Task, st[t] = "running",
         NEW s, Consistent(LaneOf[t], s, st)
  PROVE  /\ Consistent(LaneOf[t], FinishEntry(s), [st EXCEPT ![t] = "settled"])
         /\ Extends(s.queue, FinishEntry(s).queue)
<1> DEFINE l == LaneOf[t]
           st2 == [st EXCEPT ![t] = "settled"]
<1>1. s \in LaneState(Task) /\ s.active \in Nat
  BY LaneFields DEF Consistent
<1>2. FinishEntry(s) = [active |-> s.active - 1, queue |-> s.queue,
                        maxConcurrent |-> s.maxConcurrent]
  BY <1>1 DEF FinishEntry, LaneState
<1>3. Queued(l, st2) = Queued(l, st) /\ Running(l, st2) = Running(l, st) \ {t}
  BY DEF Queued, Running
<1>4. IsFiniteSet(Running(l, st)) /\ t \in Running(l, st)
  BY TaskAssumption, FS_Subset DEF Running
<1>5. Cardinality(Running(l, st2)) = Cardinality(Running(l, st)) - 1
  BY <1>3, <1>4, FS_RemoveElement
<1>6. Cardinality(Running(l, st2)) \in Nat
  BY <1>3, <1>4, FS_RemoveElement, FS_CardinalityType
<1>7. FinishEntry(s).active = Cardinality(Running(l, st2)) /\ FinishEntry(s).queue = s.queue
  BY <1>1, <1>2, <1>5 DEF Consistent
<1>8. FinishEntry(s) \in LaneState(Task)
  BY <1>1, <1>2, <1>6, <1>7 DEF LaneState
<1>9. Consistent(l, FinishEntry(s), st2)
  BY <1>3, <1>7, <1>8 DEF Consistent
<1>10. Extends(s.queue, FinishEntry(s).queue)
  BY <1>1, <1>7, LaneFields DEF Extends
<1> QED
  BY <1>9, <1>10

LEMMA SetLimitConsistent ==
  ASSUME NEW l, NEW s, NEW st, NEW n \in Nat \ {0}, Consistent(l, s, st)
  PROVE  /\ Consistent(l, SetLimit(s, n), st)
         /\ Extends(s.queue, SetLimit(s, n).queue)
<1>1. s \in LaneState(Task)
  BY DEF Consistent
<1>2. SetLimit(s, n) = [active |-> s.active, queue |-> s.queue, maxConcurrent |-> n]
  BY <1>1 DEF SetLimit, LaneState
<1>3. SetLimit(s, n) \in LaneState(Task)
  BY <1>1, <1>2 DEF LaneState
<1>4. Consistent(l, SetLimit(s, n), st)
  BY <1>2, <1>3 DEF Consistent
<1>5. Extends(s.queue, SetLimit(s, n).queue)
  BY <1>1, <1>2, LaneFields DEF Extends
<1> QED
  BY <1>4, <1>5

LEMMA VacantConsistent ==
  ASSUME NEW l, NEW s, NEW st, Vacant(s), Consistent(l, s, st)
  PROVE  Consistent(l, NewLane, st)
<1>1. NewLane \in LaneState(Task) /\ NewLane.queue = s.queue /\ NewLane.active = s.active
  BY DEF NewLane, Vacant, LaneState
<1> QED
  BY <1>1 DEF Consistent
-----------------------------------------------------------------------------
\* IInv holds initially: no lane is in the Map, no task was enqueued.
LEMMA InitEstablishes == Init => IInv
<1> SUFFICES ASSUME Init PROVE IInv
  OBVIOUS
<1>1. NewLane \in LaneState(Task) /\ NewLane.queue = << >> /\ NewLane.active = 0
  BY DEF NewLane, LaneState
<1>2. TypeOK /\ WorkConserving
  BY <1>1 DEF Init, TypeOK, Status, WorkConserving, Queue
<1>3. ASSUME NEW l \in Lane PROVE Consistent(l, lanes[l], status)
  <2>1. lanes[l] = NewLane
    BY DEF Init
  <2>2. Queued(l, status) = {} /\ Running(l, status) = {}
    BY DEF Init, Queued, Running
  <2>3. Cardinality({}) = 0
    BY FS_EmptySet
  <2> QED
    BY <1>1, <2>1, <2>2, <2>3 DEF Consistent
<1> QED
  BY <1>2, <1>3 DEF IInv

\* enqueueInLane, the continuation of a task and setLaneConcurrency are such steps.
LEMMA EnqueueDrains ==
  ASSUME IInv, NEW t \in Task, Enqueue(t)
  PROVE  DrainStep(LaneOf[t], PushEntry(lanes[LaneOf[t]], t), [status EXCEPT ![t] = "queued"])
<1> DEFINE l == LaneOf[t]
           s == PushEntry(lanes[l], t)
           st == [status EXCEPT ![t] = "queued"]
<1>1. l \in Lane /\ status \in [Task -> Status] /\ st \in [Task -> Status] /\ status[t] = "new"
  BY LaneOfAssumption DEF IInv, TypeOK, Status, Enqueue
<1>2. Consistent(l, s, st) /\ Extends(lanes[l].queue, s.queue)
  BY <1>1, PushConsistent DEF IInv
<1>3. status' = Started(s, st)
  BY <1>1 DEF Enqueue, Started
<1>4. OnlyIn(l, status, st) /\ StartsNobody(status, st)
  BY <1>1 DEF OnlyIn, StartsNobody
<1>5. lanes' = [lanes EXCEPT ![l] = DrainLane(s)] /\ configured' \in [Lane -> Nat \ {0}]
  BY DEF Enqueue, IInv, TypeOK
<1> QED
  BY <1>1, <1>2, <1>3, <1>4, <1>5 DEF DrainStep

LEMMA SettleDrains ==
  ASSUME IInv, NEW t \in Task, Settle(t)
  PROVE  DrainStep(LaneOf[t], FinishEntry(lanes[LaneOf[t]]), [status EXCEPT ![t] = "settled"])
<1> DEFINE l == LaneOf[t]
           s == FinishEntry(lanes[l])
           st == [status EXCEPT ![t] = "settled"]
<1>1. l \in Lane /\ status \in [Task -> Status] /\ st \in [Task -> Status] /\ status[t] = "running"
  BY LaneOfAssumption DEF IInv, TypeOK, Status, Settle
<1>2. Consistent(l, s, st) /\ Extends(lanes[l].queue, s.queue)
  BY <1>1, FinishConsistent DEF IInv
<1>3. t \notin StartedBy(s)
  BY <1>1, <1>2, DrainConsistent DEF Queued
<1>4. status' = Started(s, st)
  BY <1>1, <1>3 DEF Settle, Started
<1>5. OnlyIn(l, status, st) /\ StartsNobody(status, st)
  BY <1>1 DEF OnlyIn, StartsNobody
<1>6. lanes' = [lanes EXCEPT ![l] = DrainLane(s)] /\ configured' \in [Lane -> Nat \ {0}]
  BY DEF Settle, IInv, TypeOK
<1> QED
  BY <1>1, <1>2, <1>4, <1>5, <1>6 DEF DrainStep

LEMMA SetLaneConcurrencyDrains ==
  ASSUME IInv, NEW l \in Lane, NEW n \in Limits, SetLaneConcurrency(l, n)
  PROVE  DrainStep(l, SetLimit(lanes[l], n), status)
<1> DEFINE s == SetLimit(lanes[l], n)
<1>1. n \in Nat \ {0} /\ status \in [Task -> Status]
  BY LimitsAssumption DEF IInv, TypeOK
<1>2. Consistent(l, s, status) /\ Extends(lanes[l].queue, s.queue)
  BY <1>1, SetLimitConsistent DEF IInv
<1>3. status' = Started(s, status)
  BY <1>1 DEF SetLaneConcurrency, Started
<1>4. OnlyIn(l, status, status) /\ StartsNobody(status, status)
  BY DEF OnlyIn, StartsNobody
<1>5. lanes' = [lanes EXCEPT ![l] = DrainLane(s)] /\ configured' \in [Lane -> Nat \ {0}]
  BY <1>1 DEF SetLaneConcurrency, IInv, TypeOK
<1> QED
  BY <1>1, <1>2, <1>3, <1>4, <1>5 DEF DrainStep

LEMMA DeleteLaneResets ==
  ASSUME IInv, NEW l \in Lane, DeleteLane(l)
  PROVE  IInv'
<1>1. NewLane \in LaneState(Task) /\ NewLane.queue = << >>
  BY DEF NewLane, LaneState
<1>2. /\ lanes' \in [Lane -> LaneState(Task)] /\ lanes'[l] = NewLane
      /\ \A k \in Lane \ {l} : lanes'[k] = lanes[k]
  BY <1>1 DEF DeleteLane, IInv, TypeOK
<1>3. TypeOK'
  BY <1>2 DEF DeleteLane, IInv, TypeOK
<1>4. ASSUME NEW k \in Lane PROVE Consistent(k, lanes'[k], status)
  <2>1. CASE k = l
    BY <1>2, <2>1, VacantConsistent DEF DeleteLane, IInv
  <2>2. CASE k # l
    BY <1>2, <2>2 DEF IInv
  <2> QED
    BY <2>1, <2>2
<1>5. WorkConserving'
  BY <1>1, <1>2 DEF IInv, WorkConserving, Queue
<1>6. status' = status
  BY DEF DeleteLane
<1> QED
  BY <1>3, <1>4, <1>5, <1>6 DEF IInv

LEMMA NextPreserves == IInv /\ [Next]_vars => IInv'
<1> SUFFICES ASSUME IInv, [Next]_vars PROVE IInv'
  OBVIOUS
<1>1. ASSUME NEW t \in Task, Enqueue(t) PROVE IInv'
  BY <1>1, EnqueueDrains, DrainPreserves
<1>2. ASSUME NEW t \in Task, Settle(t) PROVE IInv'
  BY <1>2, SettleDrains, DrainPreserves
<1>3. ASSUME NEW l \in Lane, NEW n \in Limits, SetLaneConcurrency(l, n) PROVE IInv'
  BY <1>3, SetLaneConcurrencyDrains, DrainPreserves
<1>4. ASSUME NEW l \in Lane, DeleteLane(l) PROVE IInv'
  BY <1>4, DeleteLaneResets
<1>5. CASE UNCHANGED vars
  BY <1>5 DEF vars, IInv, TypeOK, WorkConserving, Queue
<1> QED
  BY <1>1, <1>2, <1>3, <1>4, <1>5 DEF Next
-----------------------------------------------------------------------------
\* The inductive invariant holds in every reachable state.
THEOREM Invariance == Spec => []IInv
<1>1. Init => IInv
  BY InitEstablishes
<1>2. IInv /\ [Next]_vars => IInv'
  BY NextPreserves
<1> QED
  BY <1>1, <1>2, PTL DEF Spec

\* Lanes, statuses and limits keep their types; in particular no counter of
\* running tasks ever goes below zero (command-queue.ts:70).
THEOREM TypeCorrectness == Spec => []TypeOK
<1>1. IInv => TypeOK
  BY DEF IInv
<1> QED
  BY <1>1, Invariance, PTL

\* Nobody waits in a lane that has room, whatever the limits are set to and
\* whenever they are changed (command-queue.ts:57-77, 84, 107).
THEOREM NobodyWaitsWithoutReason == Spec => []WorkConserving
<1>1. IInv => WorkConserving
  BY DEF IInv
<1> QED
  BY <1>1, Invariance, PTL

\* A lane counts exactly its running tasks and queues exactly its waiting ones,
\* each once: no slot and no task is lost (command-queue.ts:58-75).
THEOREM LanesCountTheirTasks == Spec => []CountsAgree
<1>1. ASSUME IInv PROVE CountsAgree
  <2>1. ASSUME NEW l \in Lane
        PROVE  /\ lanes[l].active = Cardinality(RunningIn(l))
               /\ { Queue(l)[i] : i \in 1..Len(Queue(l)) } = Queued(l, status)
               /\ Len(Queue(l)) = Cardinality(Queued(l, status))
    <3>1. Consistent(l, lanes[l], status)
      BY <1>1 DEF IInv
    <3>2. Running(l, status) = RunningIn(l)
      BY DEF Running, RunningIn
    <3>3. Queue(l) \in Seq(Task) /\ Len(Queue(l)) \in 0..Len(Queue(l))
      BY <3>1, LaneFields DEF Consistent, Queue
    <3>4. Lists(Queue(l), Queued(l, status))
      BY <3>1 DEF Consistent, Queue, Lists
    <3>5. Cardinality({ Queue(l)[i] : i \in 1..Len(Queue(l)) }) = Len(Queue(l))
      BY <3>3, <3>4, PrefixCardinality
    <3> QED
      BY <3>1, <3>2, <3>4, <3>5 DEF Consistent, Queue, Lists
  <2> QED
    BY <2>1 DEF CountsAgree, Queued
<1> QED
  BY <1>1, Invariance, PTL

\* A drain that starts somebody ends within the limit.
LEMMA StartsWithinLimit ==
  ASSUME NEW s \in LaneState(Task), StartedBy(s) # {}
  PROVE  DrainLane(s).active <= DrainLane(s).maxConcurrent
<1>1. Batch(s) > 0
  BY BatchFits, LaneFields DEF StartedBy
<1>2. ~Vacant(s)
  BY <1>1, BatchFits DEF Vacant
<1>3. DrainLane(s) = [active |-> s.active + Batch(s),
                      queue |-> SubSeq(s.queue, Batch(s) + 1, Len(s.queue)),
                      maxConcurrent |-> s.maxConcurrent]
  BY <1>2, DrainLaneResult
<1>4. s.active + Batch(s) <= s.maxConcurrent
  BY <1>1, BatchFits
<1>5. /\ DrainLane(s).active = s.active + Batch(s)
      /\ DrainLane(s).maxConcurrent = s.maxConcurrent
  BY <1>3, BatchFits, LaneFields
<1> QED
  BY <1>4, <1>5

\* Every other step starts nobody and leaves the queues alone.
Quiet == status' = status /\ \A l \in Lane : lanes'[l].queue = lanes[l].queue

LEMMA StepShape ==
  ASSUME IInv, [Next]_vars
  PROVE  Quiet \/ \E l, s, st : DrainStep(l, s, st)
<1>1. ASSUME NEW l \in Lane, DeleteLane(l) PROVE Quiet
  BY <1>1 DEF DeleteLane, Vacant, NewLane, Quiet, IInv, TypeOK
<1>2. ASSUME UNCHANGED vars PROVE Quiet
  BY <1>2 DEF vars, Quiet
<1> QED
  BY <1>1, <1>2, EnqueueDrains, SettleDrains, SetLaneConcurrencyDrains DEF Next

\* Starting a task never takes its lane over the limit in force, even when the
\* limit was lowered under the tasks that run (command-queue.ts:57).
THEOREM LimitIsRespected == Spec => NoOverAdmission
<1> DEFINE Within == \A l \in Lane : RunningIn(l)' \ RunningIn(l) # {}
                       => lanes'[l].active <= lanes'[l].maxConcurrent
<1>1. ASSUME IInv, [Next]_vars PROVE Within
  <2>1. SUFFICES ASSUME NEW k \in Lane, NEW t \in RunningIn(k)' \ RunningIn(k)
                 PROVE  lanes'[k].active <= lanes'[k].maxConcurrent
    OBVIOUS
  <2>2. t \in Task /\ status'[t] = "running" /\ LaneOf[t] = k /\ status[t] # "running"
    BY DEF RunningIn
  <2>3. ~Quiet
    BY <2>2 DEF Quiet
  <2>4. PICK l, s, st : DrainStep(l, s, st)
    BY <1>1, <2>3, StepShape
  <2>5. s \in LaneState(Task) /\ StartedBy(s) \subseteq Queued(l, st)
    BY <2>4, DrainConsistent DEF DrainStep, Consistent
  <2>6. t \in StartedBy(s)
    BY <2>2, <2>4 DEF DrainStep, Started, StartsNobody
  <2>7. k = l
    BY <2>2, <2>5, <2>6 DEF Queued
  <2>8. lanes'[k] = DrainLane(s)
    BY <1>1, <2>4, <2>7 DEF DrainStep, IInv, TypeOK
  <2> QED
    BY <2>5, <2>6, <2>8, StartsWithinLimit
<1>2. IInv /\ [Next]_vars => [Within]_vars
  BY <1>1
<1> HIDE DEF Within
<1>3. []IInv /\ [][Next]_vars => [][Within]_vars
  BY <1>2, PTL
<1>4. Spec => [][Within]_vars
  BY <1>3, Invariance, PTL DEF Spec
<1> QED
  BY <1>4 DEF NoOverAdmission, Within

\* Who is not started by a drain keeps its place behind or ahead of others.
InOrder(q, u, t) == \E i, j \in 1..Len(q) : i < j /\ q[i] = u /\ q[j] = t

LEMMA DrainKeepsOrder ==
  ASSUME NEW s \in LaneState(Task), NEW u, NEW t, InOrder(s.queue, u, t), u \notin StartedBy(s)
  PROVE  InOrder(DrainLane(s).queue, u, t)
<1> DEFINE n == Batch(s)
           rest == SubSeq(s.queue, n + 1, Len(s.queue))
<1>1. s.queue \in Seq(Task) /\ Len(s.queue) \in Nat /\ n \in 0..Len(s.queue)
  BY LaneFields, BatchFits
<1>2. rest \in Seq(Task) /\ Len(rest) = Len(s.queue) - n
  BY DrainLaneResult
<1>3. \A i \in 1..Len(rest) : rest[i] = s.queue[i + n]
  BY <1>1, <1>2
<1>4. PICK i \in 1..Len(s.queue), j \in 1..Len(s.queue) :
        i < j /\ s.queue[i] = u /\ s.queue[j] = t
  BY DEF InOrder
<1>5. i > n
  BY <1>1, <1>4 DEF StartedBy
<1>6. /\ i - n \in 1..Len(rest) /\ j - n \in 1..Len(rest) /\ i - n < j - n
      /\ (i - n) + n = i /\ (j - n) + n = j
  BY <1>1, <1>2, <1>4, <1>5
<1>7. rest[i - n] = u /\ rest[j - n] = t
  BY <1>3, <1>4, <1>6
<1>8. DrainLane(s).queue = rest
  <2>1. DrainLane(s) = [active |-> s.active + n, queue |-> rest,
                        maxConcurrent |-> IF Vacant(s) THEN 1 ELSE s.maxConcurrent]
    BY DrainLaneResult
  <2> QED
    BY <1>1, <2>1, LaneFields, SMTT(30)
<1> HIDE DEF rest, n
<1> QED
  BY <1>6, <1>7, <1>8 DEF InOrder

\* First in, first out, whatever is enqueued, settled or reconfigured in between
\* (command-queue.ts:58, 99).
THEOREM FirstInFirstOut == Spec => NoOvertaking
<1> DEFINE Kept == \A u, t \in Task : Before(u, t) /\ status'[u] = "queued" => Before(u, t)'
<1>1. ASSUME IInv, [Next]_vars PROVE Kept
  <2>1. SUFFICES ASSUME NEW u \in Task, NEW t \in Task, Before(u, t), status'[u] = "queued"
                 PROVE  Before(u, t)'
    OBVIOUS
  <2> DEFINE k == LaneOf[u]
  <2>2. /\ k \in Lane /\ LaneOf[t] = k /\ status[u] = "queued"
        /\ status[t] = "new" \/ InOrder(lanes[k].queue, u, t)
    BY <2>1, LaneOfAssumption DEF Before, Queue, InOrder
  <2>3. SUFFICES status'[t] = "new" \/ InOrder(lanes'[k].queue, u, t)
    BY <2>1, <2>2 DEF Before, Queue, InOrder
  <2>4. CASE Quiet
    BY <2>2, <2>4 DEF Quiet
  <2>5. ASSUME NEW l, NEW s, NEW st, DrainStep(l, s, st)
        PROVE  status'[t] = "new" \/ InOrder(lanes'[k].queue, u, t)
    <3>1. /\ s \in LaneState(Task) /\ StartedBy(s) \subseteq Queued(l, st)
          /\ lanes'[l] = DrainLane(s) /\ \A m \in Lane \ {l} : lanes'[m] = lanes[m]
      BY <1>1, <2>5, DrainConsistent DEF DrainStep, Consistent, IInv, TypeOK
    <3>2. u \notin StartedBy(s) /\ st[u] = "queued"
      BY <2>1, <2>5 DEF DrainStep, Started
    <3>3. CASE k # l
      BY <2>2, <2>5, <3>1, <3>3 DEF DrainStep, Started, Queued, OnlyIn
    <3>4. CASE k = l /\ st[t] = "new"
      BY <2>5, <3>1, <3>4 DEF DrainStep, Started, Queued
    <3>5. ASSUME k = l, st[t] # "new" PROVE InOrder(s.queue, u, t)
      <4>1. Consistent(k, lanes[k], status) /\ Consistent(k, s, st) /\ Extends(lanes[k].queue, s.queue)
        BY <1>1, <2>2, <2>5, <3>5 DEF IInv, DrainStep
      <4>2. Len(lanes[k].queue) \in Nat /\ Len(s.queue) \in Nat
        BY <4>1, LaneFields DEF Consistent
      <4>3. CASE InOrder(lanes[k].queue, u, t)
        BY <4>1, <4>2, <4>3 DEF InOrder, Extends
      <4>4. CASE status[t] = "new"
        <5>1. t \in Queued(k, st)
          BY <2>2, <2>5, <3>5, <4>4 DEF Queued, DrainStep, StartsNobody
        <5>2. PICK i \in 1..Len(lanes[k].queue) : lanes[k].queue[i] = u
          BY <2>2, <4>1 DEF Consistent, Queued
        <5>3. PICK j \in 1..Len(s.queue) : s.queue[j] = t
          BY <4>1, <5>1 DEF Consistent
        <5>4. \A m \in 1..Len(lanes[k].queue) : lanes[k].queue[m] # t
          BY <4>1, <4>4 DEF Consistent, Queued
        <5>5. j > Len(lanes[k].queue)
          BY <4>1, <4>2, <5>3, <5>4 DEF Extends
        <5>6. i \in 1..Len(s.queue) /\ s.queue[i] = u /\ i < j
          BY <4>1, <4>2, <5>2, <5>5 DEF Extends
        <5> QED
          BY <5>3, <5>6 DEF InOrder
      <4> QED
        BY <2>2, <4>3, <4>4
    <3>6. CASE k = l /\ st[t] # "new"
      BY <3>1, <3>2, <3>5, <3>6, DrainKeepsOrder
    <3> QED
      BY <3>3, <3>4, <3>6
  <2> QED
    BY <1>1, <2>4, <2>5, StepShape
<1>2. IInv /\ [Next]_vars => [Kept]_vars
  BY <1>1
<1> HIDE DEF Kept
<1>3. []IInv /\ [][Next]_vars => [][Kept]_vars
  BY <1>2, PTL
<1>4. Spec => [][Kept]_vars
  BY <1>3, Invariance, PTL DEF Spec
<1> QED
  BY <1>4 DEF NoOvertaking, Kept
=============================================================================
