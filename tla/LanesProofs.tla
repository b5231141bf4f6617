----------------------------- MODULE LanesProofs -----------------------------
(* What the lane operators of Lanes return, for every lane state and limit. *)
EXTENDS Lanes, FiniteSetTheorems, SequenceTheorems, TLAPS

\* A lane state is a record of three fields of the right types.
LEMMA LaneFields ==
  ASSUME NEW T, NEW s \in LaneState(T)
  PROVE  /\ s = [active |-> s.active, queue |-> s.queue, maxConcurrent |-> s.maxConcurrent]
         /\ s.active \in Nat
         /\ s.queue \in Seq(T) /\ Len(s.queue) \in Nat
         /\ s.maxConcurrent \in Nat \ {0}
BY DEF LaneState

\* drainLane starts a prefix of the queue that fits into the room there is, and
\* leaves nobody behind while there is room (l.57-58).
LEMMA BatchFits ==
  ASSUME NEW T, NEW s \in LaneState(T)
  PROVE  /\ Batch(s) \in 0..Len(s.queue)
         /\ Batch(s) > 0 => s.active + Batch(s) <= s.maxConcurrent
         /\ Batch(s) < Len(s.queue) => s.active + Batch(s) >= s.maxConcurrent
BY DEF Batch, Room, LaneState

\* What a drained lane looks like: only a vacant one loses its limit (l.52-60).
LEMMA DrainLaneResult ==
  ASSUME NEW T, NEW s \in LaneState(T)
  PROVE  /\ DrainLane(s) = [active |-> s.active + Batch(s),
                            queue |-> SubSeq(s.queue, Batch(s) + 1, Len(s.queue)),
                            maxConcurrent |-> IF Vacant(s) THEN 1 ELSE s.maxConcurrent]
         /\ SubSeq(s.queue, Batch(s) + 1, Len(s.queue)) \in Seq(T)
         /\ Len(SubSeq(s.queue, Batch(s) + 1, Len(s.queue))) = Len(s.queue) - Batch(s)
<1> DEFINE rest == SubSeq(s.queue, Batch(s) + 1, Len(s.queue))
<1>1. Batch(s) \in 0..Len(s.queue)
  BY BatchFits
<1>2. rest \in Seq(T) /\ Len(rest) = Len(s.queue) - Batch(s)
  BY <1>1, LaneFields
<1>3. CASE Vacant(s)
  <2>1. s.queue = << >> /\ s.active = 0 /\ Batch(s) = 0 /\ rest = << >>
    BY <1>1, <1>2, <1>3 DEF Vacant
  <2>2. DrainLane(s) = [active |-> 0, queue |-> << >>, maxConcurrent |-> 1]
    BY <1>3 DEF DrainLane, NewLane
  <2>3. s.active + Batch(s) = 0
    BY <2>1
  <2> QED
    BY <1>2, <1>3, <2>1, <2>2, <2>3
<1>4. CASE ~Vacant(s)
  <2>1. DrainLane(s) = [active |-> s.active + Batch(s), queue |-> rest,
                        maxConcurrent |-> s.maxConcurrent]
    BY <1>4 DEF DrainLane, LaneState
  <2> QED
    BY <1>2, <1>4, <2>1
<1> QED
  BY <1>3, <1>4

\* Draining takes a prefix off the queue and leaves the rest in its order, each task
\* it takes is counted once, and nobody is left waiting while there is room
\* (l.57-60).
LEMMA DrainLaneConserves ==
  ASSUME NEW T, NEW s \in LaneState(T)
  PROVE  /\ DrainLane(s) \in LaneState(T)
         /\ s.queue = SubSeq(s.queue, 1, Batch(s)) \o DrainLane(s).queue
         /\ DrainLane(s).active + Len(DrainLane(s).queue) = s.active + Len(s.queue)
         /\ DrainLane(s).queue # << >> => DrainLane(s).active >= DrainLane(s).maxConcurrent
<1> DEFINE head  == SubSeq(s.queue, 1, Batch(s))
           rest  == SubSeq(s.queue, Batch(s) + 1, Len(s.queue))
           limit == IF Vacant(s) THEN 1 ELSE s.maxConcurrent
<1>1. /\ DrainLane(s) = [active |-> s.active + Batch(s), queue |-> rest, maxConcurrent |-> limit]
      /\ rest \in Seq(T) /\ Len(rest) = Len(s.queue) - Batch(s)
  BY DrainLaneResult
<1>2. Batch(s) \in 0..Len(s.queue) /\ s.active + Batch(s) \in Nat /\ limit \in Nat \ {0}
  BY BatchFits, LaneFields
<1>3. DrainLane(s) \in LaneState(T)
  BY <1>1, <1>2 DEF LaneState
<1>4. rest # << >> => Batch(s) < Len(s.queue)
  BY <1>1, <1>2, LaneFields
<1>5. rest # << >> => ~Vacant(s)
  BY <1>4, <1>2 DEF Vacant
<1>6. rest # << >> => s.active + Batch(s) >= limit
  BY <1>4, <1>5, BatchFits
<1>7. s.queue = head \o rest
  <2> DEFINE q == s.queue
             n == Batch(s)
  <2>1. q \in Seq(T) /\ Len(q) \in Nat /\ n \in 0..Len(q)
    BY <1>2, LaneFields
  <2> HIDE DEF q, n
  <2>2. SubSeq(q, 1, n) \o SubSeq(q, n + 1, Len(q)) = SubSeq(q, 1, Len(q))
    <3>1. 1 \in 1..Len(q) + 1 /\ n \in 1 - 1..Len(q) /\ Len(q) \in n..Len(q)
      BY <2>1
    <3> QED
      BY <2>1, <3>1, ConcatAdjacentSubSeq
  <2>3. SubSeq(q, 1, Len(q)) = q
    BY <2>1, SubSeqFull
  <2> QED
    BY <2>2, <2>3 DEF q, n
<1>8. (s.active + Batch(s)) + Len(rest) = s.active + Len(s.queue)
  BY <1>1, <1>2, LaneFields
<1> HIDE DEF rest, limit, head
<1>9. /\ DrainLane(s).queue = rest /\ DrainLane(s).active = s.active + Batch(s)
      /\ DrainLane(s).maxConcurrent = limit
  BY <1>1
<1> QED
  BY <1>3, <1>6, <1>7, <1>8, <1>9 DEF head

\* A lane that keeps the limit 1 it is created with: nothing starts while a
\* task runs, otherwise the first of the queue does, alone.
LEMMA DrainSingleLane ==
  ASSUME NEW T, NEW s \in LaneState(T), s.maxConcurrent = 1, s.active \in {0, 1}
  PROVE  \/ /\ s.active = 1 \/ s.queue = << >>
            /\ StartedBy(s) = {}
            /\ DrainLane(s) = s
         \/ /\ s.active = 0 /\ s.queue # << >>
            /\ StartedBy(s) = {s.queue[1]}
            /\ DrainLane(s) = [active |-> 1, queue |-> SubSeq(s.queue, 2, Len(s.queue)),
                               maxConcurrent |-> 1]
<1> DEFINE rest  == SubSeq(s.queue, Batch(s) + 1, Len(s.queue))
<1>1. DrainLane(s) = [active |-> s.active + Batch(s), queue |-> rest, maxConcurrent |-> 1]
  BY DrainLaneResult
<1>2. CASE s.active = 1 \/ s.queue = << >>
  <2>1. Batch(s) = 0
    BY <1>2, LaneFields DEF Batch, Room
  <2>2. StartedBy(s) = {}
    BY <2>1 DEF StartedBy
  <2>3. rest = s.queue /\ s.active + Batch(s) = s.active
    BY <2>1, LaneFields
  <2>4. DrainLane(s) = s
    BY <1>1, <2>3, LaneFields
  <2> QED
    BY <1>2, <2>2, <2>4
<1>3. CASE s.active = 0 /\ s.queue # << >>
  <2>4. s.queue \in Seq(T) /\ Len(s.queue) \in Nat
    BY LaneFields
  <2>5. Len(s.queue) >= 1
    BY <1>3, <2>4
  <2>1. Batch(s) = 1
    BY <1>3, <2>4, <2>5, BatchFits
  <2>2. StartedBy(s) = {s.queue[1]}
    BY <2>1 DEF StartedBy
  <2>3. Batch(s) + 1 = 2 /\ s.active + Batch(s) = 1
    BY <1>3, <2>1
  <2> QED
    BY <1>1, <1>3, <2>2, <2>3
<1> QED
  BY <1>2, <1>3

\* Queue q holds the elements of S, each once.
Lists(q, S) ==
  /\ \A i, j \in 1..Len(q) : q[i] = q[j] => i = j
  /\ { q[i] : i \in 1..Len(q) } = S

\* Pushing somebody who does not wait yet (l.105).
LEMMA ListPush ==
  ASSUME NEW T, NEW q \in Seq(T), NEW S, Lists(q, S), NEW r \in T, r \notin S
  PROVE  Append(q, r) \in Seq(T) /\ Lists(Append(q, r), S \union {r})
<1> DEFINE p == Append(q, r)
<1>1. /\ Len(q) \in Nat /\ p \in Seq(T) /\ Len(p) = Len(q) + 1 /\ p[Len(q) + 1] = r
      /\ \A i \in 1..Len(q) : p[i] = q[i]
  OBVIOUS
<1> HIDE DEF p
<1>2. 1..Len(p) = (1..Len(q)) \union {Len(q) + 1}
  BY <1>1
<1>3. \A i \in 1..Len(q) : q[i] # r
  BY DEF Lists
<1>4. \A i, j \in 1..Len(p) : p[i] = p[j] => i = j
  BY <1>1, <1>2, <1>3 DEF Lists
<1>5. { p[i] : i \in 1..Len(p) } = { q[i] : i \in 1..Len(q) } \union {r}
  BY <1>1, <1>2
<1>6. Lists(p, S \union {r})
  BY <1>4, <1>5 DEF Lists
<1> QED
  BY <1>1, <1>6 DEF p

\* The first n entries of a queue without repetitions are n.
LEMMA PrefixCardinality ==
  ASSUME NEW T, NEW q \in Seq(T), NEW S, Lists(q, S), NEW n \in 0..Len(q)
  PROVE  /\ IsFiniteSet({ q[i] : i \in 1..n })
         /\ Cardinality({ q[i] : i \in 1..n }) = n
<1> DEFINE P == { q[i] : i \in 1..n }
           f == [i \in 1..n |-> q[i]]
<1>1. n \in Nat /\ Len(q) \in Nat /\ 1..n \subseteq 1..Len(q)
  OBVIOUS
<1>2. f \in Bijection(1..n, P)
  BY <1>1 DEF Lists, Bijection, Injection, Surjection, IsInjective
<1>3. ExistsBijection(1..n, P)
  BY <1>2 DEF ExistsBijection
<1>4. IsFiniteSet(1..n) /\ Cardinality(1..n) = n
  BY <1>1, FS_Interval
<1> QED
  BY <1>3, <1>4, FS_Bijection

\* Draining takes out those it starts and counts each of them once (l.57-60).
LEMMA ListDrain ==
  ASSUME NEW T, NEW s \in LaneState(T), NEW S, Lists(s.queue, S)
  PROVE  /\ StartedBy(s) \subseteq S /\ IsFiniteSet(StartedBy(s))
         /\ Cardinality(StartedBy(s)) = Batch(s)
         /\ Lists(DrainLane(s).queue, S \ StartedBy(s))
         /\ DrainLane(s).active = s.active + Batch(s)
<1> DEFINE n == Batch(s)
           q == s.queue
           rest == SubSeq(q, n + 1, Len(q))
<1>1. q \in Seq(T) /\ Len(q) \in Nat /\ n \in 0..Len(q) /\ n \in Nat /\ s.active \in Nat
  BY LaneFields, BatchFits
<1>2. StartedBy(s) = { q[i] : i \in 1..n }
  BY DEF StartedBy
<1>3. /\ \A i, j \in 1..Len(q) : q[i] = q[j] => i = j
      /\ { q[i] : i \in 1..Len(q) } = S
  BY DEF Lists
<1>4. DrainLane(s).queue = rest /\ DrainLane(s).active = s.active + n
  <2>1. DrainLane(s) = [active |-> s.active + n, queue |-> rest,
                        maxConcurrent |-> IF Vacant(s) THEN 1 ELSE s.maxConcurrent]
    BY DrainLaneResult
  <2> HIDE DEF n, rest
  <2> QED
    BY <2>1
<1>5. rest \in Seq(T) /\ Len(rest) = Len(q) - n
  BY DrainLaneResult
<1>6. ASSUME NEW i \in 1..Len(rest)
      PROVE  rest[i] = q[i + n] /\ i + n \in 1..Len(q) /\ i + n > n
  <2>1. i \in 1..(Len(q) - n) /\ i + n \in 1..Len(q) /\ i + n > n
    BY <1>1, <1>5
  <2>2. rest[i] = q[i + n]
    BY <2>1, <1>1, SMTT(30)
  <2> QED
    BY <2>1, <2>2
<1> HIDE DEF n, q, rest
<1>7. /\ IsFiniteSet(StartedBy(s)) /\ Cardinality(StartedBy(s)) = n
  BY <1>1, <1>2, PrefixCardinality DEF q
<1>8. StartedBy(s) \subseteq S
  BY <1>1, <1>2, <1>3
<1>9. ASSUME NEW i \in 1..Len(rest), NEW j \in 1..Len(rest), rest[i] = rest[j]
      PROVE  i = j
  <2>1. q[i + n] = q[j + n] /\ i + n \in 1..Len(q) /\ j + n \in 1..Len(q)
    BY <1>6, <1>9
  <2>2. i + n = j + n
    BY <1>3, <2>1
  <2> QED
    BY <1>1, <1>5, <2>2
<1>10. ASSUME NEW i \in 1..Len(rest)
       PROVE  rest[i] \in S \ StartedBy(s)
  <2>1. rest[i] = q[i + n] /\ i + n \in 1..Len(q) /\ i + n > n
    BY <1>6
  <2>2. \A j \in 1..n : q[j] # q[i + n]
    BY <1>1, <1>3, <2>1
  <2> QED
    BY <1>2, <1>3, <2>1, <2>2
<1>11. ASSUME NEW t \in S \ StartedBy(s)
       PROVE  \E i \in 1..Len(rest) : rest[i] = t
  <2>1. PICK k \in 1..Len(q) : q[k] = t
    BY <1>3
  <2>2. k > n
    BY <1>1, <1>2, <2>1
  <2>3. k - n \in 1..Len(rest) /\ (k - n) + n = k
    BY <1>1, <1>5, <2>1, <2>2
  <2> QED
    BY <1>6, <2>1, <2>3
<1>12. { rest[i] : i \in 1..Len(rest) } = S \ StartedBy(s)
  BY <1>10, <1>11
<1>13. Lists(rest, S \ StartedBy(s))
  BY <1>9, <1>12 DEF Lists
<1> QED
  BY <1>4, <1>7, <1>8, <1>13 DEF n
=============================================================================
