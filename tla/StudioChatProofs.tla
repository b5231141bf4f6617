-------------------------- MODULE StudioChatProofs --------------------------
(***************************************************************************)
(* Theorems of StudioChat, for every finite set of requests, every set of  *)
(* devices, sessions, slow and quitting consumers and every MaxRuns.       *)
(*                                                                         *)
(* The device slot's part is IInv of DeviceQueueProofs, whose lemmas are   *)
(* about the very actions a chat takes.  LanesGood ties the session lanes  *)
(* and the global lane to the runs in them.  SlotOf says what the progress *)
(* of a request has to do with its outcome, PlaceOf what the generator's   *)
(* place has to do with its slot and with its run.  That every chat takes  *)
(* the device's slot as DeviceSlot allows follows from DeviceSlotProofs.   *)
(***************************************************************************)
EXTENDS StudioChat, DeviceSlotProofs

\* The global lane m, when the runs are where rn says.
MainGood(m, rn) ==
  /\ m \in LaneState(Request) /\ m.active <= MaxRuns /\ m.maxConcurrent <= MaxRuns
  /\ Lists(m.queue, { r \in Request : rn[r] = "global" })
  /\ m.active = Cardinality({ r \in Request : rn[r] = "active" })

\* The lane s of session k: one run is inside, and the others wait for it.
Inside == {"global", "active", "over"}
Within(k, rn) == { r \in Request : SessionOf[r] = k /\ rn[r] \in Inside }
SessionGood(k, s, rn) ==
  /\ s \in LaneState(Request) /\ s.maxConcurrent = 1 /\ s.active \in {0, 1}
  /\ s.queue # << >> => s.active = 1
  /\ Lists(s.queue, { r \in Request : SessionOf[r] = k /\ rn[r] = "session" })
  /\ \A r, u \in Within(k, rn) : r = u
  /\ s.active = 1 <=> Within(k, rn) # {}

LanesGood(m, ss, rn) ==
  /\ rn \in [Request -> RunState]
  /\ MainGood(m, rn)
  /\ ss \in [Session -> LaneState(Request)]
  /\ \A k \in Session : SessionGood(k, ss[k], rn)

\* Answers: only an aborted request is cancelled, whoever has been leased the
\* slot holds it until it releases it, and whoever is through was answered.
SlotOf(r, ent, out, ab, rel) ==
  /\ out[r] = "cancelled" => ab[r]
  /\ out[r] = "leased" /\ ~rel[r] => ent[r] = "holding"
  /\ ent[r] \in {"finishing", "gone"} => out[r] # "none"

\* The generator at place g of request r, whose run is at x.
PlaceOf(r, g, x, ent, out, ab, rel) ==
  /\ g \in {"new", "told"} => ent[r] = "none" /\ out[r] = "none"
  /\ g \in {"racing", "pulse"} => ent[r] # "none" /\ (ab[r] => out[r] # "none")
  /\ g \in {"farewell", "setup", "prepare", "sync", "running"} => out[r] = "leased"
  /\ g # "ended" => ~rel[r]
  /\ g \notin {"running", "ended"} => x = "none"
  /\ g = "ended" /\ r \notin Quitting => x \in {"none", "settled"}

Slots  == \A r \in Request : SlotOf(r, entry, outcome, aborted, released)
Places == \A r \in Request : PlaceOf(r, gen[r], run[r], entry, outcome, aborted, released)

ChatInv ==
  /\ IInv
  /\ gen \in [Request -> GenState] /\ hit \in [Request -> BOOLEAN] /\ sameMs \in BOOLEAN
  /\ runAborted \in [Request -> BOOLEAN]
  /\ LanesGood(main, sessions, run)
  /\ Slots
  /\ Places
-----------------------------------------------------------------------------
(* The lanes.                                                              *)

\* The runs after m has been drained; r in the global lane's queue.
Starts(m, rn)  == [u \in Request |-> IF u \in StartedBy(m) THEN "active" ELSE rn[u]]
Queues(rn, r)  == [rn EXCEPT ![r] = "global"]

\* The fields of a lane after a push, a finish or a new limit.
LEMMA PreparedLane ==
  ASSUME NEW s \in LaneState(Request), NEW r, NEW n
  PROVE  /\ PushEntry(s, r) = [active |-> s.active, queue |-> Append(s.queue, r),
                               maxConcurrent |-> s.maxConcurrent]
         /\ FinishEntry(s) = [active |-> s.active - 1, queue |-> s.queue,
                              maxConcurrent |-> s.maxConcurrent]
         /\ SetLimit(s, n) = [active |-> s.active, queue |-> s.queue, maxConcurrent |-> n]
<1>1. s = [active |-> s.active, queue |-> s.queue, maxConcurrent |-> s.maxConcurrent]
  BY LaneFields
<1> DEFINE q == Append(s.queue, r)
           a == s.active - 1
<1>2. /\ PushEntry(s, r) = [s EXCEPT !.queue = q] /\ FinishEntry(s) = [s EXCEPT !.active = a]
      /\ SetLimit(s, n) = [s EXCEPT !.maxConcurrent = n]
  BY DEF PushEntry, FinishEntry, SetLimit
<1> HIDE DEF q, a
<1>3. /\ PushEntry(s, r) = [active |-> s.active, queue |-> q, maxConcurrent |-> s.maxConcurrent]
      /\ FinishEntry(s) = [active |-> a, queue |-> s.queue, maxConcurrent |-> s.maxConcurrent]
      /\ SetLimit(s, n) = [active |-> s.active, queue |-> s.queue, maxConcurrent |-> n]
  BY <1>2 DEF LaneState
<1> QED
  BY <1>3 DEF q, a

\* Draining the global lane starts runs that wait in it, within its limit.
LEMMA MainDrains ==
  ASSUME NEW m, NEW rn \in [Request -> RunState], MainGood(m, rn)
  PROVE  /\ StartedBy(m) \subseteq { r \in Request : rn[r] = "global" }
         /\ Starts(m, rn) \in [Request -> RunState]
         /\ MainGood(DrainLane(m), Starts(m, rn))
<1> DEFINE W == { r \in Request : rn[r] = "global" }
           A == { r \in Request : rn[r] = "active" }
           B == StartedBy(m)
           rn2 == Starts(m, rn)
<1>1. /\ m \in LaneState(Request) /\ m.active <= MaxRuns /\ m.maxConcurrent <= MaxRuns
      /\ Lists(m.queue, W) /\ m.active = Cardinality(A)
  BY DEF MainGood
<1>2. /\ B \subseteq W /\ IsFiniteSet(B) /\ Cardinality(B) = Batch(m)
      /\ Lists(DrainLane(m).queue, W \ B) /\ DrainLane(m).active = m.active + Batch(m)
  BY <1>1, ListDrain
<1>3. rn2 \in [Request -> RunState]
  BY DEF Starts, RunState
<1>4. /\ { r \in Request : rn2[r] = "global" } = W \ B
      /\ { r \in Request : rn2[r] = "active" } = A \union B
  BY <1>2 DEF Starts
<1>5. DrainLane(m).active = Cardinality(A \union B)
  <2>1. A \cap B = {} /\ IsFiniteSet(A) /\ Cardinality(A) \in Nat
    BY <1>2, RequestsAreFinite
  <2> HIDE DEF A, B
  <2>2. Cardinality(A \union B) = Cardinality(A) + Cardinality(B) - Cardinality(A \cap B)
    BY <1>2, <2>1, FS_Union
  <2>3. Cardinality(A \cap B) = 0 /\ Cardinality(B) \in Nat
    BY <1>2, <2>1, FS_EmptySet, FS_CardinalityType
  <2>4. Cardinality(A \union B) = Cardinality(A) + Cardinality(B)
    BY <2>1, <2>2, <2>3
  <2> QED
    BY <1>1, <1>2, <2>4
<1>6. DrainLane(m) \in LaneState(Request)
  BY <1>1, DrainLaneConserves
<1>7. DrainLane(m).maxConcurrent \in {1, m.maxConcurrent}
  <2>1. DrainLane(m).maxConcurrent = IF Vacant(m) THEN 1 ELSE m.maxConcurrent
    BY <1>1, DrainLaneResult
  <2> QED
    BY <2>1
<1>8. /\ m.active \in Nat /\ m.maxConcurrent \in Nat /\ Batch(m) \in Nat
      /\ Batch(m) > 0 => m.active + Batch(m) <= m.maxConcurrent
  BY <1>1, LaneFields, BatchFits
<1>9. DrainLane(m).active <= MaxRuns /\ DrainLane(m).maxConcurrent <= MaxRuns
  BY <1>1, <1>2, <1>7, <1>8, MaxRunsAssumption
<1> HIDE DEF W, A, B, rn2
<1>10. MainGood(DrainLane(m), rn2)
  <2>1. /\ Lists(DrainLane(m).queue, { r \in Request : rn2[r] = "global" })
        /\ DrainLane(m).active = Cardinality({ r \in Request : rn2[r] = "active" })
    BY <1>2, <1>4, <1>5
  <2> QED
    BY <1>6, <1>9, <2>1 DEF MainGood
<1> QED
  BY <1>2, <1>3, <1>10 DEF W, B, rn2

\* A run that is not there yet enters the global lane's queue (agent.ts:864).
LEMMA MainTakes ==
  ASSUME NEW m, NEW rn \in [Request -> RunState], MainGood(m, rn),
         NEW r \in Request, rn[r] \notin {"global", "active"}
  PROVE  Queues(rn, r) \in [Request -> RunState] /\ MainGood(PushEntry(m, r), Queues(rn, r))
<1> DEFINE W == { u \in Request : rn[u] = "global" }
           rn2 == Queues(rn, r)
           q == Append(m.queue, r)
<1>1. /\ m \in LaneState(Request) /\ m.active <= MaxRuns /\ m.maxConcurrent <= MaxRuns
      /\ Lists(m.queue, W)
  BY DEF MainGood
<1>2. PushEntry(m, r) = [active |-> m.active, queue |-> q, maxConcurrent |-> m.maxConcurrent]
  BY <1>1, PreparedLane
<1>3. m.queue \in Seq(Request) /\ m.active \in Nat /\ m.maxConcurrent \in Nat \ {0}
  BY <1>1, LaneFields
<1>4. q \in Seq(Request) /\ Lists(q, W \union {r})
  <2>1. r \notin W
    OBVIOUS
  <2> QED
    BY <1>1, <1>3, <2>1, ListPush
<1>5. rn2 \in [Request -> RunState]
  BY DEF Queues, RunState
<1>6. /\ { u \in Request : rn2[u] = "global" } = W \union {r}
      /\ { u \in Request : rn2[u] = "active" } = { u \in Request : rn[u] = "active" }
  BY DEF Queues
<1> HIDE DEF q, rn2, W
<1>7. PushEntry(m, r) \in LaneState(Request)
  BY <1>2, <1>3, <1>4 DEF LaneState
<1>8. /\ PushEntry(m, r).active = m.active /\ PushEntry(m, r).queue = q
      /\ PushEntry(m, r).maxConcurrent = m.maxConcurrent
  BY <1>2
<1>9. MainGood(PushEntry(m, r), rn2)
  BY <1>1, <1>4, <1>6, <1>7, <1>8 DEF MainGood
<1> QED
  BY <1>5, <1>9 DEF rn2

\* So it is there, or active already, once the lane has been drained.
LEMMA MainAdmits ==
  ASSUME NEW m, NEW rn \in [Request -> RunState], MainGood(m, rn),
         NEW r \in Request, rn[r] \notin {"global", "active"}
  PROVE  /\ StartedBy(PushEntry(m, r)) \subseteq { u \in Request : Queues(rn, r)[u] = "global" }
         /\ Starts(PushEntry(m, r), Queues(rn, r)) \in [Request -> RunState]
         /\ MainGood(IntoMain(m, r), Starts(PushEntry(m, r), Queues(rn, r)))
<1>1. Queues(rn, r) \in [Request -> RunState] /\ MainGood(PushEntry(m, r), Queues(rn, r))
  BY MainTakes
<1> QED
  BY <1>1, MainDrains DEF IntoMain

\* A body that ends gives its slot back (command-queue.ts:66-77).
LEMMA MainFrees ==
  ASSUME NEW m, NEW rn \in [Request -> RunState], MainGood(m, rn),
         NEW r \in Request, rn[r] = "active"
  PROVE  /\ [rn EXCEPT ![r] = "over"] \in [Request -> RunState]
         /\ MainGood(FinishEntry(m), [rn EXCEPT ![r] = "over"])
<1> DEFINE A == { u \in Request : rn[u] = "active" }
           rn2 == [rn EXCEPT ![r] = "over"]
<1>1. /\ m \in LaneState(Request) /\ m.active <= MaxRuns /\ m.maxConcurrent <= MaxRuns
      /\ Lists(m.queue, { u \in Request : rn[u] = "global" }) /\ m.active = Cardinality(A)
  BY DEF MainGood
<1>2. FinishEntry(m) = [active |-> m.active - 1, queue |-> m.queue,
                        maxConcurrent |-> m.maxConcurrent]
  BY <1>1, PreparedLane
<1>3. m.queue \in Seq(Request) /\ m.active \in Nat /\ m.maxConcurrent \in Nat \ {0}
  BY <1>1, LaneFields
<1>4. Cardinality(A \ {r}) = Cardinality(A) - 1 /\ Cardinality(A \ {r}) \in Nat
  <2>1. IsFiniteSet(A) /\ r \in A
    BY RequestsAreFinite
  <2> HIDE DEF A
  <2>2. IsFiniteSet(A \ {r}) /\ Cardinality(A \ {r}) = Cardinality(A) - 1
    BY <2>1, FS_RemoveElement
  <2> QED
    BY <2>2, FS_CardinalityType
<1>5. rn2 \in [Request -> RunState]
  BY DEF RunState
<1>6. /\ { u \in Request : rn2[u] = "global" } = { u \in Request : rn[u] = "global" }
      /\ { u \in Request : rn2[u] = "active" } = A \ {r}
  OBVIOUS
<1>7. m.active - 1 \in Nat /\ m.active - 1 <= MaxRuns
  BY <1>1, <1>3, <1>4, MaxRunsAssumption
<1> HIDE DEF A, rn2
<1>8. FinishEntry(m) \in LaneState(Request)
  BY <1>2, <1>3, <1>7 DEF LaneState
<1>9. /\ FinishEntry(m).active = m.active - 1 /\ FinishEntry(m).queue = m.queue
      /\ FinishEntry(m).maxConcurrent = m.maxConcurrent
  BY <1>2
<1>10. MainGood(FinishEntry(m), rn2)
  BY <1>1, <1>4, <1>6, <1>7, <1>8, <1>9 DEF MainGood
<1> QED
  BY <1>5, <1>10 DEF rn2

\* setLaneConcurrency with what the Agent's constructor passes (agent.ts:494).
LEMMA MainKeepsLimit ==
  ASSUME NEW m, NEW rn, MainGood(m, rn)
  PROVE  MainGood(SetLimit(m, MaxRuns), rn)
<1>1. m \in LaneState(Request) /\ m.active <= MaxRuns
  BY DEF MainGood
<1>2. SetLimit(m, MaxRuns) = [active |-> m.active, queue |-> m.queue, maxConcurrent |-> MaxRuns]
  BY <1>1, PreparedLane
<1>3. SetLimit(m, MaxRuns) \in LaneState(Request)
  BY <1>1, <1>2, LaneFields, MaxRunsAssumption DEF LaneState
<1> QED
  BY <1>1, <1>2, <1>3, MaxRunsAssumption DEF MainGood

\* A session lane only looks at who waits for it and who is inside.
LEMMA SessionFrame ==
  ASSUME NEW k, NEW s, NEW rn, NEW rn2, SessionGood(k, s, rn),
         \A u \in Request : SessionOf[u] = k => /\ rn2[u] = "session" <=> rn[u] = "session"
                                                /\ rn2[u] \in Inside <=> rn[u] \in Inside
  PROVE  SessionGood(k, s, rn2)
<1>1. /\ Within(k, rn2) = Within(k, rn)
      /\ { r \in Request : SessionOf[r] = k /\ rn2[r] = "session" }
           = { r \in Request : SessionOf[r] = k /\ rn[r] = "session" }
  BY DEF Within
<1> QED
  BY <1>1 DEF SessionGood

\* What the session lane does with a pushed run: it goes on into the global
\* lane's queue when the lane is free, and waits otherwise.
LEMMA SessionTakes ==
  ASSUME NEW k, NEW s, NEW rn \in [Request -> RunState], SessionGood(k, s, rn),
         NEW r \in Request, SessionOf[r] = k, rn[r] = "none"
  PROVE  LET p == PushEntry(s, r)
         IN  \/ /\ r \notin StartedBy(p)
                /\ SessionGood(k, DrainLane(p), [rn EXCEPT ![r] = "session"])
             \/ /\ r \in StartedBy(p)
                /\ SessionGood(k, DrainLane(p), [rn EXCEPT ![r] = "global"])
<1> DEFINE p == PushEntry(s, r)
           q == Append(s.queue, r)
           W == { u \in Request : SessionOf[u] = k /\ rn[u] = "session" }
           waits == [rn EXCEPT ![r] = "session"]
           enters == [rn EXCEPT ![r] = "global"]
<1>1. /\ s \in LaneState(Request) /\ s.maxConcurrent = 1 /\ s.active \in {0, 1}
      /\ s.queue # << >> => s.active = 1
      /\ Lists(s.queue, W)
      /\ \A u, v \in Within(k, rn) : u = v
      /\ s.active = 1 <=> Within(k, rn) # {}
  BY DEF SessionGood
<1>2. p = [active |-> s.active, queue |-> q, maxConcurrent |-> s.maxConcurrent]
  BY <1>1, PreparedLane
<1>3. s.queue \in Seq(Request)
  BY <1>1, LaneFields
<1>4. q \in Seq(Request) /\ Lists(q, W \union {r}) /\ q # << >>
  <2>1. r \notin W
    OBVIOUS
  <2>2. q \in Seq(Request) /\ Lists(q, W \union {r})
    BY <1>1, <1>3, <2>1, ListPush
  <2>3. q # << >>
    BY <1>3
  <2> QED
    BY <2>2, <2>3
<1>5. /\ { u \in Request : SessionOf[u] = k /\ waits[u] = "session" } = W \union {r}
      /\ Within(k, waits) = Within(k, rn)
  BY DEF Within, Inside
<1>6. /\ { u \in Request : SessionOf[u] = k /\ enters[u] = "session" } = W
      /\ Within(k, enters) = Within(k, rn) \union {r}
  BY DEF Within, Inside
<1> HIDE DEF q
<1>7. p \in LaneState(Request)
  BY <1>1, <1>2, <1>4 DEF LaneState
<1>8. p.active = s.active /\ p.queue = q /\ p.maxConcurrent = 1
  BY <1>1, <1>2
<1> HIDE DEF p
<1>9. CASE s.active = 1
  <2>1. StartedBy(p) = {} /\ DrainLane(p) = p
    BY <1>4, <1>7, <1>8, <1>9, DrainSingleLane
  <2> HIDE DEF waits, W
  <2>2. SessionGood(k, p, waits)
    BY <1>1, <1>4, <1>5, <1>7, <1>8, <1>9 DEF SessionGood
  <2> QED
    BY <2>1, <2>2 DEF p, waits
<1>10. CASE s.active = 0
  <2>1. s.queue = << >> /\ Within(k, rn) = {}
    BY <1>1, <1>10
  <2>2. q = <<r>>
    BY <2>1, <1>3 DEF q
  <2>3. /\ StartedBy(p) = {p.queue[1]}
        /\ DrainLane(p) = [active |-> 1, queue |-> SubSeq(p.queue, 2, Len(p.queue)), maxConcurrent |-> 1]
    BY <1>4, <1>7, <1>8, <1>10, DrainSingleLane
  <2>4. StartedBy(p) = {r}
    BY <2>2, <2>3, <1>8
  <2>5. (W \union {r}) \ {r} = W
    OBVIOUS
  <2>6. DrainLane(p).active = 1 /\ DrainLane(p).maxConcurrent = 1
    BY <2>3
  <2> HIDE DEF enters, W
  <2>7. Lists(DrainLane(p).queue, W) /\ DrainLane(p) \in LaneState(Request)
    <3>1. Lists(p.queue, W \union {r})
      BY <1>4, <1>8
    <3>2. Lists(DrainLane(p).queue, (W \union {r}) \ StartedBy(p))
      BY <3>1, <1>7, ListDrain
    <3> QED
      BY <3>2, <2>4, <2>5, <1>7, DrainLaneConserves
  <2>8. SessionGood(k, DrainLane(p), enters)
    BY <2>1, <2>6, <2>7, <1>6 DEF SessionGood
  <2> QED
    BY <2>4, <2>8 DEF p, enters
<1> QED
  BY <1>1, <1>9, <1>10 DEF p

\* What its continuation does: the run that was inside is done, and the first
\* of those that wait goes on into the global lane's queue.
LEMMA SessionGoesOn ==
  ASSUME NEW k, NEW s, NEW rn \in [Request -> RunState], SessionGood(k, s, rn),
         NEW r \in Request, SessionOf[r] = k, rn[r] = "over"
  PROVE  LET f == FinishEntry(s)
         IN  \/ /\ StartedBy(f) = {}
                /\ SessionGood(k, DrainLane(f), [rn EXCEPT ![r] = "settled"])
             \/ \E u \in Request :
                  /\ StartedBy(f) = {u} /\ SessionOf[u] = k /\ rn[u] = "session"
                  /\ SessionGood(k, DrainLane(f), [rn EXCEPT ![r] = "settled", ![u] = "global"])
<1> DEFINE f == FinishEntry(s)
           W == { u \in Request : SessionOf[u] = k /\ rn[u] = "session" }
           done == [rn EXCEPT ![r] = "settled"]
<1>1. /\ s \in LaneState(Request) /\ s.maxConcurrent = 1 /\ s.active \in {0, 1}
      /\ Lists(s.queue, W)
      /\ \A u, v \in Within(k, rn) : u = v
      /\ s.active = 1 <=> Within(k, rn) # {}
  BY DEF SessionGood
<1>2. Within(k, rn) = {r}
  <2>1. r \in Within(k, rn)
    BY DEF Within, Inside
  <2> QED
    BY <2>1, <1>1
<1>3. f = [active |-> 0, queue |-> s.queue, maxConcurrent |-> 1]
  <2>1. s.active - 1 = 0
    BY <1>1, <1>2
  <2> QED
    BY <1>1, <2>1, PreparedLane
<1>4. f \in LaneState(Request) /\ f.active = 0 /\ f.queue = s.queue /\ f.maxConcurrent = 1
  BY <1>1, <1>3, LaneFields DEF LaneState
<1>5. /\ { u \in Request : SessionOf[u] = k /\ done[u] = "session" } = W
      /\ Within(k, done) = {}
  BY <1>2 DEF Within, Inside
<1> HIDE DEF f
<1>6. CASE f.queue = << >>
  <2>1. StartedBy(f) = {} /\ DrainLane(f) = f
    BY <1>4, <1>6, DrainSingleLane
  <2> HIDE DEF done, W
  <2>2. Lists(f.queue, { v \in Request : SessionOf[v] = k /\ done[v] = "session" })
    BY <1>1, <1>4, <1>5
  <2>3. SessionGood(k, f, done)
    BY <1>4, <1>5, <1>6, <2>2 DEF SessionGood
  <2> QED
    BY <2>1, <2>3 DEF f, done
<1>7. CASE f.queue # << >>
  <2> DEFINE u == f.queue[1]
             next == [rn EXCEPT ![r] = "settled", ![u] = "global"]
  <2>1. /\ StartedBy(f) = {f.queue[1]}
        /\ DrainLane(f) = [active |-> 1, queue |-> SubSeq(f.queue, 2, Len(f.queue)), maxConcurrent |-> 1]
    BY <1>4, <1>7, DrainSingleLane
  <2>2. /\ StartedBy(f) = {u} /\ StartedBy(f) \subseteq W
        /\ Lists(DrainLane(f).queue, W \ {u}) /\ DrainLane(f) \in LaneState(Request)
    <3> HIDE DEF W
    <3>1. Lists(f.queue, W)
      BY <1>1, <1>4
    <3>2. /\ StartedBy(f) \subseteq W /\ Lists(DrainLane(f).queue, W \ StartedBy(f))
          /\ DrainLane(f) \in LaneState(Request)
      BY <3>1, <1>4, ListDrain, DrainLaneConserves
    <3> QED
      BY <3>2, <2>1
  <2>3. u \in Request /\ SessionOf[u] = k /\ rn[u] = "session"
    BY <2>2
  <2>4. DrainLane(f).active = 1 /\ DrainLane(f).maxConcurrent = 1
    BY <2>1
  <2> HIDE DEF u
  <2>5. /\ { v \in Request : SessionOf[v] = k /\ next[v] = "session" } = W \ {u}
        /\ Within(k, next) = {u}
    BY <1>2, <2>3 DEF Within, Inside
  <2> HIDE DEF next, W
  <2>6. SessionGood(k, DrainLane(f), next)
    BY <2>2, <2>4, <2>5 DEF SessionGood
  <2> QED
    BY <2>2, <2>3, <2>6 DEF f, next
<1> QED
  BY <1>6, <1>7 DEF f
-----------------------------------------------------------------------------
(* The steps of the runs.                                                  *)

\* Who is not in the lanes before a step is not moved by it.
Leaves(rn, rn2, r) ==
  \A u \in Request \ {r} : rn[u] \in {"none", "settled"} => rn2[u] = rn[u]

LEMMA MainFrame ==
  ASSUME NEW m, NEW rn, NEW rn2, MainGood(m, rn),
         \A u \in Request : /\ rn2[u] = "global" <=> rn[u] = "global"
                            /\ rn2[u] = "active" <=> rn[u] = "active"
  PROVE  MainGood(m, rn2)
<1>1. /\ { r \in Request : rn2[r] = "global" } = { r \in Request : rn[r] = "global" }
      /\ { r \in Request : rn2[r] = "active" } = { r \in Request : rn[r] = "active" }
  OBVIOUS
<1> QED
  BY <1>1 DEF MainGood

\* Draining the global lane moves nobody out of a session lane or into one.
LEMMA DrainedLanesAreGood ==
  ASSUME NEW m, NEW ss, NEW rn, LanesGood(m, ss, rn)
  PROVE  LanesGood(DrainLane(m), ss, Starts(m, rn)) /\ \A r : Leaves(rn, Starts(m, rn), r)
<1>1. /\ rn \in [Request -> RunState] /\ MainGood(m, rn)
      /\ ss \in [Session -> LaneState(Request)] /\ \A k \in Session : SessionGood(k, ss[k], rn)
  BY DEF LanesGood
<1>2. /\ StartedBy(m) \subseteq { r \in Request : rn[r] = "global" }
      /\ Starts(m, rn) \in [Request -> RunState]
      /\ MainGood(DrainLane(m), Starts(m, rn))
  BY <1>1, MainDrains
<1>3. \A u \in Request : \/ Starts(m, rn)[u] = rn[u]
                         \/ Starts(m, rn)[u] = "active" /\ rn[u] = "global"
  BY <1>2 DEF Starts
<1>4. ASSUME NEW k \in Session PROVE SessionGood(k, ss[k], Starts(m, rn))
  <2>1. \A u \in Request : /\ Starts(m, rn)[u] = "session" <=> rn[u] = "session"
                           /\ Starts(m, rn)[u] \in Inside <=> rn[u] \in Inside
    BY <1>3 DEF Inside
  <2> QED
    BY <1>1, <2>1, SessionFrame
<1> QED
  BY <1>1, <1>2, <1>3, <1>4 DEF LanesGood, Leaves

\* agent.run: into the session lane, and on into the global one when it is free.
LEMMA SubmitGood ==
  ASSUME NEW STATE m, NEW STATE rn, LanesGood(m, sessions, rn), NEW STATE sb,
         rn = [u \in Request |-> IF u \in sb THEN "active" ELSE run[u]],
         NEW r \in Request, rn[r] = "none", SubmitRun(r, m, sb)
  PROVE  LanesGood(main', sessions', run') /\ Leaves(rn, run', r)
<1> DEFINE k == SessionOf[r]
           p == PushEntry(sessions[k], r)
           st == StartedBy(PushEntry(m, r))
<1>1. /\ rn \in [Request -> RunState] /\ MainGood(m, rn)
      /\ sessions \in [Session -> LaneState(Request)]
      /\ \A j \in Session : SessionGood(j, sessions[j], rn)
      /\ k \in Session /\ SessionGood(k, sessions[k], rn) /\ r \notin sb
  BY SessionAssumption DEF LanesGood
<1>2. /\ sessions' = [sessions EXCEPT ![k] = DrainLane(p)]
      /\ main' = IF r \in StartedBy(p) THEN IntoMain(m, r) ELSE m
      /\ run' = RunsOf(sb \union (IF r \in StartedBy(p) THEN st ELSE {}), r,
                       IF r \in StartedBy(p) THEN "global" ELSE "session")
  BY DEF SubmitRun
<1>3. ASSUME SessionGood(k, DrainLane(p), run'), run' \in [Request -> RunState], MainGood(main', run'),
             \A u \in Request \ {r} : \/ run'[u] = rn[u]
                                      \/ rn[u] = "global" /\ run'[u] = "active"
      PROVE  LanesGood(main', sessions', run') /\ Leaves(rn, run', r)
  <2>1. DrainLane(p) \in LaneState(Request)
    BY <1>3 DEF SessionGood
  <2>2. sessions' \in [Session -> LaneState(Request)]
    BY <1>1, <1>2, <2>1
  <2>3. ASSUME NEW j \in Session PROVE SessionGood(j, sessions'[j], run')
    <3>1. CASE j = k
      BY <1>1, <1>2, <1>3, <3>1
    <3>2. CASE j # k
      <4>1. sessions'[j] = sessions[j] /\ SessionGood(j, sessions[j], rn)
        BY <1>1, <1>2, <3>2
      <4>2. \A u \in Request : SessionOf[u] = j => /\ run'[u] = "session" <=> rn[u] = "session"
                                                   /\ run'[u] \in Inside <=> rn[u] \in Inside
        BY <1>3, <3>2 DEF Inside
      <4> QED
        BY <4>1, <4>2, SessionFrame
    <3> QED
      BY <3>1, <3>2
  <2> QED
    BY <1>3, <2>2, <2>3 DEF LanesGood, Leaves
<1>4. CASE r \notin StartedBy(p)
  <2>1. SessionGood(k, DrainLane(p), [rn EXCEPT ![r] = "session"])
    BY <1>1, <1>4, SessionTakes
  <2>2. run' = [rn EXCEPT ![r] = "session"] /\ main' = m
    BY <1>1, <1>2, <1>4 DEF RunsOf
  <2>3. run' \in [Request -> RunState] /\ \A u \in Request \ {r} : run'[u] = rn[u]
    BY <1>1, <2>2 DEF RunState
  <2>4. MainGood(main', run')
    <3>1. run'[r] = "session"
      BY <1>1, <2>2
    <3> QED
      BY <1>1, <2>2, <2>3, <3>1, MainFrame
  <2> QED
    BY <1>3, <2>1, <2>2, <2>3, <2>4
<1>5. CASE r \in StartedBy(p)
  <2>1. SessionGood(k, DrainLane(p), [rn EXCEPT ![r] = "global"])
    BY <1>1, <1>5, SessionTakes
  <2>2. /\ st \subseteq { u \in Request : Queues(rn, r)[u] = "global" }
        /\ Starts(PushEntry(m, r), Queues(rn, r)) \in [Request -> RunState]
        /\ MainGood(IntoMain(m, r), Starts(PushEntry(m, r), Queues(rn, r)))
    BY <1>1, MainAdmits
  <2>3. run' = RunsOf(sb \union st, r, "global") /\ main' = IntoMain(m, r)
    BY <1>2, <1>5
  <2> HIDE DEF st
  <2>4. run' = Starts(PushEntry(m, r), Queues(rn, r))
    BY <1>1, <2>3 DEF RunsOf, Starts, Queues, st
  <2>5. \A u \in Request : \/ run'[u] = Queues(rn, r)[u]
                           \/ Queues(rn, r)[u] = "global" /\ run'[u] = "active"
    BY <2>2, <2>4 DEF Starts, st
  <2>6. Queues(rn, r) = [rn EXCEPT ![r] = "global"]
    BY DEF Queues
  <2>7. SessionGood(k, DrainLane(p), run')
    <3>1. \A u \in Request : /\ run'[u] = "session" <=> Queues(rn, r)[u] = "session"
                             /\ run'[u] \in Inside <=> Queues(rn, r)[u] \in Inside
      BY <2>5 DEF Inside
    <3> QED
      BY <2>1, <2>6, <3>1, SessionFrame
  <2>8. \A u \in Request \ {r} : \/ run'[u] = rn[u]
                                 \/ rn[u] = "global" /\ run'[u] = "active"
    BY <1>1, <2>5, <2>6
  <2> QED
    BY <1>3, <2>2, <2>3, <2>4, <2>7, <2>8
<1> QED
  BY <1>4, <1>5

\* A body ends: its run leaves the global lane, which goes on.
LEMMA BodyEndsGood ==
  ASSUME LanesGood(main, sessions, run), NEW r \in Request, RunBodyEnds(r)
  PROVE  LanesGood(main', sessions', run') /\ Leaves(run, run', r) /\ run'[r] = "over"
<1> DEFINE rn == [run EXCEPT ![r] = "over"]
           f == FinishEntry(main)
<1>1. /\ run \in [Request -> RunState] /\ run[r] = "active"
      /\ MainGood(main, run) /\ sessions \in [Session -> LaneState(Request)]
      /\ \A k \in Session : SessionGood(k, sessions[k], run)
      /\ main' = DrainLane(f) /\ sessions' = sessions
      /\ run' = RunsOf(StartedBy(f), r, "over")
  BY DEF LanesGood, RunBodyEnds
<1>2. rn \in [Request -> RunState] /\ MainGood(f, rn)
  BY <1>1, MainFrees
<1>3. ASSUME NEW k \in Session PROVE SessionGood(k, sessions[k], rn)
  <2>1. \A u \in Request : /\ rn[u] = "session" <=> run[u] = "session"
                           /\ rn[u] \in Inside <=> run[u] \in Inside
    BY <1>1 DEF Inside
  <2> HIDE DEF rn
  <2> QED
    BY <1>1, <2>1, SessionFrame
<1>4. LanesGood(f, sessions, rn)
  BY <1>1, <1>2, <1>3 DEF LanesGood
<1>5. LanesGood(DrainLane(f), sessions, Starts(f, rn)) /\ StartedBy(f) \subseteq { u \in Request : rn[u] = "global" }
  BY <1>2, <1>4, DrainedLanesAreGood, MainDrains
<1> HIDE DEF f
<1>6. run' = Starts(f, rn)
  BY <1>1, <1>5 DEF RunsOf, Starts
<1>7. run'[r] = "over" /\ Leaves(run, run', r)
  BY <1>1, <1>5 DEF RunsOf, Leaves
<1> QED
  BY <1>1, <1>5, <1>6, <1>7

\* The session lane goes on: the run that was over is settled, and the next of
\* its session, if any, enters the global lane's queue.
LEMMA ContinuesGood ==
  ASSUME LanesGood(main, sessions, run), NEW r \in Request, SessionLaneContinues(r)
  PROVE  LanesGood(main', sessions', run') /\ Leaves(run, run', r) /\ run'[r] = "settled"
<1> DEFINE k == SessionOf[r]
           f == FinishEntry(sessions[k])
           rn == [run EXCEPT ![r] = "settled"]
<1>1. /\ run \in [Request -> RunState] /\ run[r] = "over" /\ MainGood(main, run)
      /\ sessions \in [Session -> LaneState(Request)]
      /\ \A j \in Session : SessionGood(j, sessions[j], run)
      /\ k \in Session /\ SessionGood(k, sessions[k], run)
      /\ sessions' = [sessions EXCEPT ![k] = DrainLane(f)]
  BY SessionAssumption DEF LanesGood, SessionLaneContinues
<1>2. rn \in [Request -> RunState] /\ MainGood(main, rn)
  <2>1. rn \in [Request -> RunState]
    BY <1>1 DEF RunState
  <2>2. \A u \in Request : /\ rn[u] = "global" <=> run[u] = "global"
                           /\ rn[u] = "active" <=> run[u] = "active"
    BY <1>1
  <2> HIDE DEF rn
  <2> QED
    BY <1>1, <2>1, <2>2, MainFrame
<1>3. ASSUME SessionGood(k, DrainLane(f), run'), run' \in [Request -> RunState], MainGood(main', run'),
             \A u \in Request : SessionOf[u] # k => \/ run'[u] = run[u]
                                                    \/ run[u] = "global" /\ run'[u] = "active"
      PROVE  LanesGood(main', sessions', run')
  <2>1. DrainLane(f) \in LaneState(Request)
    BY <1>3 DEF SessionGood
  <2>2. sessions' \in [Session -> LaneState(Request)]
    BY <1>1, <2>1
  <2>3. ASSUME NEW j \in Session PROVE SessionGood(j, sessions'[j], run')
    <3>1. CASE j = k
      BY <1>1, <1>3, <3>1
    <3>2. CASE j # k
      <4>1. sessions'[j] = sessions[j] /\ SessionGood(j, sessions[j], run)
        BY <1>1, <3>2
      <4>2. \A u \in Request : SessionOf[u] = j => /\ run'[u] = "session" <=> run[u] = "session"
                                                   /\ run'[u] \in Inside <=> run[u] \in Inside
        BY <1>3, <3>2 DEF Inside
      <4> QED
        BY <4>1, <4>2, SessionFrame
    <3> QED
      BY <3>1, <3>2
  <2> QED
    BY <1>3, <2>2, <2>3 DEF LanesGood
<1>4. \/ /\ StartedBy(f) = {}
         /\ SessionGood(k, DrainLane(f), rn)
      \/ \E u \in Request :
           /\ StartedBy(f) = {u} /\ SessionOf[u] = k /\ run[u] = "session"
           /\ SessionGood(k, DrainLane(f), [run EXCEPT ![r] = "settled", ![u] = "global"])
  BY <1>1, SessionGoesOn
<1>5. CASE StartedBy(f) = {} /\ SessionGood(k, DrainLane(f), rn)
  <2>1. main' = main /\ run' = rn
    BY <1>1, <1>5 DEF SessionLaneContinues, RunsOf
  <2>2. run'[r] = "settled" /\ \A u \in Request \ {r} : run'[u] = run[u]
    BY <1>1, <2>1
  <2> HIDE DEF rn
  <2> QED
    BY <1>2, <1>3, <1>5, <2>1, <2>2 DEF Leaves
<1>6. ASSUME NEW u \in Request, StartedBy(f) = {u}, SessionOf[u] = k, run[u] = "session",
             SessionGood(k, DrainLane(f), [run EXCEPT ![r] = "settled", ![u] = "global"])
      PROVE  LanesGood(main', sessions', run') /\ Leaves(run, run', r) /\ run'[r] = "settled"
  <2> DEFINE st == StartedBy(PushEntry(main, u))
             q == Queues(rn, u)
  <2>1. main' = IntoMain(main, u) /\ run' = [RunsOf(st, u, "global") EXCEPT ![r] = "settled"]
    BY <1>6 DEF SessionLaneContinues
  <2>2. rn[u] = "session" /\ u # r
    BY <1>1, <1>6
  <2>3. q = [run EXCEPT ![r] = "settled", ![u] = "global"]
    BY <1>1, <2>2 DEF Queues
  <2>4. /\ st \subseteq { v \in Request : q[v] = "global" }
        /\ Starts(PushEntry(main, u), q) \in [Request -> RunState]
        /\ MainGood(IntoMain(main, u), Starts(PushEntry(main, u), q))
    BY <1>2, <2>2, MainAdmits
  <2>5. q[r] = "settled" /\ q[u] = "global" /\ \A v \in Request \ {r, u} : q[v] = run[v]
    BY <1>1, <2>2, <2>3
  <2> HIDE DEF rn, q, st
  <2>6. r \notin st
    BY <2>4, <2>5
  <2>7. run' = Starts(PushEntry(main, u), q)
    BY <1>1, <2>1, <2>2, <2>5, <2>6 DEF RunsOf, Starts, st
  <2>8. \A v \in Request : \/ run'[v] = q[v]
                           \/ q[v] = "global" /\ run'[v] = "active"
    BY <2>4, <2>7 DEF Starts, st
  <2>9. SessionGood(k, DrainLane(f), run')
    <3>1. \A v \in Request : /\ run'[v] = "session" <=> q[v] = "session"
                             /\ run'[v] \in Inside <=> q[v] \in Inside
      BY <2>8 DEF Inside
    <3> QED
      BY <1>6, <2>3, <3>1, SessionFrame
  <2>10. run'[r] = "settled" /\ Leaves(run, run', r)
    BY <1>6, <2>5, <2>8 DEF Leaves
  <2>11. \A v \in Request : SessionOf[v] # k => \/ run'[v] = run[v]
                                                \/ run[v] = "global" /\ run'[v] = "active"
    BY <1>6, <2>5, <2>8
  <2> QED
    BY <1>3, <2>1, <2>4, <2>7, <2>9, <2>10, <2>11
<1> QED
  BY <1>4, <1>5, <1>6

\* new Agent: the global lane gets its limit and goes on (agent.ts:494).
LEMMA NewAgentGood ==
  ASSUME LanesGood(main, sessions, run)
  PROVE  /\ LanesGood(NewAgentMain, sessions, Starts(SetLimit(main, MaxRuns), run))
         /\ \A r : Leaves(run, Starts(SetLimit(main, MaxRuns), run), r)
         /\ NewAgentStarts \subseteq { u \in Request : run[u] = "global" }
<1> DEFINE m == SetLimit(main, MaxRuns)
<1>1. MainGood(m, run) /\ run \in [Request -> RunState]
  BY MainKeepsLimit DEF LanesGood
<1>2. LanesGood(m, sessions, run)
  BY <1>1 DEF LanesGood
<1> HIDE DEF m
<1>3. /\ LanesGood(DrainLane(m), sessions, Starts(m, run)) /\ \A r : Leaves(run, Starts(m, run), r)
      /\ StartedBy(m) \subseteq { u \in Request : run[u] = "global" }
  BY <1>1, <1>2, DrainedLanesAreGood, MainDrains
<1> QED
  BY <1>3 DEF m, NewAgentMain, NewAgentStarts

LEMMA BuildAgentGood ==
  ASSUME LanesGood(main, sessions, run), NEW r \in Request, run[r] = "none", BuildAgent(r)
  PROVE  LanesGood(main', sessions', run') /\ Leaves(run, run', r) /\ run'[r] = "none"
<1>1. /\ LanesGood(NewAgentMain, sessions, Starts(SetLimit(main, MaxRuns), run))
      /\ Leaves(run, Starts(SetLimit(main, MaxRuns), run), r)
      /\ NewAgentStarts \subseteq { u \in Request : run[u] = "global" }
  BY NewAgentGood
<1>2. /\ main' = NewAgentMain /\ sessions' = sessions
      /\ run' = RunsOf(NewAgentStarts, r, "none")
  BY DEF BuildAgent
<1>3. r \notin NewAgentStarts
  BY <1>1
<1>4. run' = Starts(SetLimit(main, MaxRuns), run) /\ run'[r] = "none"
  BY <1>2, <1>3 DEF RunsOf, Starts, NewAgentStarts
<1> QED
  BY <1>1, <1>2, <1>4

\* Both ways into a run: after the memory has been synchronised, or right away.
LEMMA SyncDoneGood ==
  ASSUME LanesGood(main, sessions, run), NEW r \in Request, run[r] = "none", SyncDone(r)
  PROVE  LanesGood(main', sessions', run') /\ Leaves(run, run', r)
<1>1. run = [u \in Request |-> IF u \in {} THEN "active" ELSE run[u]]
  BY DEF LanesGood
<1>2. SubmitRun(r, main, {})
  BY DEF SyncDone
<1> QED
  BY <1>1, <1>2, SubmitGood

LEMMA BuildAgentAndRunGood ==
  ASSUME LanesGood(main, sessions, run), NEW r \in Request, run[r] = "none", BuildAgentAndRun(r)
  PROVE  LanesGood(main', sessions', run') /\ Leaves(run, run', r)
<1> DEFINE rn == Starts(SetLimit(main, MaxRuns), run)
<1>1. /\ LanesGood(NewAgentMain, sessions, rn) /\ Leaves(run, rn, r)
      /\ NewAgentStarts \subseteq { u \in Request : run[u] = "global" }
  BY NewAgentGood
<1>2. rn = [u \in Request |-> IF u \in NewAgentStarts THEN "active" ELSE run[u]]
  BY DEF Starts, NewAgentStarts
<1>3. rn[r] = "none" /\ SubmitRun(r, NewAgentMain, NewAgentStarts)
  BY <1>1, <1>2 DEF BuildAgentAndRun
<1> HIDE DEF rn
<1>4. LanesGood(main', sessions', run') /\ Leaves(rn, run', r)
  BY <1>1, <1>2, <1>3, SubmitGood
<1> QED
  BY <1>1, <1>4 DEF Leaves
-----------------------------------------------------------------------------
(* The slot, as a request sees it.                                         *)

\* Taken out of the queue, a request gets the slot, or gives up if it was aborted.
Begun(u) ==
  \/ entry'[u] = "holding" /\ outcome[u] = "none" /\ outcome'[u] = "leased"
  \/ entry'[u] = "finishing" /\ outcome'[u] = "cancelled" /\ aborted[u]

\* What a step of somebody else may do to request u.
Goes(u) ==
  /\ aborted'[u] = aborted[u]
  /\ \/ entry'[u] = entry[u] /\ outcome'[u] = outcome[u]
     \/ entry[u] = "queued" /\ Begun(u)
     \/ entry[u] = "holding" /\ released[u] /\ entry'[u] = "finishing" /\ outcome'[u] = outcome[u]
     \/ entry[u] = "finishing" /\ entry'[u] = "gone" /\ outcome'[u] = outcome[u]
Aborts(u) ==
  /\ aborted'[u] /\ entry'[u] = entry[u]
  /\ outcome'[u] = IF entry[u] = "queued" /\ outcome[u] = "none" THEN "cancelled" ELSE outcome[u]
Passed(u) == released'[u] = released[u] /\ (Goes(u) \/ Aborts(u))

\* Who holds the slot was leased it, and nobody is leased it before.
LEMMA HoldersAreLeased ==
  ASSUME IInv, NEW u \in Request
  PROVE  /\ entry[u] = "holding" => outcome[u] = "leased"
         /\ entry[u] \in {"none", "queued"} => outcome[u] # "leased"
         /\ entry[u] \in EntryState /\ outcome[u] \in Outcome
         /\ aborted[u] \in BOOLEAN /\ released[u] \in BOOLEAN
<1>1. StatusGood(Target[u], activeRuns[Target[u]], entry, outcome)
  BY TargetAssumption DEF IInv, Good
<1>2. /\ entry[u] \in EntryState /\ outcome[u] \in Outcome
      /\ aborted[u] \in BOOLEAN /\ released[u] \in BOOLEAN
  BY DEF IInv, SlotTypeOK
<1> QED
  BY <1>1, <1>2 DEF StatusGood

\* A request keeps its place while others move.
LEMMA RequestIsKept ==
  ASSUME ChatInv, NEW u \in Request, Passed(u), gen'[u] = gen[u],
         run[u] \in {"none", "settled"} => run'[u] = run[u]
  PROVE  /\ SlotOf(u, entry', outcome', aborted', released')
         /\ PlaceOf(u, gen'[u], run'[u], entry', outcome', aborted', released')
<1>1. /\ SlotOf(u, entry, outcome, aborted, released)
      /\ PlaceOf(u, gen[u], run[u], entry, outcome, aborted, released)
      /\ gen[u] \in GenState
  BY DEF ChatInv, Slots, Places
<1>2. /\ entry[u] = "holding" => outcome[u] = "leased"
      /\ entry[u] \in {"none", "queued"} => outcome[u] # "leased"
      /\ entry[u] \in EntryState /\ outcome[u] \in Outcome
      /\ aborted[u] \in BOOLEAN /\ released[u] \in BOOLEAN
  BY HoldersAreLeased DEF ChatInv
<1>3. SlotOf(u, entry', outcome', aborted', released')
  <2>1. /\ outcome[u] = "cancelled" => aborted[u]
        /\ outcome[u] = "leased" /\ ~released[u] => entry[u] = "holding"
        /\ entry[u] \in {"finishing", "gone"} => outcome[u] # "none"
    BY <1>1 DEF SlotOf
  <2>2. CASE Aborts(u)
    <3>1. outcome'[u] = "cancelled" => aborted'[u]
      BY <2>2 DEF Aborts
    <3>2. outcome'[u] = "leased" /\ ~released'[u] => entry'[u] = "holding"
      BY <2>1, <2>2 DEF Aborts, Passed
    <3>3. entry'[u] \in {"finishing", "gone"} => outcome'[u] # "none"
      BY <2>1, <2>2 DEF Aborts
    <3> QED
      BY <3>1, <3>2, <3>3 DEF SlotOf
  <2>3. CASE Goes(u)
    <3>1. outcome'[u] = "cancelled" => aborted'[u]
      BY <2>1, <2>3 DEF Goes, Begun
    <3>2. outcome'[u] = "leased" /\ ~released'[u] => entry'[u] = "holding"
      BY <1>2, <2>1, <2>3 DEF Goes, Begun, Passed
    <3>3. entry'[u] \in {"finishing", "gone"} => outcome'[u] # "none"
      BY <1>2, <2>1, <2>3 DEF Goes, Begun
    <3> QED
      BY <3>1, <3>2, <3>3 DEF SlotOf
  <2> QED
    BY <2>2, <2>3 DEF Passed
<1>4. outcome[u] # "none" => outcome'[u] = outcome[u]
  BY <1>2 DEF Passed, Goes, Begun, Aborts, Outcome
<1>5. entry[u] = "none" => entry'[u] = "none" /\ outcome'[u] = outcome[u]
  BY DEF Passed, Goes, Begun, Aborts
<1>6. entry[u] # "none" => entry'[u] # "none"
  BY DEF Passed, Goes, Begun, Aborts
<1>7. entry[u] # "none" /\ aborted'[u] => (aborted[u] /\ outcome[u] # "none") \/ outcome'[u] # "none" \/ Goes(u)
  BY <1>1, <1>2 DEF SlotOf, Passed, Aborts, EntryState, Outcome
<1>8. Goes(u) => aborted'[u] = aborted[u]
  BY DEF Goes
<1>9. released'[u] = released[u]
  BY DEF Passed
<1>10. PlaceOf(u, gen'[u], run'[u], entry', outcome', aborted', released')
  BY <1>1, <1>4, <1>5, <1>6, <1>7, <1>8, <1>9 DEF PlaceOf
<1> QED
  BY <1>3, <1>10

\* What a drain does to the requests: who is taken out of the queue begins.
LEMMA DrainEffect ==
  ASSUME IInv, Slots, NEW STATE d, NEW STATE s, NEW STATE pend, NEW STATE went,
         went \in [Request -> EntryState], Drain(d, s, pend, went),
         \A u \in StartedBy(s) : u \in Request /\ went[u] = "queued",
         \A u \in Request : went[u] = "queued" => outcome[u] # "leased"
  PROVE  \A u \in Request : \/ entry'[u] = went[u] /\ outcome'[u] = outcome[u]
                            \/ went[u] = "queued" /\ Begun(u)
<1>1. CASE StartedBy(s) = {} /\ entry' = went /\ outcome' = outcome
  BY <1>1
<1>2. ASSUME NEW v \in StartedBy(s), StartBody(v, d, pend, went)
      PROVE  \A u \in Request : \/ entry'[u] = went[u] /\ outcome'[u] = outcome[u]
                                \/ went[u] = "queued" /\ Begun(u)
  <2>1. v \in Request /\ went[v] = "queued" /\ outcome[v] # "leased"
    BY <1>2
  <2>2. outcome[v] \in Outcome /\ (outcome[v] = "cancelled" => aborted[v])
    BY <2>1, HoldersAreLeased DEF Slots, SlotOf
  <2>3. /\ entry' = [went EXCEPT ![v] = IF GivesUp(v) THEN "finishing" ELSE "holding"]
        /\ outcome' = [outcome EXCEPT ![v] = IF outcome[v] # "none" THEN outcome[v]
                                             ELSE IF aborted[v] THEN "cancelled" ELSE "leased"]
    BY <1>2 DEF StartBody
  <2>4. outcome \in [Request -> Outcome]
    BY DEF IInv, SlotTypeOK
  <2>5. Begun(v)
    BY <2>1, <2>2, <2>3, <2>4 DEF Begun, GivesUp, Outcome
  <2>6. \A u \in Request \ {v} : entry'[u] = went[u] /\ outcome'[u] = outcome[u]
    BY <2>3, <2>4
  <2> QED
    BY <2>1, <2>5, <2>6
<1> QED
  BY <1>1, <1>2 DEF Drain

\* Who is started from a lane was queued in it.
LEMMA StartedWereQueued ==
  ASSUME IInv, NEW d \in Device, NEW u
  PROVE  /\ u \in StartedBy(FinishEntry(lanes[d])) => u \in Request /\ entry[u] = "queued"
         /\ \A r \in Request :
              u \in StartedBy(PushEntry(lanes[d], r)) => u = r \/ (u \in Request /\ entry[u] = "queued")
<1>1. /\ lanes[d] \in LaneState(Request)
      /\ { lanes[d].queue[i] : i \in 1..Len(lanes[d].queue) }
           = { r \in Request : Target[r] = d /\ entry[r] = "queued" }
  BY DEF IInv, SlotTypeOK, Good, QueueGood
<1>2. lanes[d].queue \in Seq(Request) /\ Len(lanes[d].queue) \in Nat /\ lanes[d].active \in Nat
      /\ lanes[d].maxConcurrent \in Nat
  BY <1>1, LaneFields
<1>3. ASSUME u \in StartedBy(FinishEntry(lanes[d])) PROVE u \in Request /\ entry[u] = "queued"
  <2>1. FinishEntry(lanes[d]).queue = lanes[d].queue
    BY <1>1, PreparedLane
  <2>2. PICK i \in 1..Batch(FinishEntry(lanes[d])) : u = lanes[d].queue[i]
    BY <1>3, <2>1 DEF StartedBy
  <2>3. i \in 1..Len(lanes[d].queue)
    <3>1. Batch(FinishEntry(lanes[d])) <= Len(lanes[d].queue)
      <4>1. /\ FinishEntry(lanes[d]).active = lanes[d].active - 1
            /\ FinishEntry(lanes[d]).maxConcurrent = lanes[d].maxConcurrent
        BY <1>1, PreparedLane
      <4> QED
        BY <1>2, <2>1, <4>1 DEF Batch, Room
    <3>2. Batch(FinishEntry(lanes[d])) \in Int
      <4>1. /\ FinishEntry(lanes[d]).active = lanes[d].active - 1
            /\ FinishEntry(lanes[d]).maxConcurrent = lanes[d].maxConcurrent
        BY <1>1, PreparedLane
      <4> QED
        BY <1>2, <2>1, <4>1 DEF Batch, Room
    <3> QED
      BY <1>2, <3>1, <3>2
  <2> QED
    BY <1>1, <2>2, <2>3
<1>4. ASSUME NEW r \in Request, u \in StartedBy(PushEntry(lanes[d], r))
      PROVE  u = r \/ (u \in Request /\ entry[u] = "queued")
  <2> DEFINE p == PushEntry(lanes[d], r)
             q == lanes[d].queue
  <2>1. p = [active |-> lanes[d].active, queue |-> Append(q, r), maxConcurrent |-> lanes[d].maxConcurrent]
    BY <1>1, PreparedLane
  <2>2. p \in LaneState(Request)
    BY <1>1, <2>1, <1>2, LaneFields DEF LaneState
  <2>3. p.queue = Append(q, r) /\ Batch(p) \in 0..Len(p.queue)
    BY <2>1, <2>2, BatchFits
  <2>4. PICK i \in 1..Batch(p) : u = p.queue[i]
    BY <1>4 DEF StartedBy
  <2>5. i \in 1..(Len(q) + 1) /\ u = Append(q, r)[i]
    BY <1>2, <2>3, <2>4
  <2> HIDE DEF p
  <2>6. u = r \/ (i \in 1..Len(q) /\ u = q[i])
    BY <1>2, <2>5
  <2> QED
    BY <1>1, <2>6
<1> QED
  BY <1>3, <1>4

\* Asking for the slot: queued, or leased it right away, or cancelled at once.
LEMMA AcquireEffect ==
  ASSUME IInv, Slots, NEW r \in Request, AcquireSlot(r)
  PROVE  /\ IInv'
         /\ \A u \in Request \ {r} : Passed(u)
         /\ released' = released /\ aborted' = aborted
         /\ \/ ~aborted[r] /\ entry'[r] = "queued" /\ outcome'[r] = "none"
            \/ ~aborted[r] /\ entry'[r] = "holding" /\ outcome'[r] = "leased"
            \/ aborted[r] /\ entry'[r] = "none" /\ outcome'[r] = "cancelled"
<1>1. /\ entry[r] = "none" /\ outcome[r] = "none" /\ released' = released /\ aborted' = aborted
      /\ Enter(r) \/ EnterAborted(r)
  BY DEF AcquireSlot
<1>2. IInv'
  BY <1>1, EnterPreserves, EnterAbortedPreserves
<1>3. entry \in [Request -> EntryState] /\ outcome \in [Request -> Outcome]
  BY DEF IInv, SlotTypeOK
<1>4. CASE EnterAborted(r)
  <2>1. aborted[r] /\ outcome' = [outcome EXCEPT ![r] = "cancelled"] /\ entry' = entry
    BY <1>4 DEF EnterAborted
  <2> QED
    BY <1>1, <1>2, <1>3, <2>1 DEF Passed, Goes
<1>5. CASE Enter(r)
  <2> DEFINE went == [entry EXCEPT ![r] = "queued"]
  <2>1. /\ ~aborted[r]
        /\ Drain(Target[r], PushEntry(lanes[Target[r]], r), pendingCounts[Target[r]] + 1, went)
    BY <1>5 DEF Enter
  <2>2. went \in [Request -> EntryState] /\ went[r] = "queued"
        /\ \A u \in Request \ {r} : went[u] = entry[u]
    BY <1>3 DEF EntryState
  <2> HIDE DEF went
  <2>3. \A u \in Request : went[u] = "queued" => outcome[u] # "leased"
    BY <1>1, <2>2, HoldersAreLeased
  <2>4. \A u \in StartedBy(PushEntry(lanes[Target[r]], r)) : u \in Request /\ went[u] = "queued"
    BY <2>2, StartedWereQueued, TargetAssumption
  <2>5. \A u \in Request : \/ entry'[u] = went[u] /\ outcome'[u] = outcome[u]
                           \/ went[u] = "queued" /\ Begun(u)
    BY <2>1, <2>2, <2>3, <2>4, DrainEffect
  <2>6. \A u \in Request \ {r} : Passed(u)
    BY <1>1, <2>2, <2>5 DEF Passed, Goes
  <2>7. \/ entry'[r] = "queued" /\ outcome'[r] = "none"
        \/ entry'[r] = "holding" /\ outcome'[r] = "leased"
    BY <1>1, <2>1, <2>2, <2>5 DEF Begun
  <2> QED
    BY <1>1, <1>2, <2>1, <2>6, <2>7
<1> QED
  BY <1>1, <1>4, <1>5

\* The body's second half, and the lane's continuation.
LEMMA SlotStepEffect ==
  ASSUME IInv, Slots, NEW r \in Request, BodyReturns(r) \/ LaneContinues(r)
  PROVE  IInv' /\ \A u \in Request : Passed(u)
<1>1. IInv'
  BY BodyReturnsPreserves, LaneContinuesPreserves
<1>2. entry \in [Request -> EntryState]
  BY DEF IInv, SlotTypeOK
<1>3. CASE BodyReturns(r)
  <2>1. /\ entry[r] = "holding" /\ released[r] /\ entry' = [entry EXCEPT ![r] = "finishing"]
        /\ outcome' = outcome /\ aborted' = aborted /\ released' = released
    BY <1>3 DEF BodyReturns
  <2> QED
    BY <1>1, <1>2, <2>1 DEF Passed, Goes
<1>4. CASE LaneContinues(r)
  <2> DEFINE went == [entry EXCEPT ![r] = "gone"]
  <2>1. /\ entry[r] = "finishing" /\ aborted' = aborted /\ released' = released
        /\ Drain(Target[r], FinishEntry(lanes[Target[r]]), pendingCounts[Target[r]], went)
    BY <1>4 DEF LaneContinues
  <2>2. went \in [Request -> EntryState] /\ went[r] = "gone"
        /\ \A u \in Request \ {r} : went[u] = entry[u]
    BY <1>2 DEF EntryState
  <2> HIDE DEF went
  <2>3. \A u \in Request : went[u] = "queued" => outcome[u] # "leased"
    BY <2>2, HoldersAreLeased
  <2>4. \A u \in StartedBy(FinishEntry(lanes[Target[r]])) : u \in Request /\ went[u] = "queued"
    BY <2>1, <2>2, StartedWereQueued, TargetAssumption
  <2>5. \A u \in Request : \/ entry'[u] = went[u] /\ outcome'[u] = outcome[u]
                           \/ went[u] = "queued" /\ Begun(u)
    BY <2>1, <2>2, <2>3, <2>4, DrainEffect
  <2>6. \A u \in Request : Passed(u)
    BY <2>1, <2>2, <2>5 DEF Passed, Goes
  <2> QED
    BY <1>1, <2>6
<1> QED
  BY <1>3, <1>4

\* Signals that fire (device-queue.ts:104-115).
LEMMA AbortEffect ==
  ASSUME IInv, NEW STATE S, S \subseteq Request, AbortAll(S)
  PROVE  IInv' /\ \A u \in Request : Passed(u)
<1>1. IInv'
  BY AbortPreserves
<1>2. /\ aborted' = [r \in Request |-> aborted[r] \/ r \in S]
      /\ outcome' = [r \in Request |->
             IF r \in { v \in S : entry[v] = "queued" /\ outcome[v] = "none" }
             THEN "cancelled" ELSE outcome[r]]
      /\ entry' = entry /\ released' = released
  BY DEF AbortAll
<1>3. ASSUME NEW u \in Request PROVE Passed(u)
  <2>1. aborted[u] \in BOOLEAN
    BY HoldersAreLeased
  <2>2. CASE u \in S
    BY <1>2, <2>1, <2>2 DEF Passed, Aborts
  <2>3. CASE u \notin S
    BY <1>2, <2>1, <2>3 DEF Passed, Goes
  <2> QED
    BY <2>2, <2>3
<1> QED
  BY <1>1, <1>3
-----------------------------------------------------------------------------
(* The steps of a chat.                                                    *)

ChatTypes ==
  /\ gen \in [Request -> GenState] /\ hit \in [Request -> BOOLEAN] /\ sameMs \in BOOLEAN
  /\ runAborted \in [Request -> BOOLEAN]

\* What is left to show of a step of request r.
LEMMA StepOf ==
  ASSUME ChatInv, IInv', ChatTypes', LanesGood(main', sessions', run'), NEW r \in Request,
         \A u \in Request \ {r} : Passed(u) /\ gen'[u] = gen[u], Leaves(run, run', r),
         SlotOf(r, entry', outcome', aborted', released'),
         PlaceOf(r, gen'[r], run'[r], entry', outcome', aborted', released')
  PROVE  ChatInv'
<1>1. ASSUME NEW u \in Request
      PROVE  /\ SlotOf(u, entry', outcome', aborted', released')
             /\ PlaceOf(u, gen'[u], run'[u], entry', outcome', aborted', released')
  BY RequestIsKept DEF Leaves
<1> QED
  BY <1>1 DEF ChatInv, ChatTypes, Slots, Places

\* A step that no generator takes.
LEMMA StepOfNobody ==
  ASSUME ChatInv, IInv', ChatTypes', LanesGood(main', sessions', run'),
         \A u \in Request : Passed(u) /\ gen'[u] = gen[u]
                            /\ (run[u] \in {"none", "settled"} => run'[u] = run[u])
  PROVE  ChatInv'
<1>1. ASSUME NEW u \in Request
      PROVE  /\ SlotOf(u, entry', outcome', aborted', released')
             /\ PlaceOf(u, gen'[u], run'[u], entry', outcome', aborted', released')
  BY RequestIsKept
<1> QED
  BY <1>1 DEF ChatInv, ChatTypes, Slots, Places

\* A step that leaves the slot, or the lanes, alone.
LEMMA SlotStays ==
  ASSUME IInv, UNCHANGED slotVars
  PROVE  IInv' /\ \A u \in Request : Passed(u)
<1>1. IInv'
  BY DEF slotVars, IInv, SlotTypeOK
<1> QED
  BY <1>1 DEF slotVars, Passed, Goes

LEMMA LanesStay ==
  ASSUME LanesGood(main, sessions, run), UNCHANGED <<main, sessions, run>>
  PROVE  LanesGood(main', sessions', run') /\ \A r : Leaves(run, run', r)
BY DEF Leaves

\* release() of a request that was leased the slot (device-queue.ts:133-138).
LEMMA ReleaseEffect ==
  ASSUME IInv, NEW r \in Request, Release(r)
  PROVE  /\ IInv' /\ \A u \in Request \ {r} : Passed(u)
         /\ outcome[r] = "leased" /\ released'[r]
         /\ entry' = entry /\ outcome' = outcome /\ aborted' = aborted
<1>1. /\ released' = [released EXCEPT ![r] = TRUE] /\ outcome[r] = "leased"
      /\ lanes' = lanes /\ activeRuns' = activeRuns /\ pendingCounts' = pendingCounts
      /\ entry' = entry /\ outcome' = outcome /\ consumed' = consumed /\ aborted' = aborted
  BY DEF Release
<1>2. released \in [Request -> BOOLEAN] /\ SlotTypeOK
  BY DEF IInv, SlotTypeOK
<1>3. released'[r] /\ \A u \in Request \ {r} : released'[u] = released[u]
  BY <1>1, <1>2
<1>4. SlotTypeOK'
  BY <1>1, <1>2 DEF SlotTypeOK
<1>5. IInv'
  BY <1>1, <1>4 DEF IInv
<1> QED
  BY <1>1, <1>3, <1>5 DEF Passed, Goes

\* What ChatInv says of one request.
LEMMA OfRequest ==
  ASSUME ChatInv, NEW r \in Request
  PROVE  /\ SlotOf(r, entry, outcome, aborted, released)
         /\ PlaceOf(r, gen[r], run[r], entry, outcome, aborted, released)
         /\ gen[r] \in GenState /\ run[r] \in RunState /\ outcome[r] \in Outcome
BY HoldersAreLeased DEF ChatInv, Slots, Places, LanesGood

LEMMA GoingTo ==
  ASSUME gen \in [Request -> GenState], NEW r \in Request, NEW g \in GenState, GoTo(r, g)
  PROVE  /\ gen' \in [Request -> GenState] /\ gen'[r] = g
         /\ \A u \in Request \ {r} : gen'[u] = gen[u]
BY DEF GoTo

\* The generator gives its slot back and ends.
LEMMA LeaveKeeps ==
  ASSUME ChatInv, NEW r \in Request, Leave(r), run[r] \in {"none", "settled"} \/ r \in Quitting
  PROVE  ChatInv'
<1>1. /\ Release(r) /\ GoTo(r, "ended") /\ hit' = hit /\ sameMs' = sameMs
      /\ main' = main /\ sessions' = sessions /\ run' = run /\ runAborted' = runAborted
  BY DEF Leave, runVars
<1>2. IInv /\ ChatTypes /\ LanesGood(main, sessions, run)
  BY DEF ChatInv, ChatTypes
<1>3. /\ IInv' /\ \A u \in Request \ {r} : Passed(u)
      /\ outcome[r] = "leased" /\ released'[r]
      /\ entry' = entry /\ outcome' = outcome /\ aborted' = aborted
  BY <1>1, <1>2, ReleaseEffect
<1>4. /\ gen' \in [Request -> GenState] /\ gen'[r] = "ended"
      /\ \A u \in Request \ {r} : gen'[u] = gen[u]
  BY <1>1, <1>2, GoingTo DEF ChatTypes, GenState
<1>5. ChatTypes'
  BY <1>1, <1>2, <1>4 DEF ChatTypes
<1>6. LanesGood(main', sessions', run') /\ Leaves(run, run', r)
  BY <1>1, <1>2, LanesStay
<1>7. SlotOf(r, entry', outcome', aborted', released')
  BY <1>3, OfRequest DEF SlotOf
<1>8. PlaceOf(r, gen'[r], run'[r], entry', outcome', aborted', released')
  BY <1>1, <1>3, <1>4 DEF PlaceOf
<1> QED
  BY <1>3, <1>4, <1>5, <1>6, <1>7, <1>8, StepOf

\* The generator goes on without touching slot and lanes.
LEMMA MoveKeeps ==
  ASSUME ChatInv, NEW r \in Request, NEW g \in GenState, GoTo(r, g),
         UNCHANGED <<slotVars, hit, sameMs, runVars>>,
         PlaceOf(r, g, run[r], entry, outcome, aborted, released)
  PROVE  ChatInv'
<1>1. /\ hit' = hit /\ sameMs' = sameMs /\ UNCHANGED slotVars
      /\ main' = main /\ sessions' = sessions /\ run' = run /\ runAborted' = runAborted
      /\ entry' = entry /\ outcome' = outcome /\ aborted' = aborted /\ released' = released
  BY DEF runVars, slotVars
<1>2. IInv /\ ChatTypes /\ LanesGood(main, sessions, run)
  BY DEF ChatInv, ChatTypes
<1>3. IInv' /\ \A u \in Request : Passed(u)
  BY <1>1, <1>2, SlotStays
<1>4. /\ gen' \in [Request -> GenState] /\ gen'[r] = g
      /\ \A u \in Request \ {r} : gen'[u] = gen[u]
  BY <1>2, GoingTo DEF ChatTypes
<1>5. ChatTypes'
  BY <1>1, <1>2, <1>4 DEF ChatTypes
<1>6. LanesGood(main', sessions', run') /\ Leaves(run, run', r)
  BY <1>1, <1>2, LanesStay
<1>7. SlotOf(r, entry', outcome', aborted', released')
  BY <1>1, OfRequest DEF SlotOf
<1>8. PlaceOf(r, gen'[r], run'[r], entry', outcome', aborted', released')
  BY <1>1, <1>4 DEF PlaceOf
<1> QED
  BY <1>3, <1>4, <1>5, <1>6, <1>7, <1>8, StepOf

\* The run goes on, whatever its generator does: it stays a run.
LEMMA RunKeeps ==
  ASSUME ChatInv, NEW r \in Request, NEW x \in RunState \ {"none"},
         UNCHANGED <<slotVars, gen, hit, sameMs, runAborted>>,
         LanesGood(main', sessions', run'), Leaves(run, run', r), run'[r] = x,
         run[r] \notin {"none", "settled"}
  PROVE  ChatInv'
<1>1. /\ hit' = hit /\ sameMs' = sameMs /\ UNCHANGED slotVars /\ runAborted' = runAborted /\ gen' = gen
      /\ entry' = entry /\ outcome' = outcome /\ aborted' = aborted /\ released' = released
  BY DEF slotVars
<1>2. IInv /\ ChatTypes
  BY DEF ChatInv, ChatTypes
<1>3. IInv' /\ \A u \in Request : Passed(u)
  BY <1>1, <1>2, SlotStays
<1>4. ChatTypes'
  BY <1>1, <1>2 DEF ChatTypes
<1>5. SlotOf(r, entry', outcome', aborted', released')
  BY <1>1, OfRequest DEF SlotOf
<1>6. PlaceOf(r, gen'[r], run'[r], entry', outcome', aborted', released')
  BY <1>1, OfRequest DEF PlaceOf
<1> QED
  BY <1>1, <1>3, <1>4, <1>5, <1>6, StepOf

\* The generator goes on from the setup towards its run.
LEMMA SetupKeeps ==
  ASSUME ChatInv, NEW r \in Request, gen[r] \in {"prepare", "sync"},
         NEW g \in {"sync", "running"}, GoTo(r, g),
         UNCHANGED <<slotVars, hit, sameMs, runAborted>>,
         LanesGood(main', sessions', run'), Leaves(run, run', r), g = "sync" => run'[r] = "none"
  PROVE  ChatInv'
<1>1. /\ hit' = hit /\ sameMs' = sameMs /\ UNCHANGED slotVars /\ runAborted' = runAborted
      /\ entry' = entry /\ outcome' = outcome /\ aborted' = aborted /\ released' = released
  BY DEF slotVars
<1>2. IInv /\ ChatTypes
  BY DEF ChatInv, ChatTypes
<1>3. IInv' /\ \A u \in Request : Passed(u)
  BY <1>1, <1>2, SlotStays
<1>4. /\ gen' \in [Request -> GenState] /\ gen'[r] = g
      /\ \A u \in Request \ {r} : gen'[u] = gen[u]
  BY <1>2, GoingTo DEF ChatTypes, GenState
<1>5. ChatTypes'
  BY <1>1, <1>2, <1>4 DEF ChatTypes
<1>6. SlotOf(r, entry', outcome', aborted', released')
  BY <1>1, OfRequest DEF SlotOf
<1>7. PlaceOf(r, gen'[r], run'[r], entry', outcome', aborted', released')
  BY <1>1, <1>4, OfRequest DEF PlaceOf
<1> QED
  BY <1>3, <1>4, <1>5, <1>6, <1>7, StepOf

\* acquireSlot and the first turn of the wait loop (app.ts:1137-1158).
LEMMA AskKeeps ==
  ASSUME ChatInv, NEW r \in Request, gen[r] \in {"new", "told"}, AskForSlot(r),
         UNCHANGED <<sameMs, runVars>>
  PROVE  ChatInv'
<1> DEFINE g == IF aborted[r] THEN "ended" ELSE "racing"
<1>1. /\ AcquireSlot(r) /\ hit' = [hit EXCEPT ![r] = sameMs] /\ GoTo(r, g) /\ sameMs' = sameMs
      /\ main' = main /\ sessions' = sessions /\ run' = run /\ runAborted' = runAborted
  BY DEF AskForSlot, runVars
<1>2. IInv /\ ChatTypes /\ LanesGood(main, sessions, run) /\ Slots
  BY DEF ChatInv, ChatTypes
<1>3. /\ IInv' /\ \A u \in Request \ {r} : Passed(u)
      /\ released' = released /\ aborted' = aborted
      /\ \/ ~aborted[r] /\ entry'[r] = "queued" /\ outcome'[r] = "none"
         \/ ~aborted[r] /\ entry'[r] = "holding" /\ outcome'[r] = "leased"
         \/ aborted[r] /\ entry'[r] = "none" /\ outcome'[r] = "cancelled"
  BY <1>1, <1>2, AcquireEffect
<1>4. /\ gen' \in [Request -> GenState] /\ gen'[r] = g
      /\ \A u \in Request \ {r} : gen'[u] = gen[u]
  <2>1. g \in GenState
    BY DEF GenState
  <2> HIDE DEF g
  <2> QED
    BY <1>1, <1>2, <2>1, GoingTo DEF ChatTypes
<1>5. ChatTypes'
  BY <1>1, <1>2, <1>4 DEF ChatTypes
<1>6. LanesGood(main', sessions', run') /\ Leaves(run, run', r)
  BY <1>1, <1>2, LanesStay
<1>7. SlotOf(r, entry', outcome', aborted', released')
  BY <1>3 DEF SlotOf
<1>8. PlaceOf(r, gen'[r], run'[r], entry', outcome', aborted', released')
  BY <1>1, <1>3, <1>4, OfRequest DEF PlaceOf
<1> QED
  BY <1>3, <1>4, <1>5, <1>6, <1>7, <1>8, StepOf

\* The steps before the slot.
LEMMA WaitKeeps ==
  ASSUME ChatInv, NEW r \in Request, StreamChat(r) \/ WaitStep(r) \/ QueuePulse(r)
  PROVE  ChatInv'
<1> DEFINE P(g) == PlaceOf(r, g, run[r], entry, outcome, aborted, released)
<1>1. /\ SlotOf(r, entry, outcome, aborted, released)
      /\ P(gen[r])
      /\ gen[r] \in GenState /\ run[r] \in RunState /\ outcome[r] \in Outcome
  BY OfRequest
<1>2. CASE StreamChat(r)
  <2>1. CASE AskForSlot(r)
    BY <1>2, <2>1, AskKeeps DEF StreamChat
  <2>2. CASE /\ GoTo(r, "ended") \/ GoTo(r, "told")
             /\ UNCHANGED <<slotVars, hit>>
    <3>1. P("ended") /\ P("told")
      BY <1>1, <1>2 DEF StreamChat, PlaceOf
    <3> QED
      BY <1>2, <2>2, <3>1, MoveKeeps DEF StreamChat, GenState
  <2> QED
    BY <1>2, <2>1, <2>2 DEF StreamChat
<1>3. CASE AfterQueueStatus(r)
  BY <1>3, AskKeeps DEF AfterQueueStatus
<1>4. CASE QueuePulse(r)
  <2>1. P("pulse")
    BY <1>1, <1>4 DEF QueuePulse, PlaceOf
  <2> QED
    BY <1>4, <2>1, MoveKeeps DEF QueuePulse, GenState
<1>5. CASE AfterPulse(r)
  <2>1. P("ended") /\ P("racing")
    BY <1>1, <1>5 DEF AfterPulse, PlaceOf
  <2>2. GoTo(r, "ended") \/ GoTo(r, "racing")
    BY <1>5 DEF AfterPulse
  <2> QED
    BY <1>5, <2>1, <2>2, MoveKeeps DEF AfterPulse, GenState
<1>6. CASE GotSlot(r)
  <2>1. run[r] = "none" /\ ~released[r]
    BY <1>1, <1>6 DEF GotSlot, PlaceOf
  <2>2. CASE aborted[r] /\ outcome[r] = "leased"
    <3>1. Leave(r)
      BY <1>6, <2>2 DEF GotSlot, Leave
    <3> QED
      BY <2>1, <3>1, LeaveKeeps
  <2>3. CASE aborted[r] /\ outcome[r] # "leased"
    <3>1. P("ended")
      BY <2>1 DEF PlaceOf
    <3> QED
      BY <1>6, <2>3, <3>1, MoveKeeps DEF GotSlot, GenState
  <2>4. CASE ~aborted[r]
    <3>1. outcome[r] = "leased"
      BY <1>1, <1>6, <2>4 DEF GotSlot, SlotOf, Outcome
    <3>2. P("farewell") /\ P("setup")
      BY <2>1, <3>1 DEF PlaceOf
    <3>3. /\ GoTo(r, "farewell") \/ GoTo(r, "setup")
          /\ UNCHANGED <<slotVars, hit, sameMs, runVars>>
      BY <1>6, <2>4 DEF GotSlot
    <3> QED
      BY <3>2, <3>3, MoveKeeps DEF GenState
  <2> QED
    BY <2>2, <2>3, <2>4
<1> QED
  BY <1>2, <1>3, <1>4, <1>5, <1>6 DEF WaitStep

\* The steps with the slot.
LEMMA SlotHolderKeeps ==
  ASSUME ChatInv, NEW r \in Request,
         SetupStep(r) \/ EndStep(r) \/ SetupFails(r) \/ ConsumerQuits(r)
  PROVE  ChatInv'
<1> DEFINE P(g) == PlaceOf(r, g, run[r], entry, outcome, aborted, released)
<1>1. P(gen[r]) /\ LanesGood(main, sessions, run)
  BY OfRequest DEF ChatInv
<1>2. gen[r] \in {"farewell", "setup", "prepare", "sync"} =>
        run[r] = "none" /\ ~released[r] /\ outcome[r] = "leased"
  BY <1>1 DEF PlaceOf
<1>3. CASE SetupDone(r)
  <2>1. P("prepare")
    BY <1>2, <1>3 DEF SetupDone, PlaceOf
  <2> QED
    BY <1>3, <2>1, MoveKeeps DEF SetupDone, GenState
<1>4. CASE SetupAborted(r)
  <2>1. P("farewell")
    BY <1>2, <1>4 DEF SetupAborted, PlaceOf
  <2> QED
    BY <1>4, <2>1, MoveKeeps DEF SetupAborted, GenState
<1>5. CASE SetupFails(r)
  BY <1>2, <1>5, LeaveKeeps DEF SetupFails
<1>6. CASE EndStep(r)
  BY <1>2, <1>6, LeaveKeeps DEF EndStep, Farewell, RunDone
<1>7. CASE ConsumerQuits(r)
  <2>1. CASE gen[r] = "running" /\ Leave(r)
    BY <1>7, <2>1, LeaveKeeps DEF ConsumerQuits
  <2>2. CASE gen[r] = "told" /\ GoTo(r, "ended") /\ UNCHANGED <<slotVars, hit, sameMs, runVars>>
    <3>1. P("ended")
      BY <1>1, <2>2 DEF PlaceOf
    <3> QED
      BY <2>2, <3>1, MoveKeeps DEF GenState
  <2> QED
    BY <1>7, <2>1, <2>2 DEF ConsumerQuits
<1>8. CASE BuildAgent(r)
  <2>1. run[r] = "none" /\ gen[r] = "prepare" /\ GoTo(r, "sync")
    BY <1>2, <1>8 DEF BuildAgent
  <2>2. LanesGood(main', sessions', run') /\ Leaves(run, run', r) /\ run'[r] = "none"
    BY <1>1, <1>8, <2>1, BuildAgentGood
  <2> QED
    BY <1>8, <2>1, <2>2, SetupKeeps DEF BuildAgent
<1>9. CASE SyncDone(r)
  <2>1. run[r] = "none" /\ gen[r] = "sync" /\ GoTo(r, "running")
    BY <1>2, <1>9 DEF SyncDone
  <2>2. LanesGood(main', sessions', run') /\ Leaves(run, run', r)
    BY <1>1, <1>9, <2>1, SyncDoneGood
  <2> QED
    BY <1>9, <2>1, <2>2, SetupKeeps DEF SyncDone
<1>10. CASE BuildAgentAndRun(r)
  <2>1. run[r] = "none" /\ gen[r] = "prepare" /\ GoTo(r, "running")
    BY <1>2, <1>10 DEF BuildAgentAndRun
  <2>2. LanesGood(main', sessions', run') /\ Leaves(run, run', r)
    BY <1>1, <1>10, <2>1, BuildAgentAndRunGood
  <2> QED
    BY <1>10, <2>1, <2>2, SetupKeeps DEF BuildAgentAndRun
<1> QED
  BY <1>3, <1>4, <1>5, <1>6, <1>7, <1>8, <1>9, <1>10 DEF SetupStep

\* The steps of the lanes.
LEMMA LaneStepKeeps ==
  ASSUME ChatInv, NEW r \in Request, SlotStep(r) \/ RunStep(r)
  PROVE  ChatInv'
<1>1. IInv /\ Slots /\ ChatTypes /\ LanesGood(main, sessions, run)
  BY DEF ChatInv, ChatTypes
<1>2. CASE SlotStep(r)
  <2>1. BodyReturns(r) \/ LaneContinues(r)
    BY <1>2 DEF SlotStep
  <2>2. /\ gen' = gen /\ hit' = hit /\ sameMs' = sameMs /\ runAborted' = runAborted
        /\ main' = main /\ sessions' = sessions /\ run' = run
    BY <1>2 DEF SlotStep, chatVars
  <2>3. IInv' /\ \A u \in Request : Passed(u)
    BY <1>1, <2>1, SlotStepEffect
  <2>4. ChatTypes' /\ LanesGood(main', sessions', run')
    BY <1>1, <2>2 DEF ChatTypes
  <2> QED
    BY <2>2, <2>3, <2>4, StepOfNobody
<1>3. CASE RunBodyEnds(r)
  <2>1. LanesGood(main', sessions', run') /\ Leaves(run, run', r) /\ run'[r] = "over"
    BY <1>1, <1>3, BodyEndsGood
  <2> QED
    BY <1>3, <2>1, RunKeeps DEF RunBodyEnds, RunState
<1>4. CASE SessionLaneContinues(r)
  <2>1. LanesGood(main', sessions', run') /\ Leaves(run, run', r) /\ run'[r] = "settled"
    BY <1>1, <1>4, ContinuesGood
  <2> QED
    BY <1>4, <2>1, RunKeeps DEF SessionLaneContinues, RunState
<1> QED
  BY <1>2, <1>3, <1>4 DEF RunStep

\* Cancelling: signals fire, generators and lanes stay where they are.
LEMMA CancelKeeps ==
  ASSUME ChatInv, CancelAllRuns \/ ClockTicks \/ \E r \in Request : ClientAborts(r) \/ CancelRun(r)
  PROVE  ChatInv'
<1>1. IInv /\ ChatTypes /\ LanesGood(main, sessions, run)
  BY DEF ChatInv, ChatTypes
<1>2. ASSUME IInv', \A u \in Request : Passed(u), ChatTypes', UNCHANGED <<gen, sessions, main, run>>
      PROVE  ChatInv'
  BY <1>1, <1>2, LanesStay, StepOfNobody
<1>3. ASSUME NEW S, AgentAbort(S) PROVE runAborted' \in [Request -> BOOLEAN]
  BY <1>3 DEF AgentAbort
<1>4. CASE CancelAllRuns
  <2>1. /\ AbortAll({ r \in Request : gen[r] # "new" }) /\ UNCHANGED <<gen, sessions, main, run>>
        /\ sameMs' = TRUE /\ AgentAbort({ r \in Request : Registered(r) })
        /\ hit' = [r \in Request |-> hit[r] \/ (outcome[r] # "none" \/ entry[r] # "none")]
    BY <1>4 DEF CancelAllRuns
  <2>2. IInv' /\ \A u \in Request : Passed(u)
    <3> DEFINE S == { r \in Request : gen[r] # "new" }
    <3>1. S \subseteq Request /\ AbortAll(S)
      BY <2>1
    <3> HIDE DEF S
    <3> QED
      BY <1>1, <3>1, AbortEffect
  <2>3. hit' \in [Request -> BOOLEAN]
    BY <2>1
  <2>4. ChatTypes'
    BY <1>1, <1>3, <2>1, <2>3 DEF ChatTypes
  <2> QED
    BY <1>2, <2>1, <2>2, <2>4
<1>5. CASE ClockTicks
  <2>1. /\ sameMs' = FALSE /\ UNCHANGED slotVars /\ gen' = gen /\ hit' = hit
        /\ main' = main /\ sessions' = sessions /\ run' = run /\ runAborted' = runAborted
    BY <1>5 DEF ClockTicks, runVars
  <2>2. ChatTypes'
    BY <1>1, <2>1 DEF ChatTypes
  <2> QED
    BY <1>1, <1>2, <2>1, <2>2, SlotStays
<1>6. ASSUME NEW r \in Request, ClientAborts(r) PROVE ChatInv'
  <2>1. /\ AbortAll({r}) /\ AgentAbort({r}) /\ UNCHANGED <<gen, hit, sameMs, sessions, main, run>>
    BY <1>6 DEF ClientAborts, Abort
  <2>2. IInv' /\ \A u \in Request : Passed(u)
    BY <1>1, <2>1, AbortEffect
  <2>3. ChatTypes'
    BY <1>1, <1>3, <2>1 DEF ChatTypes
  <2> QED
    BY <1>2, <2>1, <2>2, <2>3
<1>7. ASSUME NEW r \in Request, CancelRun(r) PROVE ChatInv'
  <2>1. /\ AgentAbort({r}) /\ UNCHANGED slotVars /\ UNCHANGED <<gen, hit, sameMs, sessions, main, run>>
    BY <1>7 DEF CancelRun
  <2>2. ChatTypes'
    BY <1>1, <1>3, <2>1 DEF ChatTypes
  <2> QED
    BY <1>1, <1>2, <2>1, <2>2, SlotStays
<1> QED
  BY <1>4, <1>5, <1>6, <1>7

LEMMA ChatStepKeeps == ChatInv /\ [Next]_vars => ChatInv'
<1> SUFFICES ASSUME ChatInv, [Next]_vars PROVE ChatInv'
  OBVIOUS
<1>1. ASSUME NEW r \in Request, SlotStep(r) \/ RunStep(r) PROVE ChatInv'
  BY <1>1, LaneStepKeeps
<1>2. ASSUME NEW r \in Request, StreamChat(r) \/ WaitStep(r) \/ QueuePulse(r) PROVE ChatInv'
  BY <1>2, WaitKeeps
<1>3. ASSUME NEW r \in Request, SetupStep(r) \/ EndStep(r) \/ SetupFails(r) \/ ConsumerQuits(r)
      PROVE  ChatInv'
  BY <1>3, SlotHolderKeeps
<1>4. CASE CancelAllRuns \/ ClockTicks \/ \E r \in Request : ClientAborts(r) \/ CancelRun(r)
  BY <1>4, CancelKeeps
<1>5. CASE UNCHANGED vars
  <2>1. UNCHANGED slotVars /\ UNCHANGED chatVars
    BY <1>5 DEF vars
  <2>2. IInv /\ ChatTypes /\ LanesGood(main, sessions, run)
    BY DEF ChatInv, ChatTypes
  <2>3. ChatTypes' /\ LanesGood(main', sessions', run') /\ gen' = gen /\ run' = run
    BY <2>1, <2>2 DEF chatVars, ChatTypes
  <2> QED
    BY <2>1, <2>2, <2>3, SlotStays, StepOfNobody
<1> QED
  BY <1>1, <1>2, <1>3, <1>4, <1>5 DEF Next, Environment

LEMMA ChatInitKeeps == Init => ChatInv
<1> SUFFICES ASSUME Init PROVE ChatInv
  OBVIOUS
<1>1. IInv
  BY InitEstablishes DEF Init
<1>2. ChatTypes
  BY DEF Init, ChatTypes, GenState
<1>3. /\ main = NewLane /\ run = [r \in Request |-> "none"]
      /\ sessions = [k \in Session |-> NewLane]
      /\ NewLane \in LaneState(Request) /\ NewLane.queue = << >>
      /\ NewLane.active = 0 /\ NewLane.maxConcurrent = 1
  BY DEF Init, NewLane, LaneState
<1>4. Lists(<< >>, {})
  BY DEF Lists
<1>5. MainGood(main, run)
  <2>1. /\ { r \in Request : run[r] = "global" } = {} /\ { r \in Request : run[r] = "active" } = {}
        /\ Cardinality({}) = 0
    BY <1>3, FS_EmptySet
  <2>2. Lists(main.queue, { r \in Request : run[r] = "global" })
    BY <1>3, <1>4, <2>1
  <2>3. main.active = Cardinality({ r \in Request : run[r] = "active" })
    BY <1>3, <2>1
  <2>4. main.active <= MaxRuns /\ main.maxConcurrent <= MaxRuns
    BY <1>3, MaxRunsAssumption
  <2> QED
    BY <1>3, <2>2, <2>3, <2>4 DEF MainGood
<1>6. ASSUME NEW k \in Session PROVE SessionGood(k, sessions[k], run)
  <2>1. { r \in Request : SessionOf[r] = k /\ run[r] = "session" } = {} /\ Within(k, run) = {}
    BY <1>3 DEF Within, Inside
  <2>2. Lists(sessions[k].queue, { r \in Request : SessionOf[r] = k /\ run[r] = "session" })
    BY <1>3, <1>4, <2>1
  <2>3. sessions[k] = NewLane
    BY <1>3
  <2> QED
    BY <1>3, <2>1, <2>2, <2>3 DEF SessionGood
<1>7. LanesGood(main, sessions, run)
  BY <1>3, <1>5, <1>6 DEF LanesGood, RunState
<1>8. Slots /\ Places
  BY DEF Init, SlotInit, Slots, SlotOf, Places, PlaceOf
<1> QED
  BY <1>1, <1>2, <1>7, <1>8 DEF ChatInv, ChatTypes

LEMMA ChatInvHolds == Spec => []ChatInv
BY ChatInitKeeps, ChatStepKeeps, PTL DEF Spec
-----------------------------------------------------------------------------
\* The slot, the lanes and the generators are always well formed.
THEOREM ChatTypeCorrect == Spec => []TypeOK
<1>1. ChatInv => TypeOK
  BY DEF ChatInv, IInv, LanesGood, MainGood, TypeOK
<1> QED
  BY <1>1, ChatInvHolds, PTL

\* Runs of one session are serial, whatever their devices, whoever cancels or
\* quits and however many the global lane lets run (command-queue.ts:7).
THEOREM SessionsAreSerial == Spec => []SessionRunsAreSerial
<1>1. ASSUME ChatInv PROVE SessionRunsAreSerial
  <2> SUFFICES ASSUME NEW r \in Request, NEW s \in Request, SessionOf[r] = SessionOf[s],
                      run[r] \in Inside, run[s] \in Inside
               PROVE  r = s
    BY DEF SessionRunsAreSerial, Inside
  <2>1. SessionGood(SessionOf[r], sessions[SessionOf[r]], run)
    BY <1>1, SessionAssumption DEF ChatInv, LanesGood
  <2>2. r \in Within(SessionOf[r], run) /\ s \in Within(SessionOf[r], run)
    BY DEF Within
  <2> QED
    BY <2>1, <2>2 DEF SessionGood
<1> QED
  BY <1>1, ChatInvHolds, PTL

\* The global lane counts and queues the runs that their sessions let through,
\* and never more than MaxRuns of them are active (agent.ts:494, 863-864).
THEOREM LanesAgree == Spec => []NestedLanesAgree
<1>1. ChatInv => NestedLanesAgree
  BY DEF ChatInv, LanesGood, MainGood, Lists, NestedLanesAgree
<1> QED
  BY <1>1, ChatInvHolds, PTL

\* A run has the device for as long as its consumer stays (app.ts:1229); the
\* leak needs a consumer that quits or a chat that ended before its run began.
THEOREM RunsHaveTheDevice == Spec => []StayingConsumerKeepsSlot
<1>1. ASSUME ChatInv PROVE StayingConsumerKeepsSlot
  <2> SUFFICES ASSUME NEW r \in Request, r \notin Quitting, Registered(r)
               PROVE  entry[r] = "holding" /\ ~released[r]
    BY DEF StayingConsumerKeepsSlot
  <2>1. /\ SlotOf(r, entry, outcome, aborted, released)
        /\ PlaceOf(r, gen[r], run[r], entry, outcome, aborted, released)
    BY <1>1, OfRequest
  <2>2. gen[r] = "running"
    BY <2>1 DEF PlaceOf, Registered
  <2> QED
    BY <2>1, <2>2 DEF PlaceOf, SlotOf
<1> QED
  BY <1>1, ChatInvHolds, PTL

\* The runs of chats whose consumers stay exclude each other on a device,
\* which is what device-queue.ts:7 promises of all of them.
StayingRunsAreSerial ==
  \A r, s \in Request \ Quitting :
    Registered(r) /\ Registered(s) /\ Target[r] = Target[s] => r = s

THEOREM StayingRunsExclude == Spec => []StayingRunsAreSerial
<1>1. ASSUME ChatInv, StayingConsumerKeepsSlot PROVE StayingRunsAreSerial
  <2> SUFFICES ASSUME NEW r \in Request \ Quitting, NEW s \in Request \ Quitting,
                      Registered(r), Registered(s), Target[r] = Target[s]
               PROVE  r = s
    BY DEF StayingRunsAreSerial
  <2>1. entry[r] = "holding" /\ entry[s] = "holding"
    BY <1>1 DEF StayingConsumerKeepsSlot
  <2>2. LaneGood(Target[r], lanes[Target[r]], entry)
    BY <1>1, TargetAssumption DEF ChatInv, IInv, Good
  <2>3. r \in Occupied(Target[r], entry) /\ s \in Occupied(Target[r], entry)
    BY <2>1 DEF Occupied
  <2> QED
    BY <2>2, <2>3 DEF LaneGood
<1> QED
  BY <1>1, ChatInvHolds, RunsHaveTheDevice, PTL

\* Cancelled while it waited for the device, a request leaves the wait loop
\* only to its end: neither setup nor run begins (app.ts:318).
THEOREM CancelledStaysOut == Spec => CancelledInQueueNeverRuns
<1> DEFINE A == \A r \in Request :
                  aborted[r] /\ gen[r] \in {"told", "racing", "pulse"}
                    => gen'[r] \in {gen[r], "racing", "ended"}
<1>1. ASSUME ChatInv, [Next]_vars PROVE A
  <2> SUFFICES ASSUME NEW r \in Request, aborted[r], gen[r] \in {"told", "racing", "pulse"}
               PROVE  gen'[r] \in {gen[r], "racing", "ended"}
    OBVIOUS
  <2>1. /\ PlaceOf(r, gen[r], run[r], entry, outcome, aborted, released)
        /\ gen \in [Request -> GenState]
    BY <1>1, OfRequest DEF ChatInv
  <2>2. gen[r] = "racing" => outcome[r] # "none"
    BY <2>1 DEF PlaceOf
  <2>3. ASSUME NEW u \in Request, StreamChat(u) \/ WaitStep(u) \/ QueuePulse(u)
        PROVE  gen'[r] \in {gen[r], "racing", "ended"}
    <3>1. CASE u # r
      <4>1. \E g : GoTo(u, g)
        BY <2>3 DEF StreamChat, WaitStep, QueuePulse, AskForSlot, AfterQueueStatus, AfterPulse, GotSlot
      <4> QED
        BY <2>1, <3>1, <4>1 DEF GoTo
    <3>2. CASE u = r
      BY <2>1, <2>2, <2>3, <3>2 DEF StreamChat, WaitStep, QueuePulse, AskForSlot,
         AfterQueueStatus, AfterPulse, GotSlot, GoTo
    <3> QED
      BY <3>1, <3>2
  <2>4. ASSUME NEW u \in Request, SetupStep(u) \/ EndStep(u) \/ SetupFails(u) \/ ConsumerQuits(u)
        PROVE  gen'[r] \in {gen[r], "racing", "ended"}
    <3>1. CASE u # r
      <4>1. \E g : GoTo(u, g)
        BY <2>4 DEF SetupStep, EndStep, SetupFails, ConsumerQuits, SetupDone, SetupAborted,
           BuildAgent, SyncDone, BuildAgentAndRun, Farewell, RunDone, Leave
      <4> QED
        BY <2>1, <3>1, <4>1 DEF GoTo
    <3>2. CASE u = r
      <4>1. ConsumerQuits(r) /\ GoTo(r, "ended")
        BY <2>4, <3>2 DEF SetupStep, EndStep, SetupFails, ConsumerQuits, SetupDone, SetupAborted,
           BuildAgent, SyncDone, BuildAgentAndRun, Farewell, RunDone
      <4> QED
        BY <2>1, <4>1 DEF GoTo
    <3> QED
      BY <3>1, <3>2
  <2>5. ASSUME \/ \E u \in Request : SlotStep(u) \/ RunStep(u) \/ ClientAborts(u) \/ CancelRun(u)
               \/ CancelAllRuns \/ ClockTicks \/ UNCHANGED vars
        PROVE  gen' = gen
    BY <2>5 DEF SlotStep, chatVars, RunStep, RunBodyEnds, SessionLaneContinues, ClientAborts, CancelRun,
       CancelAllRuns, ClockTicks, vars
  <2> QED
    BY <1>1, <2>3, <2>4, <2>5 DEF Next, Environment
<1>2. Spec => [][A]_vars
  BY <1>1, ChatInvHolds, PTL DEF Spec
<1> QED
  BY <1>2 DEF CancelledInQueueNeverRuns

\* However chats, cancels, quitting consumers and the two lanes of the runs use it,
\* the device queue keeps the promise of DeviceSlot (device-queue.ts:7-9): the
\* slot goes round in the order in which chats have asked for it.
THEOREM ChatsShareTheSlot == Spec => ImplementsDeviceSlot
<1> DEFINE Inv == ChatInv /\ LanesServe /\ AbortsAnswer
<1>1. Init => Slot!SlotInit /\ Inv
  BY ChatInitKeeps, SlotInitMaps DEF Init, SInv
<1>2. Inv /\ [Next]_vars => Inv' /\ [Slot!SlotNext]_(Slot!slotVars)
  <2> SUFFICES ASSUME Inv, [Next]_vars
               PROVE  Inv' /\ [Slot!SlotNext]_(Slot!slotVars)
    OBVIOUS
  <2>1. ASSUME NEW r \in Request, SlotStep(r) \/ RunStep(r) \/ WaitStep(r) \/ SetupStep(r)
        PROVE  QueueStep
    BY <2>1 DEF QueueStep, SlotStep, RunStep, RunBodyEnds, SessionLaneContinues,
       WaitStep, AfterQueueStatus, AskForSlot, AfterPulse, GotSlot,
       SetupStep, SetupDone, SetupAborted, BuildAgent, SyncDone, BuildAgentAndRun
  <2>2. ASSUME NEW r \in Request, EndStep(r) \/ Environment(r)
        PROVE  QueueStep
    <3>1. CASE Abort(r)
      BY <3>1 DEF Abort, QueueStep
    <3>2. CASE ~Abort(r)
      BY <2>2, <3>2 DEF QueueStep, EndStep, Farewell, RunDone, Leave, Environment, StreamChat,
         AskForSlot, QueuePulse, SetupFails, ConsumerQuits, ClientAborts, CancelRun
    <3> QED
      BY <3>1, <3>2
  <2>3. ASSUME CancelAllRuns PROVE QueueStep
    <3>1. /\ AbortAll({ r \in Request : gen[r] # "new" })
          /\ { r \in Request : gen[r] # "new" } \in SUBSET Request
      BY <2>3 DEF CancelAllRuns
    <3> QED
      BY <3>1 DEF QueueStep
  <2>4. ASSUME ClockTicks \/ UNCHANGED vars PROVE QueueStep
    BY <2>4 DEF ClockTicks, vars, QueueStep
  <2>5. QueueStep
    BY <2>1, <2>2, <2>3, <2>4 DEF Next
  <2>6. SInv
    BY DEF SInv, ChatInv
  <2>7. ChatInv'
    BY ChatStepKeeps
  <2> QED
    BY <2>5, <2>6, <2>7, StepMaps
<1> QED
  BY <1>1, <1>2, PTL DEF Spec, ImplementsDeviceSlot, Slot!SlotSpec
=============================================================================
