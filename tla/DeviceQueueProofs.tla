-------------------------- MODULE DeviceQueueProofs --------------------------
(***************************************************************************)
(* Theorems of DeviceQueue, for every set of devices, every finite set of  *)
(* requests and every assignment of requests to devices.                   *)
(*                                                                         *)
(* Good(d, ...) says what one device's lane, counter and status have to do *)
(* with the progress of its requests.  acquireSlot and the continuation of *)
(* a lane prepare a lane, a count and a progress function and then drain;  *)
(* DrainPreserves shows that draining keeps Good, whoever is started.      *)
(***************************************************************************)
EXTENDS DeviceQueue, LanesProofs, FiniteSetTheorems

Occupied(d, ent)  == { r \in Request : Target[r] = d /\ ent[r] \in {"holding", "finishing"} }
Pending(d, ent, out) ==
  { r \in Request : Target[r] = d /\ ent[r] = "queued" /\ out[r] = "none" }

\* The queue of the lane holds the queued requests of the device, each once.
QueueGood(d, s, ent) ==
  /\ \A i, j \in 1..Len(s.queue) : s.queue[i] = s.queue[j] => i = j
  /\ { s.queue[i] : i \in 1..Len(s.queue) } = { r \in Request : Target[r] = d /\ ent[r] = "queued" }

\* The lane runs with limit 1 and is busy exactly while a body is.
LaneGood(d, s, ent) ==
  /\ s \in LaneState(Request) /\ s.maxConcurrent = 1 /\ s.active \in {0, 1}
  /\ \A r, t \in Occupied(d, ent) : r = t
  /\ s.active = 1 <=> Occupied(d, ent) # {}

\* The status names the holder, who has been leased the slot; nobody else has.
StatusGood(d, act, ent, out) ==
  /\ \A r \in Request : Target[r] = d /\ ent[r] = "holding" => out[r] = "leased" /\ act = r
  /\ act # None => act \in Request /\ Target[act] = d /\ ent[act] = "holding"
  /\ \A r \in Request : Target[r] = d /\ ent[r] \in {"none", "queued"} => out[r] # "leased"

\* The pending count is that of the queued requests nobody has answered, and
\* pendingConsumed tells who has been counted out.
CountGood(d, pend, ent, out, con) ==
  /\ pend = Cardinality(Pending(d, ent, out))
  /\ \A r \in Request : Target[r] = d /\ ent[r] = "none" => ~con[r]
  /\ \A r \in Request : Target[r] = d /\ ent[r] = "queued" => (con[r] <=> out[r] # "none")

Good(d, s, pend, act, ent, out, con) ==
  /\ QueueGood(d, s, ent)
  /\ LaneGood(d, s, ent)
  /\ StatusGood(d, act, ent, out)
  /\ CountGood(d, pend, ent, out, con)

IInv ==
  /\ SlotTypeOK
  /\ \A d \in Device : Good(d, lanes[d], pendingCounts[d], activeRuns[d], entry, outcome, consumed)
-----------------------------------------------------------------------------
\* Any set of requests is finite, so its cardinality is a number.
LEMMA RequestsAreFinite ==
  ASSUME NEW S, S \subseteq Request
  PROVE  IsFiniteSet(S) /\ Cardinality(S) \in Nat
BY RequestAssumption, FS_Subset, FS_CardinalityType

\* Good only looks at the requests of the device itself.
LEMMA GoodFrame ==
  ASSUME NEW d, NEW s, NEW pend, NEW act, NEW ent, NEW out, NEW con, NEW ent2, NEW out2, NEW con2,
         Good(d, s, pend, act, ent, out, con),
         \A r \in Request : Target[r] = d => ent2[r] = ent[r] /\ out2[r] = out[r] /\ con2[r] = con[r]
  PROVE  Good(d, s, pend, act, ent2, out2, con2)
<1>1. /\ Occupied(d, ent2) = Occupied(d, ent) /\ Pending(d, ent2, out2) = Pending(d, ent, out)
      /\ { r \in Request : Target[r] = d /\ ent2[r] = "queued" }
           = { r \in Request : Target[r] = d /\ ent[r] = "queued" }
  BY DEF Occupied, Pending
<1>2. QueueGood(d, s, ent2)
  BY <1>1 DEF Good, QueueGood
<1>3. LaneGood(d, s, ent2)
  BY <1>1 DEF Good, LaneGood
<1>4. StatusGood(d, act, ent2, out2)
  BY DEF Good, StatusGood
<1>5. CountGood(d, pend, ent2, out2, con2)
  BY <1>1 DEF Good, CountGood
<1> QED
  BY <1>2, <1>3, <1>4, <1>5 DEF Good

\* A start: the first of the queue is taken out and occupies the lane.
Moves(ent, ent2, u) ==
  /\ ent2[u] \in {"holding", "finishing"}
  /\ \A r \in Request \ {u} : ent2[r] = ent[r]
After(s) == [active |-> 1, queue |-> SubSeq(s.queue, 2, Len(s.queue)), maxConcurrent |-> 1]

LEMMA StartQueue ==
  ASSUME NEW d, NEW s \in LaneState(Request), NEW ent \in [Request -> EntryState],
         QueueGood(d, s, ent), s.queue # << >>,
         NEW ent2, Moves(ent, ent2, s.queue[1])
  PROVE  /\ s.queue[1] \in Request /\ Target[s.queue[1]] = d /\ ent[s.queue[1]] = "queued"
         /\ QueueGood(d, After(s), ent2)
         /\ After(s) \in LaneState(Request)
<1> USE DEF Moves
<1> DEFINE u == s.queue[1]
           rest == SubSeq(s.queue, 2, Len(s.queue))
<1>1. s.queue \in Seq(Request) /\ Len(s.queue) \in Nat
  BY LaneFields
<1>2. Len(s.queue) >= 1
  BY <1>1
<1>3. /\ rest \in Seq(Request) /\ Len(rest) = Len(s.queue) - 1
      /\ \A i \in 1..Len(rest) : rest[i] = s.queue[i + 1]
  BY <1>1, <1>2
<1>4. \A i, j \in 1..Len(s.queue) : s.queue[i] = s.queue[j] => i = j
  BY DEF QueueGood
<1>5. \A r \in Request : Target[r] = d /\ ent[r] = "queued"
                           <=> \E i \in 1..Len(s.queue) : s.queue[i] = r
  BY <1>1 DEF QueueGood
<1>6. u \in Request /\ Target[u] = d /\ ent[u] = "queued"
  BY <1>1, <1>2, <1>5
<1>7. ASSUME NEW i \in 1..Len(rest), NEW j \in 1..Len(rest), rest[i] = rest[j]
      PROVE  i = j
  <2>1. i + 1 \in 1..Len(s.queue) /\ j + 1 \in 1..Len(s.queue)
    BY <1>1, <1>2, <1>3
  <2>2. i + 1 = j + 1
    BY <1>3, <1>4, <1>7, <2>1
  <2> QED
    BY <1>1, <1>3, <2>2
<1>8. ASSUME NEW i \in 1..Len(rest)
      PROVE  rest[i] \in Request /\ Target[rest[i]] = d /\ ent2[rest[i]] = "queued"
  <2>1. i + 1 \in 1..Len(s.queue) /\ i + 1 # 1 /\ rest[i] = s.queue[i + 1]
    BY <1>1, <1>2, <1>3
  <2>2. rest[i] \in Request /\ Target[rest[i]] = d /\ ent[rest[i]] = "queued"
    BY <1>1, <1>5, <2>1
  <2>3. rest[i] # u
    BY <1>2, <1>1, <1>4, <2>1
  <2> QED
    BY <2>2, <2>3
<1>9. ASSUME NEW r \in Request, Target[r] = d, ent2[r] = "queued"
      PROVE  \E i \in 1..Len(rest) : rest[i] = r
  <2>1. r # u /\ ent[r] = "queued"
    BY <1>6, <1>9
  <2>2. PICK k \in 1..Len(s.queue) : s.queue[k] = r
    BY <1>5, <1>9, <2>1
  <2>3. k - 1 \in 1..Len(rest) /\ (k - 1) + 1 = k
    BY <1>1, <1>3, <2>1, <2>2
  <2> QED
    BY <1>3, <2>2, <2>3
<1> HIDE DEF rest, u
<1>10. { rest[i] : i \in 1..Len(rest) } = { r \in Request : Target[r] = d /\ ent2[r] = "queued" }
  BY <1>8, <1>9
<1>11. After(s) \in LaneState(Request) /\ After(s).queue = rest
  BY <1>3 DEF After, LaneState, rest
<1>12. QueueGood(d, After(s), ent2)
  BY <1>7, <1>10, <1>11 DEF QueueGood
<1> QED
  BY <1>6, <1>11, <1>12 DEF u

\* What the body does to the rest: leased or given up, the starter is counted
\* out at most once, and the status names it exactly if it got the slot.
LEMMA StartGood ==
  ASSUME SlotTypeOK, NEW STATE d, d \in Device, NEW STATE s, NEW STATE pend, NEW STATE went,
         went \in [Request -> EntryState],
         Good(d, s, pend, activeRuns[d], went, outcome, consumed),
         s.active = 0, s.queue # << >>,
         StartBody(s.queue[1], d, pend, went)
  PROVE  /\ Good(d, After(s), pendingCounts'[d], activeRuns'[d], entry', outcome', consumed')
         /\ \A r \in Request : Target[r] # d => /\ entry'[r] = went[r]
                                                /\ outcome'[r] = outcome[r]
                                                /\ consumed'[r] = consumed[r]
         /\ \A e \in Device \ {d} : /\ pendingCounts'[e] = pendingCounts[e]
                                    /\ activeRuns'[e] = activeRuns[e]
         /\ pendingCounts' \in [Device -> Nat] /\ activeRuns' \in [Device -> Request \union {None}]
         /\ entry' \in [Request -> EntryState] /\ outcome' \in [Request -> Outcome]
         /\ consumed' \in [Request -> BOOLEAN]
<1> DEFINE u == s.queue[1]
           phase == IF GivesUp(u) THEN "finishing" ELSE "holding"
<1>1. s \in LaneState(Request) /\ QueueGood(d, s, went) /\ LaneGood(d, s, went)
      /\ StatusGood(d, activeRuns[d], went, outcome)
      /\ CountGood(d, pend, went, outcome, consumed)
  BY DEF Good, LaneGood
<1>2. entry' = [went EXCEPT ![u] = phase] /\ phase \in {"holding", "finishing"}
  BY DEF StartBody
<1>3. /\ u \in Request /\ Target[u] = d /\ went[u] = "queued"
      /\ QueueGood(d, After(s), entry') /\ After(s) \in LaneState(Request)
  <2>1. s.queue[1] \in Request
    BY <1>1, LaneFields
  <2>2. Moves(went, entry', s.queue[1])
    BY <1>2, <2>1 DEF Moves
  <2> QED
    BY <1>1, <2>2, StartQueue
<1>4. Occupied(d, went) = {}
  BY <1>1 DEF LaneGood
<1>5. /\ activeRuns[d] = None
      /\ outcome[u] # "leased" /\ (consumed[u] <=> outcome[u] # "none")
  BY <1>1, <1>3, <1>4 DEF StatusGood, CountGood, Occupied
<1>6. /\ entry'[u] = phase /\ \A r \in Request \ {u} : entry'[r] = went[r]
      /\ entry' \in [Request -> EntryState]
  BY <1>2, <1>3 DEF EntryState
<1>7. /\ consumed'[u] /\ \A r \in Request \ {u} : consumed'[r] = consumed[r]
      /\ consumed' \in [Request -> BOOLEAN]
  BY <1>3 DEF StartBody, SlotTypeOK
<1>8. /\ \A r \in Request \ {u} : outcome'[r] = outcome[r]
      /\ phase = "holding" => outcome'[u] = "leased"
      /\ phase = "finishing" => outcome'[u] # "none"
      /\ outcome' \in [Request -> Outcome]
  BY <1>3 DEF StartBody, SlotTypeOK, GivesUp, Outcome
<1>9. /\ activeRuns'[d] = IF phase = "holding" THEN u ELSE None
      /\ \A e \in Device \ {d} : activeRuns'[e] = activeRuns[e]
      /\ activeRuns' \in [Device -> Request \union {None}]
  BY <1>3, <1>5 DEF StartBody, SlotTypeOK
<1>10. Occupied(d, entry') = {u}
  BY <1>2, <1>3, <1>4, <1>6 DEF Occupied
<1>11. Pending(d, entry', outcome') = Pending(d, went, outcome) \ {u}
  BY <1>2, <1>3, <1>6, <1>8 DEF Pending
<1>12. pendingCounts'[d] = IF consumed[u] THEN pend ELSE Less(pend, 1)
  BY DEF StartBody, SlotTypeOK
<1>13. pendingCounts'[d] = Cardinality(Pending(d, entry', outcome'))
  <2>1. IsFiniteSet(Pending(d, went, outcome)) /\ pend = Cardinality(Pending(d, went, outcome))
        /\ pend \in Nat
    BY <1>1, RequestsAreFinite DEF Pending, CountGood
  <2>2. CASE consumed[u]
    <3>1. u \notin Pending(d, went, outcome)
      BY <1>5, <2>2 DEF Pending
    <3>2. Pending(d, went, outcome) \ {u} = Pending(d, went, outcome)
      BY <3>1
    <3> QED
      BY <1>11, <1>12, <2>1, <2>2, <3>2
  <2>3. CASE ~consumed[u]
    <3>1. u \in Pending(d, went, outcome)
      BY <1>3, <1>5, <2>3 DEF Pending
    <3> DEFINE P == Pending(d, went, outcome)
    <3>5. Cardinality(P \ {u}) = Cardinality(P) - 1
      <4> HIDE DEF P, u
      <4> QED
        BY <2>1, <3>1, FS_RemoveElement DEF P
    <3>2. Cardinality(Pending(d, entry', outcome')) = pend - 1
      BY <1>11, <2>1, <3>5
    <3>3. Cardinality(Pending(d, entry', outcome')) \in Nat
      BY RequestsAreFinite DEF Pending
    <3>4. Less(pend, 1) = pend - 1
      BY <2>1, <3>2, <3>3 DEF Less
    <3> QED
      BY <1>12, <2>3, <3>2, <3>4
  <2> QED
    BY <2>2, <2>3
<1>14. pendingCounts' \in [Device -> Nat] /\ \A e \in Device \ {d} : pendingCounts'[e] = pendingCounts[e]
  <2>1. pendingCounts'[d] \in Nat
    BY <1>13, RequestsAreFinite DEF Pending
  <2> QED
    BY <2>1 DEF StartBody, SlotTypeOK
<1>16. LaneGood(d, After(s), entry')
  BY <1>3, <1>10 DEF LaneGood, After
<1>17. StatusGood(d, activeRuns'[d], entry', outcome')
  BY <1>1, <1>2, <1>3, <1>4, <1>6, <1>8, <1>9, RequestAssumption DEF StatusGood, Occupied
<1>18. CountGood(d, pendingCounts'[d], entry', outcome', consumed')
  BY <1>1, <1>2, <1>3, <1>6, <1>7, <1>8, <1>13 DEF CountGood
<1>19. Good(d, After(s), pendingCounts'[d], activeRuns'[d], entry', outcome', consumed')
  BY <1>3, <1>16, <1>17, <1>18 DEF Good
<1> HIDE DEF u
<1> QED
  BY <1>3, <1>6, <1>7, <1>8, <1>9, <1>14, <1>19

\* Draining a prepared device keeps the invariant.
LEMMA DrainPreserves ==
  ASSUME IInv, NEW STATE d, d \in Device, NEW STATE s, NEW STATE pend, NEW STATE went,
         pend \in Nat, went \in [Request -> EntryState],
         Good(d, s, pend, activeRuns[d], went, outcome, consumed),
         \A r \in Request : Target[r] # d => went[r] = entry[r],
         Drain(d, s, pend, went), UNCHANGED <<aborted, released>>
  PROVE  IInv'
<1>1. s \in LaneState(Request) /\ s.maxConcurrent = 1 /\ s.active \in {0, 1} /\ SlotTypeOK
  BY DEF Good, LaneGood, IInv
<1>2. lanes' = [lanes EXCEPT ![d] = DrainLane(s)]
  BY DEF Drain
<1>3. CASE StartedBy(s) = {} /\ DrainLane(s) = s
  <2>1. /\ pendingCounts' = [pendingCounts EXCEPT ![d] = pend] /\ entry' = went
        /\ outcome' = outcome /\ consumed' = consumed /\ activeRuns' = activeRuns
    BY <1>3 DEF Drain
  <2>2. SlotTypeOK'
    BY <1>1, <1>2, <1>3, <2>1 DEF SlotTypeOK
  <2>3. ASSUME NEW e \in Device
        PROVE  Good(e, lanes'[e], pendingCounts'[e], activeRuns'[e], entry', outcome', consumed')
    <3>1. CASE e = d
      BY <1>1, <1>2, <1>3, <2>1, <3>1 DEF SlotTypeOK
    <3>2. CASE e # d
      <4>1. lanes'[e] = lanes[e] /\ pendingCounts'[e] = pendingCounts[e]
        BY <1>1, <1>2, <2>1, <3>2 DEF SlotTypeOK
      <4>2. Good(e, lanes[e], pendingCounts[e], activeRuns[e], entry, outcome, consumed)
        BY DEF IInv
      <4>3. Good(e, lanes[e], pendingCounts[e], activeRuns[e], entry', outcome', consumed')
        BY <2>1, <3>2, <4>2, GoodFrame
      <4> QED
        BY <2>1, <4>1, <4>3
    <3> QED
      BY <3>1, <3>2
  <2> QED
    BY <2>2, <2>3 DEF IInv
<1>4. CASE s.active = 0 /\ s.queue # << >> /\ StartedBy(s) = {s.queue[1]} /\ DrainLane(s) = After(s)
  <2>1. StartBody(s.queue[1], d, pend, went)
    BY <1>4 DEF Drain
  <2>2. /\ Good(d, After(s), pendingCounts'[d], activeRuns'[d], entry', outcome', consumed')
        /\ \A r \in Request : Target[r] # d => /\ entry'[r] = went[r]
                                               /\ outcome'[r] = outcome[r]
                                               /\ consumed'[r] = consumed[r]
        /\ \A e \in Device \ {d} : /\ pendingCounts'[e] = pendingCounts[e]
                                   /\ activeRuns'[e] = activeRuns[e]
        /\ pendingCounts' \in [Device -> Nat] /\ activeRuns' \in [Device -> Request \union {None}]
        /\ entry' \in [Request -> EntryState] /\ outcome' \in [Request -> Outcome]
        /\ consumed' \in [Request -> BOOLEAN]
    BY <1>1, <1>4, <2>1, StartGood
  <2>3. After(s) \in LaneState(Request)
    BY <2>2 DEF Good, LaneGood
  <2>4. SlotTypeOK'
    BY <1>1, <1>2, <1>4, <2>2, <2>3 DEF SlotTypeOK
  <2>5. ASSUME NEW e \in Device
        PROVE  Good(e, lanes'[e], pendingCounts'[e], activeRuns'[e], entry', outcome', consumed')
    <3>1. CASE e = d
      BY <1>1, <1>2, <1>4, <2>2, <3>1 DEF SlotTypeOK
    <3>2. CASE e # d
      <4>1. /\ lanes'[e] = lanes[e] /\ pendingCounts'[e] = pendingCounts[e]
            /\ activeRuns'[e] = activeRuns[e]
        BY <1>1, <1>2, <2>2, <3>2 DEF SlotTypeOK
      <4>2. Good(e, lanes[e], pendingCounts[e], activeRuns[e], entry, outcome, consumed)
        BY DEF IInv
      <4>3. Good(e, lanes[e], pendingCounts[e], activeRuns[e], entry', outcome', consumed')
        BY <2>2, <3>2, <4>2, GoodFrame
      <4> QED
        BY <4>1, <4>3
    <3> QED
      BY <3>1, <3>2
  <2> QED
    BY <2>4, <2>5 DEF IInv
<1> QED
  BY <1>1, <1>3, <1>4, DrainSingleLane DEF After
-----------------------------------------------------------------------------
\* The invariant holds before any request.
LEMMA InitEstablishes == SlotInit => IInv
<1> SUFFICES ASSUME SlotInit PROVE IInv
  OBVIOUS
<1>1. /\ NewLane \in LaneState(Request) /\ NewLane.queue = << >> /\ NewLane.active = 0
      /\ NewLane.maxConcurrent = 1
  BY DEF NewLane, LaneState
<1>2. SlotTypeOK
  BY <1>1 DEF SlotInit, SlotTypeOK, EntryState, Outcome
<1>3. ASSUME NEW d \in Device
      PROVE  Good(d, lanes[d], pendingCounts[d], activeRuns[d], entry, outcome, consumed)
  <2>1. lanes[d] = NewLane /\ pendingCounts[d] = 0 /\ activeRuns[d] = None
    BY DEF SlotInit
  <2>2. Occupied(d, entry) = {} /\ Pending(d, entry, outcome) = {} /\ Cardinality({}) = 0
    BY FS_EmptySet DEF SlotInit, Occupied, Pending
  <2>3. QueueGood(d, NewLane, entry)
    BY <1>1 DEF SlotInit, QueueGood
  <2>4. LaneGood(d, NewLane, entry)
    BY <1>1, <2>2 DEF LaneGood
  <2>5. StatusGood(d, None, entry, outcome)
    BY DEF SlotInit, StatusGood
  <2>6. CountGood(d, 0, entry, outcome, consumed)
    BY <2>2 DEF SlotInit, CountGood
  <2> QED
    BY <2>1, <2>3, <2>4, <2>5, <2>6 DEF Good
<1> QED
  BY <1>2, <1>3 DEF IInv

\* acquireSlot pushes its entry and counts itself in before it drains (l.88, 117).
LEMMA EnterPreserves ==
  ASSUME IInv, NEW r \in Request, entry[r] = "none", outcome[r] = "none",
         Enter(r), UNCHANGED <<aborted, released>>
  PROVE  IInv'
<1> DEFINE d == Target[r]
           s == PushEntry(lanes[d], r)
           pend == pendingCounts[d] + 1
           went == [entry EXCEPT ![r] = "queued"]
           q == Append(lanes[d].queue, r)
<1>1. /\ d \in Device /\ lanes[d] \in LaneState(Request) /\ pendingCounts[d] \in Nat
      /\ entry \in [Request -> EntryState] /\ went \in [Request -> EntryState]
      /\ QueueGood(d, lanes[d], entry) /\ LaneGood(d, lanes[d], entry)
      /\ StatusGood(d, activeRuns[d], entry, outcome)
      /\ CountGood(d, pendingCounts[d], entry, outcome, consumed)
  BY TargetAssumption DEF IInv, SlotTypeOK, Good, EntryState
<1>2. lanes[d].queue \in Seq(Request) /\ Len(lanes[d].queue) \in Nat
  BY <1>1, LaneFields
<1>3. /\ q \in Seq(Request) /\ Len(q) = Len(lanes[d].queue) + 1 /\ q[Len(q)] = r
      /\ \A i \in 1..Len(lanes[d].queue) : q[i] = lanes[d].queue[i]
  BY <1>2
<1>4. /\ s \in LaneState(Request) /\ s.queue = q
      /\ s.active = lanes[d].active /\ s.maxConcurrent = lanes[d].maxConcurrent
  <2>1. s = [lanes[d] EXCEPT !.queue = q]
    BY DEF PushEntry
  <2> HIDE DEF q, s
  <2> QED
    BY <1>1, <1>3, <2>1 DEF LaneState
<1>5. \A i \in 1..Len(lanes[d].queue) : lanes[d].queue[i] # r
  BY <1>1 DEF QueueGood
<1>6. ASSUME NEW i \in 1..Len(q), NEW j \in 1..Len(q), q[i] = q[j]
      PROVE  i = j
  <2>1. CASE i = Len(q) \/ j = Len(q)
    BY <1>2, <1>3, <1>5, <1>6, <2>1
  <2>2. CASE i \in 1..Len(lanes[d].queue) /\ j \in 1..Len(lanes[d].queue)
    BY <1>1, <1>3, <1>6, <2>2 DEF QueueGood
  <2> QED
    BY <1>2, <1>3, <2>1, <2>2
<1>7. { q[i] : i \in 1..Len(q) } = { t \in Request : Target[t] = d /\ went[t] = "queued" }
  <2>1. 1..Len(q) = (1..Len(lanes[d].queue)) \union {Len(q)}
    BY <1>2, <1>3
  <2>2. { q[i] : i \in 1..Len(q) }
          = { lanes[d].queue[i] : i \in 1..Len(lanes[d].queue) } \union {r}
    BY <1>3, <2>1
  <2>3. { t \in Request : Target[t] = d /\ went[t] = "queued" }
          = { t \in Request : Target[t] = d /\ entry[t] = "queued" } \union {r}
    BY <1>1
  <2> QED
    BY <1>1, <2>2, <2>3 DEF QueueGood
<1>8. QueueGood(d, s, went)
  BY <1>4, <1>6, <1>7 DEF QueueGood
<1>9. LaneGood(d, s, went)
  <2>1. Occupied(d, went) = Occupied(d, entry)
    BY <1>1 DEF Occupied
  <2> QED
    BY <1>1, <1>4, <2>1 DEF LaneGood
<1>10. StatusGood(d, activeRuns[d], went, outcome)
  BY <1>1 DEF StatusGood
<1>11. CountGood(d, pend, went, outcome, consumed)
  <2>1. Pending(d, went, outcome) = Pending(d, entry, outcome) \union {r}
    BY <1>1 DEF Pending
  <2>2. r \notin Pending(d, entry, outcome) /\ IsFiniteSet(Pending(d, entry, outcome))
    BY RequestsAreFinite DEF Pending
  <2>3. Cardinality(Pending(d, went, outcome)) = Cardinality(Pending(d, entry, outcome)) + 1
    BY <2>1, <2>2, FS_AddElement
  <2> QED
    BY <1>1, <2>3 DEF CountGood
<1>12. Good(d, s, pend, activeRuns[d], went, outcome, consumed)
  BY <1>8, <1>9, <1>10, <1>11 DEF Good
<1>13. pend \in Nat /\ \A t \in Request : Target[t] # d => went[t] = entry[t]
  BY <1>1
<1>14. Drain(d, s, pend, went)
  BY DEF Enter
<1> HIDE DEF d, s, pend, went
<1> QED
  BY <1>1, <1>12, <1>13, <1>14, DrainPreserves

\* An aborted request is answered without touching lane, count or status (l.77-79).
LEMMA EnterAbortedPreserves ==
  ASSUME IInv, NEW r \in Request, entry[r] = "none", EnterAborted(r), UNCHANGED <<aborted, released>>
  PROVE  IInv'
<1>1. /\ SlotTypeOK /\ outcome' = [outcome EXCEPT ![r] = "cancelled"]
      /\ lanes' = lanes /\ activeRuns' = activeRuns /\ pendingCounts' = pendingCounts
      /\ entry' = entry /\ consumed' = consumed /\ aborted' = aborted /\ released' = released
  BY DEF IInv, EnterAborted
<1>2. SlotTypeOK'
  BY <1>1 DEF SlotTypeOK, Outcome
<1>3. ASSUME NEW d \in Device
      PROVE  Good(d, lanes[d], pendingCounts[d], activeRuns[d], entry, outcome', consumed)
  <2>1. /\ QueueGood(d, lanes[d], entry) /\ LaneGood(d, lanes[d], entry)
        /\ StatusGood(d, activeRuns[d], entry, outcome)
        /\ CountGood(d, pendingCounts[d], entry, outcome, consumed)
    BY DEF IInv, Good
  <2>2. outcome'[r] = "cancelled" /\ \A t \in Request \ {r} : outcome'[t] = outcome[t]
    BY <1>1 DEF SlotTypeOK
  <2>3. StatusGood(d, activeRuns[d], entry, outcome')
    BY <2>1, <2>2 DEF StatusGood
  <2>4. Pending(d, entry, outcome') = Pending(d, entry, outcome)
    BY <2>2 DEF Pending
  <2>5. CountGood(d, pendingCounts[d], entry, outcome', consumed)
    BY <2>1, <2>2, <2>4 DEF CountGood
  <2> QED
    BY <2>1, <2>3, <2>5 DEF Good
<1> QED
  BY <1>1, <1>2, <1>3 DEF IInv

\* However many listeners fire at once, each counts out its own request (l.104-114).
LEMMA AbortPreserves ==
  ASSUME IInv, NEW S, S \subseteq Request, AbortAll(S)
  PROVE  IInv'
<1> DEFINE W == { r \in S : entry[r] = "queued" /\ outcome[r] = "none" }
           Out(d) == { r \in W : Target[r] = d }
<1>1. /\ aborted' = [r \in Request |-> aborted[r] \/ r \in S]
      /\ consumed' = [r \in Request |-> consumed[r] \/ r \in W]
      /\ outcome' = [r \in Request |-> IF r \in W THEN "cancelled" ELSE outcome[r]]
      /\ pendingCounts' = [d \in Device |-> Less(pendingCounts[d], Cardinality(Out(d)))]
      /\ lanes' = lanes /\ activeRuns' = activeRuns /\ entry' = entry /\ released' = released
      /\ SlotTypeOK
  BY DEF AbortAll, IInv
<1>2. ASSUME NEW d \in Device
      PROVE  /\ pendingCounts'[d] = Cardinality(Pending(d, entry, outcome'))
             /\ pendingCounts'[d] \in Nat
  <2> DEFINE P == Pending(d, entry, outcome)
  <2>1. P \subseteq Request /\ Out(d) \subseteq P
    BY DEF Pending
  <2>2. IsFiniteSet(P) /\ Cardinality(P) \in Nat /\ Cardinality(Out(d)) \in Nat
    BY <2>1, RequestsAreFinite
  <2>3. Pending(d, entry, outcome') = P \ Out(d)
    BY <1>1 DEF Pending
  <2>4. P \cap Out(d) = Out(d)
    BY <2>1
  <2>5. Cardinality(P \ Out(d)) = Cardinality(P) - Cardinality(Out(d))
    <3> HIDE DEF P, Out
    <3> QED
      BY <2>2, <2>4, FS_Difference
  <2>6. Cardinality(P \ Out(d)) \in Nat
    <3>1. P \ Out(d) \subseteq Request
      BY <2>1
    <3> QED
      BY <3>1, RequestsAreFinite
  <2>7. pendingCounts[d] = Cardinality(P)
    BY DEF IInv, Good, CountGood
  <2>8. pendingCounts'[d] = Less(Cardinality(P), Cardinality(Out(d)))
    BY <1>1, <2>7
  <2>9. Less(Cardinality(P), Cardinality(Out(d))) = Cardinality(P) - Cardinality(Out(d))
    <3> HIDE DEF P, Out
    <3> QED
      BY <2>2, <2>5, <2>6 DEF Less
  <2> QED
    BY <2>3, <2>5, <2>6, <2>8, <2>9
<1>3. SlotTypeOK'
  BY <1>1, <1>2 DEF SlotTypeOK, Outcome
<1>4. ASSUME NEW d \in Device
      PROVE  Good(d, lanes[d], pendingCounts'[d], activeRuns[d], entry, outcome', consumed')
  <2>1. /\ QueueGood(d, lanes[d], entry) /\ LaneGood(d, lanes[d], entry)
        /\ StatusGood(d, activeRuns[d], entry, outcome)
        /\ CountGood(d, pendingCounts[d], entry, outcome, consumed)
    BY DEF IInv, Good
  <2>2. \A r \in Request : /\ r \in W => /\ entry[r] = "queued"
                                         /\ outcome'[r] = "cancelled" /\ consumed'[r]
                           /\ r \notin W => /\ outcome'[r] = outcome[r]
                                            /\ consumed'[r] <=> consumed[r]
    BY <1>1
  <2> HIDE DEF W
  <2>3. StatusGood(d, activeRuns[d], entry, outcome')
    BY <2>1, <2>2 DEF StatusGood
  <2>4. CountGood(d, pendingCounts'[d], entry, outcome', consumed')
    BY <1>2, <2>1, <2>2 DEF CountGood
  <2> QED
    BY <2>1, <2>3, <2>4 DEF Good
<1> QED
  BY <1>1, <1>3, <1>4 DEF IInv

\* The second half of the body hides the status before the lane goes on (l.140-143).
LEMMA BodyReturnsPreserves ==
  ASSUME IInv, NEW r \in Request, BodyReturns(r)
  PROVE  IInv'
<1>1. /\ SlotTypeOK /\ Target[r] \in Device /\ entry[r] = "holding"
      /\ entry' = [entry EXCEPT ![r] = "finishing"]
      /\ activeRuns' = [activeRuns EXCEPT ![Target[r]] = None]
      /\ lanes' = lanes /\ pendingCounts' = pendingCounts /\ outcome' = outcome
      /\ consumed' = consumed /\ aborted' = aborted /\ released' = released
  BY TargetAssumption DEF IInv, BodyReturns
<1>2. SlotTypeOK'
  BY <1>1 DEF SlotTypeOK, EntryState
<1>3. entry'[r] = "finishing" /\ \A t \in Request \ {r} : entry'[t] = entry[t]
  BY <1>1 DEF SlotTypeOK
<1>4. ASSUME NEW d \in Device
      PROVE  Good(d, lanes[d], pendingCounts[d], activeRuns'[d], entry', outcome, consumed)
  <2>1. /\ QueueGood(d, lanes[d], entry) /\ LaneGood(d, lanes[d], entry)
        /\ StatusGood(d, activeRuns[d], entry, outcome)
        /\ CountGood(d, pendingCounts[d], entry, outcome, consumed)
    BY DEF IInv, Good
  <2>2. /\ Occupied(d, entry') = Occupied(d, entry)
        /\ Pending(d, entry', outcome) = Pending(d, entry, outcome)
        /\ { t \in Request : Target[t] = d /\ entry'[t] = "queued" }
             = { t \in Request : Target[t] = d /\ entry[t] = "queued" }
    BY <1>1, <1>3 DEF Occupied, Pending
  <2>3. QueueGood(d, lanes[d], entry') /\ LaneGood(d, lanes[d], entry')
    BY <2>1, <2>2 DEF QueueGood, LaneGood
  <2>4. CountGood(d, pendingCounts[d], entry', outcome, consumed)
    BY <1>3, <2>1, <2>2 DEF CountGood
  <2>5. StatusGood(d, activeRuns'[d], entry', outcome)
    <3>1. CASE Target[r] = d
      <4>1. activeRuns'[d] = None
        BY <1>1, <3>1 DEF SlotTypeOK
      <4>2. \A t \in Request : Target[t] = d => entry'[t] # "holding"
        BY <1>1, <1>3, <2>1, <3>1 DEF LaneGood, Occupied
      <4> QED
        BY <1>3, <2>1, <4>1, <4>2 DEF StatusGood
    <3>2. CASE Target[r] # d
      <4>1. activeRuns'[d] = activeRuns[d]
        BY <1>1, <3>2 DEF SlotTypeOK
      <4>2. \A t \in Request : Target[t] = d => entry'[t] = entry[t]
        BY <1>3, <3>2
      <4> QED
        BY <2>1, <4>1, <4>2 DEF StatusGood
    <3> QED
      BY <3>1, <3>2
  <2> QED
    BY <2>3, <2>4, <2>5 DEF Good
<1> QED
  BY <1>1, <1>2, <1>4 DEF IInv

\* The lane's continuation leaves the lane vacant of bodies and drains.
LEMMA LaneContinuesPreserves ==
  ASSUME IInv, NEW r \in Request, LaneContinues(r)
  PROVE  IInv'
<1> DEFINE d == Target[r]
           s == FinishEntry(lanes[d])
           went == [entry EXCEPT ![r] = "gone"]
<1>1. /\ d \in Device /\ lanes[d] \in LaneState(Request) /\ pendingCounts[d] \in Nat
      /\ entry[r] = "finishing"
      /\ entry \in [Request -> EntryState] /\ went \in [Request -> EntryState]
      /\ QueueGood(d, lanes[d], entry) /\ LaneGood(d, lanes[d], entry)
      /\ StatusGood(d, activeRuns[d], entry, outcome)
      /\ CountGood(d, pendingCounts[d], entry, outcome, consumed)
  BY TargetAssumption DEF IInv, SlotTypeOK, Good, EntryState, LaneContinues
<1>2. went[r] = "gone" /\ \A t \in Request \ {r} : went[t] = entry[t]
  BY <1>1
<1>3. Occupied(d, entry) = {r} /\ lanes[d].active = 1
  BY <1>1 DEF LaneGood, Occupied
<1>4. /\ s \in LaneState(Request) /\ s.queue = lanes[d].queue
      /\ s.active = 0 /\ s.maxConcurrent = 1
  <2>1. s = [lanes[d] EXCEPT !.active = 0]
    BY <1>3 DEF FinishEntry
  <2> HIDE DEF s
  <2> QED
    BY <1>1, <2>1 DEF LaneState, LaneGood
<1>5. /\ Occupied(d, went) = {}
      /\ Pending(d, went, outcome) = Pending(d, entry, outcome)
      /\ { t \in Request : Target[t] = d /\ went[t] = "queued" }
           = { t \in Request : Target[t] = d /\ entry[t] = "queued" }
  BY <1>1, <1>2, <1>3 DEF Occupied, Pending
<1> HIDE DEF s, went
<1>6. QueueGood(d, s, went)
  BY <1>1, <1>4, <1>5 DEF QueueGood
<1>7. LaneGood(d, s, went)
  BY <1>4, <1>5 DEF LaneGood
<1>8. CountGood(d, pendingCounts[d], went, outcome, consumed)
  BY <1>1, <1>2, <1>5 DEF CountGood
<1>9. StatusGood(d, activeRuns[d], went, outcome)
  BY <1>1, <1>2 DEF StatusGood
<1>10. Good(d, s, pendingCounts[d], activeRuns[d], went, outcome, consumed)
  BY <1>6, <1>7, <1>8, <1>9 DEF Good
<1>11. \A t \in Request : Target[t] # d => went[t] = entry[t]
  BY <1>2
<1>12. Drain(d, s, pendingCounts[d], went) /\ UNCHANGED <<aborted, released>>
  BY DEF LaneContinues, s, went
<1> HIDE DEF d
<1> QED
  BY <1>1, <1>10, <1>11, <1>12, DrainPreserves

LEMMA NextPreserves == IInv /\ [SlotNext]_slotVars => IInv'
<1> SUFFICES ASSUME IInv, [SlotNext]_slotVars PROVE IInv'
  OBVIOUS
<1>1. ASSUME NEW r \in Request, AcquireSlot(r) PROVE IInv'
  BY <1>1, EnterPreserves, EnterAbortedPreserves DEF AcquireSlot
<1>2. ASSUME NEW r \in Request, Abort(r) PROVE IInv'
  <2>1. {r} \subseteq Request /\ AbortAll({r})
    BY <1>2 DEF Abort
  <2> QED
    BY <2>1, AbortPreserves
<1>3. ASSUME NEW r \in Request, Release(r) PROVE IInv'
  BY <1>3 DEF Release, IInv, SlotTypeOK
<1>4. ASSUME NEW r \in Request, BodyReturns(r) PROVE IInv'
  BY <1>4, BodyReturnsPreserves
<1>5. ASSUME NEW r \in Request, LaneContinues(r) PROVE IInv'
  BY <1>5, LaneContinuesPreserves
<1>6. CASE UNCHANGED slotVars
  BY <1>6 DEF slotVars, IInv, SlotTypeOK
<1> QED
  BY <1>1, <1>2, <1>3, <1>4, <1>5, <1>6 DEF SlotNext
-----------------------------------------------------------------------------
\* The inductive invariant holds in every reachable state.
THEOREM SlotInvariance == SlotSpec => []IInv
<1>1. SlotInit => IInv
  BY InitEstablishes
<1>2. IInv /\ [SlotNext]_slotVars => IInv'
  BY NextPreserves
<1> QED
  BY <1>1, <1>2, PTL DEF SlotSpec

\* Lanes, counters and statuses keep their types.
THEOREM SlotTypeCorrectness == SlotSpec => []SlotTypeOK
<1>1. IInv => SlotTypeOK
  BY DEF IInv
<1> QED
  BY <1>1, SlotInvariance, PTL

\* At most one request holds a device's slot, whatever is aborted or released
\* when (device-queue.ts:66-70).
THEOREM SlotIsExclusive == SlotSpec => []MutualExclusion
<1>1. ASSUME IInv PROVE MutualExclusion
  <2>1. SUFFICES ASSUME NEW r \in Request, NEW s \in Request, entry[r] = "holding",
                        entry[s] = "holding", Target[r] = Target[s]
                 PROVE  r = s
    BY DEF MutualExclusion
  <2>2. LaneGood(Target[r], lanes[Target[r]], entry)
    BY <1>1, TargetAssumption DEF IInv, Good
  <2>3. r \in Occupied(Target[r], entry) /\ s \in Occupied(Target[r], entry)
    BY <2>1 DEF Occupied
  <2> QED
    BY <2>2, <2>3 DEF LaneGood
<1> QED
  BY <1>1, SlotInvariance, PTL

\* getStatus names the holder of the slot, and nobody when there is none
\* (device-queue.ts:126, 141).
THEOREM StatusIsTrue == SlotSpec => []StatusShowsHolder
<1>1. ASSUME IInv PROVE StatusShowsHolder
  <2>1. ASSUME NEW d \in Device
        PROVE  Holding(d) = IF activeRuns[d] = None THEN {} ELSE {activeRuns[d]}
    <3>1. StatusGood(d, activeRuns[d], entry, outcome)
      BY <1>1 DEF IInv, Good
    <3> QED
      BY <3>1, RequestAssumption DEF StatusGood, Holding
  <2> QED
    BY <2>1 DEF StatusShowsHolder
<1> QED
  BY <1>1, SlotInvariance, PTL

\* getStatus counts the requests that wait, each once, although an abort and
\* the start of the body both count it out (device-queue.ts:92-102).
THEOREM PendingCountIsTrue == SlotSpec => []PendingCountIsExact
<1>1. ASSUME IInv PROVE PendingCountIsExact
  <2>1. ASSUME NEW d \in Device PROVE pendingCounts[d] = Cardinality(Waiting(d))
    <3>1. CountGood(d, pendingCounts[d], entry, outcome, consumed)
      BY <1>1 DEF IInv, Good
    <3>2. Pending(d, entry, outcome) = Waiting(d)
      BY DEF Pending, Waiting
    <3> QED
      BY <3>1, <3>2 DEF CountGood
  <2> QED
    BY <2>1 DEF PendingCountIsExact
<1> QED
  BY <1>1, SlotInvariance, PTL

\* A request that was told "cancelled" never holds the slot (l.110-124).
THEOREM CancelledIsFinal == SlotSpec => []CancelledNeverHolds
<1>1. ASSUME IInv PROVE CancelledNeverHolds
  <2>1. ASSUME NEW r \in Request, outcome[r] = "cancelled" PROVE entry[r] # "holding"
    <3>1. StatusGood(Target[r], activeRuns[Target[r]], entry, outcome)
      BY <1>1, TargetAssumption DEF IInv, Good
    <3> QED
      BY <2>1, <3>1 DEF StatusGood
  <2> QED
    BY <2>1 DEF CancelledNeverHolds
<1> QED
  BY <1>1, SlotInvariance, PTL
=============================================================================
