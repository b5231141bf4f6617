-------------------------- MODULE DeviceSlotProofs --------------------------
(***************************************************************************)
(* DeviceQueue implements DeviceSlot, for every set of devices and every   *)
(* finite set of requests.  Beyond the invariant of DeviceQueueProofs the  *)
(* steps need two facts: a lane with a queue is busy, so that whoever      *)
(* starts at once overtakes nobody, and an aborted entry has been answered, *)
(* so that a body that gives up is of a request that is in no line.        *)
(***************************************************************************)
EXTENDS DeviceQueueProofs

LanesServe == \A d \in Device : lanes[d].queue # << >> => lanes[d].active = 1
AbortsAnswer == \A r \in Request : entry[r] = "queued" /\ aborted[r] => outcome[r] # "none"

SInv == IInv /\ LanesServe /\ AbortsAnswer

\* The order in a queue when one more comes to its end.
LEMMA PrecedesPushed ==
  ASSUME NEW q \in Seq(Request), NEW r, \A i \in 1..Len(q) : q[i] # r,
         NEW u, NEW v
  PROVE  /\ v # r => (Precedes(Append(q, r), u, v) <=> Precedes(q, u, v))
         /\ Precedes(Append(q, r), u, r) <=> \E i \in 1..Len(q) : q[i] = u
<1> DEFINE p == Append(q, r)
<1>1. /\ Len(q) \in Nat /\ DOMAIN q = 1..Len(q) /\ DOMAIN p = 1..Len(q) + 1
      /\ \A i \in 1..Len(q) : p[i] = q[i]
      /\ p[Len(q) + 1] = r
  OBVIOUS
<1> HIDE DEF p
<1>2. v # r /\ Precedes(p, u, v) => Precedes(q, u, v)
  <2>1. SUFFICES ASSUME v # r, NEW i \in DOMAIN p, NEW j \in DOMAIN p, i < j, p[i] = u, p[j] = v
                 PROVE  Precedes(q, u, v)
    BY DEF Precedes
  <2>2. j # Len(q) + 1
    BY <1>1, <2>1
  <2>3. i \in 1..Len(q) /\ j \in 1..Len(q)
    BY <1>1, <2>1, <2>2
  <2> QED
    BY <1>1, <2>1, <2>3 DEF Precedes
<1>3. Precedes(q, u, v) => Precedes(p, u, v)
  BY <1>1 DEF Precedes
<1>4. Precedes(p, u, r) => \E i \in 1..Len(q) : q[i] = u
  <2>1. SUFFICES ASSUME NEW i \in DOMAIN p, NEW j \in DOMAIN p, i < j, p[i] = u, p[j] = r
                 PROVE  \E k \in 1..Len(q) : q[k] = u
    BY DEF Precedes
  <2>2. i \in 1..Len(q)
    BY <1>1, <2>1
  <2> QED
    BY <1>1, <2>1, <2>2
<1>5. ASSUME NEW i \in 1..Len(q), q[i] = u PROVE Precedes(p, u, r)
  <2>1. i \in DOMAIN p /\ Len(q) + 1 \in DOMAIN p /\ i < Len(q) + 1
    BY <1>1
  <2> QED
    BY <1>1, <1>5, <2>1 DEF Precedes
<1> QED
  BY <1>2, <1>3, <1>4, <1>5 DEF p

\* The order in a queue without repetitions when the first is taken out.
LEMMA PrecedesShifted ==
  ASSUME NEW q \in Seq(Request), q # << >>,
         \A i, j \in 1..Len(q) : q[i] = q[j] => i = j,
         NEW u, NEW v
  PROVE  /\ u # q[1] => (Precedes(SubSeq(q, 2, Len(q)), u, v) <=> Precedes(q, u, v))
         /\ ~Precedes(q, u, q[1])
<1> DEFINE p == SubSeq(q, 2, Len(q))
<1>1. Len(q) \in Nat /\ Len(q) >= 1 /\ DOMAIN q = 1..Len(q)
  OBVIOUS
<1>2. Len(p) = Len(q) - 1 /\ DOMAIN p = 1..Len(q) - 1 /\ \A i \in 1..Len(q) - 1 : p[i] = q[i + 1]
  BY <1>1
<1> HIDE DEF p
<1>3. ~Precedes(q, u, q[1])
  <2>1. SUFFICES ASSUME NEW i \in DOMAIN q, NEW j \in DOMAIN q, i < j, q[j] = q[1]
                 PROVE  FALSE
    BY DEF Precedes
  <2> QED
    BY <1>1, <2>1
<1>4. Precedes(p, u, v) => Precedes(q, u, v)
  <2>1. SUFFICES ASSUME NEW i \in DOMAIN p, NEW j \in DOMAIN p, i < j, p[i] = u, p[j] = v
                 PROVE  Precedes(q, u, v)
    BY DEF Precedes
  <2>2. i + 1 \in DOMAIN q /\ j + 1 \in DOMAIN q /\ i + 1 < j + 1 /\ q[i + 1] = u /\ q[j + 1] = v
    BY <1>1, <1>2, <2>1
  <2> QED
    BY <2>2 DEF Precedes
<1>5. ASSUME u # q[1], Precedes(q, u, v) PROVE Precedes(p, u, v)
  <2>1. PICK i \in DOMAIN q, j \in DOMAIN q : i < j /\ q[i] = u /\ q[j] = v
    BY <1>5 DEF Precedes
  <2>2. i # 1
    BY <1>5, <2>1
  <2>3. /\ i - 1 \in 1..Len(q) - 1 /\ j - 1 \in 1..Len(q) - 1 /\ i - 1 < j - 1
        /\ (i - 1) + 1 = i /\ (j - 1) + 1 = j
    BY <1>1, <2>1, <2>2
  <2>4. p[i - 1] = u /\ p[j - 1] = v
    BY <1>2, <2>1, <2>3
  <2> QED
    BY <1>2, <2>3, <2>4 DEF Precedes
<1> QED
  BY <1>3, <1>4, <1>5 DEF p
-----------------------------------------------------------------------------
\* What the invariant says of one device.
LEMMA DeviceFacts ==
  ASSUME IInv, NEW d \in Device
  PROVE  /\ lanes[d] \in LaneState(Request) /\ lanes[d].maxConcurrent = 1
         /\ lanes[d].queue \in Seq(Request) /\ Len(lanes[d].queue) \in Nat
         /\ \A i, j \in 1..Len(lanes[d].queue) : lanes[d].queue[i] = lanes[d].queue[j] => i = j
         /\ \A r \in Request : (\E i \in 1..Len(lanes[d].queue) : lanes[d].queue[i] = r)
                                 <=> Target[r] = d /\ entry[r] = "queued"
         /\ lanes[d].active \in {0, 1}
         /\ \A r, t \in Occupied(d, entry) : r = t
         /\ lanes[d].active = 1 <=> Occupied(d, entry) # {}
         /\ activeRuns[d] # None => activeRuns[d] \in Occupied(d, entry)
                                    /\ entry[activeRuns[d]] = "holding"
         /\ \A r \in Request : Target[r] = d /\ entry[r] = "holding" => activeRuns[d] = r
<1>1. Good(d, lanes[d], pendingCounts[d], activeRuns[d], entry, outcome, consumed)
  BY DEF IInv
<1>2. /\ QueueGood(d, lanes[d], entry) /\ LaneGood(d, lanes[d], entry)
      /\ StatusGood(d, activeRuns[d], entry, outcome)
  BY <1>1 DEF Good
<1>3. lanes[d].queue \in Seq(Request) /\ Len(lanes[d].queue) \in Nat
  BY <1>2, LaneFields DEF LaneGood
<1>4. \A r \in Request : (\E i \in 1..Len(lanes[d].queue) : lanes[d].queue[i] = r)
                            <=> Target[r] = d /\ entry[r] = "queued"
  BY <1>2, <1>3 DEF QueueGood
<1>5. activeRuns[d] # None => activeRuns[d] \in Occupied(d, entry) /\ entry[activeRuns[d]] = "holding"
  BY <1>2 DEF StatusGood, Occupied
<1> QED
  BY <1>2, <1>3, <1>4, <1>5 DEF QueueGood, LaneGood, StatusGood

\* A line whose requests, and a queue, that do not change.
LEMMA LineFrame ==
  ASSUME NEW d \in Device,
         \A r \in Request : Target[r] = d => entry'[r] = entry[r] /\ outcome'[r] = outcome[r],
         lanes'[d] = lanes[d]
  PROVE  /\ Waiting(d)' = Waiting(d)
         /\ \A r \in Request : Target[r] = d => Ahead(r)' = Ahead(r)
BY DEF Waiting, Ahead

\* Steps that DeviceSlot does not see.
LEMMA Stutters ==
  ASSUME \A d \in Device : Waiting(d)' = Waiting(d),
         \A r \in Request : Ahead(r)' = Ahead(r),
         activeRuns' = activeRuns, Asked' = Asked
  PROVE  UNCHANGED Slot!slotVars
BY DEF Slot!slotVars

\* Whoever is counted out of a line leaves it to the others in their order.
LEMMA StepsOut ==
  ASSUME NEW S, 
         \A d \in Device : Waiting(d)' = Waiting(d) \ S,
         \A r \in Request : Ahead(r)' = IF r \in S THEN {} ELSE Ahead(r) \ S
  PROVE  Slot!StepOut(S)
BY DEF Slot!StepOut
-----------------------------------------------------------------------------
\* The signals of S fire: those of them that wait leave (l.104-114).
LEMMA AbortMaps ==
  ASSUME SInv, NEW S, S \subseteq Request, AbortAll(S)
  PROVE  [Slot!SlotNext]_(Slot!slotVars) /\ LanesServe' /\ AbortsAnswer'
<1> DEFINE W == { r \in S : entry[r] = "queued" /\ outcome[r] = "none" }
<1>1. /\ outcome' = [r \in Request |-> IF r \in W THEN "cancelled" ELSE outcome[r]]
      /\ aborted' = [r \in Request |-> aborted[r] \/ r \in S]
      /\ lanes' = lanes /\ activeRuns' = activeRuns /\ entry' = entry
  BY DEF AbortAll
<1>2. SlotTypeOK
  BY DEF SInv, IInv
<1>3. \A d \in Device : Waiting(d)' = Waiting(d) \ S
  BY <1>1 DEF Waiting
<1>4. ASSUME NEW r \in Request
      PROVE  Ahead(r)' = IF r \in S THEN {} ELSE Ahead(r) \ S
  <2>1. Target[r] \in Device
    BY TargetAssumption
  <2>2. Waiting(Target[r])' = Waiting(Target[r]) \ S
    BY <1>3, <2>1
  <2> QED
    BY <1>1, <2>2 DEF Ahead
<1>5. Asked' = Asked
  BY <1>1 DEF Asked
<1>6. Slot!StepOut(S)
  BY <1>3, <1>4, StepsOut
<1>7. Slot!Leave(S)
  BY <1>1, <1>5, <1>6 DEF Slot!Leave
<1>8. Slot!SlotNext
  BY <1>7 DEF Slot!SlotNext
<1>9. LanesServe'
  BY <1>1 DEF SInv, LanesServe
<1>10. AbortsAnswer'
  BY <1>1 DEF SInv, AbortsAnswer
<1> QED
  BY <1>8, <1>9, <1>10

\* The body returns: the slot is given back (l.140-141).
LEMMA BodyReturnsMaps ==
  ASSUME SInv, NEW r \in Request, BodyReturns(r)
  PROVE  [Slot!SlotNext]_(Slot!slotVars) /\ LanesServe' /\ AbortsAnswer'
<1> DEFINE d == Target[r]
<1>1. /\ d \in Device /\ entry[r] = "holding" /\ SlotTypeOK
      /\ entry' = [entry EXCEPT ![r] = "finishing"]
      /\ activeRuns' = [activeRuns EXCEPT ![d] = None]
      /\ lanes' = lanes /\ outcome' = outcome /\ aborted' = aborted
  BY TargetAssumption DEF BodyReturns, SInv, IInv
<1>2. entry'[r] = "finishing" /\ \A t \in Request \ {r} : entry'[t] = entry[t]
  BY <1>1 DEF SlotTypeOK
<1>3. activeRuns[d] = r
  BY <1>1, DeviceFacts DEF SInv
<1>4. \A e \in Device : Waiting(e)' = Waiting(e)
  BY <1>1, <1>2 DEF Waiting
<1>5. \A t \in Request : Ahead(t)' = Ahead(t)
  BY <1>1, <1>4, TargetAssumption DEF Ahead
<1>6. Asked' = Asked
  BY <1>1, <1>2 DEF Asked
<1>7. activeRuns[d] # None
  BY <1>3, RequestAssumption
<1>8. Slot!GiveBack(d)
  BY <1>1, <1>4, <1>5, <1>6, <1>7 DEF Slot!GiveBack
<1>9. Slot!SlotNext
  BY <1>1, <1>8 DEF Slot!SlotNext
<1>10. LanesServe' /\ AbortsAnswer'
  BY <1>1, <1>2 DEF SInv, LanesServe, AbortsAnswer
<1> QED
  BY <1>9, <1>10

\* A request whose signal is aborted asks and is not seen again (l.77-79).
LEMMA EnterAbortedMaps ==
  ASSUME SInv, NEW r \in Request, entry[r] = "none", outcome[r] = "none",
         EnterAborted(r), UNCHANGED <<aborted, released>>
  PROVE  [Slot!SlotNext]_(Slot!slotVars) /\ LanesServe' /\ AbortsAnswer'
<1>1. /\ outcome' = [outcome EXCEPT ![r] = "cancelled"] /\ SlotTypeOK
      /\ lanes' = lanes /\ activeRuns' = activeRuns /\ entry' = entry /\ aborted' = aborted
  BY DEF EnterAborted, SInv, IInv
<1>2. outcome'[r] = "cancelled" /\ \A t \in Request \ {r} : outcome'[t] = outcome[t]
  BY <1>1 DEF SlotTypeOK
<1>3. \A e \in Device : Waiting(e)' = Waiting(e)
  BY <1>1, <1>2 DEF Waiting
<1>4. \A t \in Request : Ahead(t)' = Ahead(t)
  BY <1>1, <1>3, TargetAssumption DEF Ahead
<1>5. r \notin Asked /\ Asked' = Asked \union {r}
  BY <1>1, <1>2 DEF Asked
<1>6. Slot!Ask(r, Target[r])
  BY <1>1, <1>3, <1>4, <1>5 DEF Slot!Ask
<1>7. Slot!SlotNext
  BY <1>6, TargetAssumption DEF Slot!SlotNext
<1>8. LanesServe' /\ AbortsAnswer'
  BY <1>1, <1>2 DEF SInv, LanesServe, AbortsAnswer
<1> QED
  BY <1>7, <1>8

\* acquireSlot on a busy lane: the request lines up (l.117).
LEMMA EnterBusyMaps ==
  ASSUME SInv, NEW r \in Request, entry[r] = "none", outcome[r] = "none",
         Enter(r), UNCHANGED <<aborted, released>>,
         lanes[Target[r]].active = 1
  PROVE  Slot!SlotNext /\ LanesServe' /\ AbortsAnswer'
<1> DEFINE d == Target[r]
           s == PushEntry(lanes[d], r)
           q == lanes[d].queue
<1>1. /\ d \in Device /\ SlotTypeOK /\ ~aborted[r] /\ aborted' = aborted
      /\ Drain(d, s, pendingCounts[d] + 1, [entry EXCEPT ![r] = "queued"])
  BY TargetAssumption DEF Enter, SInv, IInv
<1>2. /\ lanes[d] \in LaneState(Request) /\ lanes[d].maxConcurrent = 1
      /\ q \in Seq(Request) /\ Len(q) \in Nat
      /\ \A t \in Request : (\E i \in 1..Len(q) : q[i] = t) <=> Target[t] = d /\ entry[t] = "queued"
  BY <1>1, DeviceFacts DEF SInv
<1>3. s \in LaneState(Request) /\ s.active = 1 /\ s.maxConcurrent = 1 /\ s.queue = Append(q, r)
  <2>1. s = [lanes[d] EXCEPT !.queue = Append(q, r)] /\ Append(q, r) \in Seq(Request)
    BY <1>2 DEF PushEntry
  <2> HIDE DEF s, q
  <2> QED
    BY <1>2, <2>1 DEF LaneState
<1>4. StartedBy(s) = {} /\ DrainLane(s) = s
  BY <1>3, DrainSingleLane
<1> HIDE DEF s
<1>5. /\ lanes' = [lanes EXCEPT ![d] = s] /\ entry' = [entry EXCEPT ![r] = "queued"]
      /\ outcome' = outcome /\ activeRuns' = activeRuns
  BY <1>1, <1>4 DEF Drain
<1>6. /\ lanes'[d] = s /\ \A e \in Device \ {d} : lanes'[e] = lanes[e]
      /\ entry'[r] = "queued" /\ \A t \in Request \ {r} : entry'[t] = entry[t]
  BY <1>1, <1>5 DEF SlotTypeOK
<1>7. Waiting(d)' = Waiting(d) \union {r} /\ \A e \in Device \ {d} : Waiting(e)' = Waiting(e)
  BY <1>5, <1>6 DEF Waiting
<1>8. r \notin Waiting(d) /\ \A i \in 1..Len(q) : q[i] # r
  BY <1>2 DEF Waiting
<1>9. \A u \in Waiting(d) : \E i \in 1..Len(q) : q[i] = u
  BY <1>2 DEF Waiting
<1>10. Ahead(r)' = Waiting(d)
  <2>1. ~Precedes(Append(q, r), r, r)
    BY <1>2, <1>8, PrecedesPushed
  <2>2. \A u \in Waiting(d) : Precedes(Append(q, r), u, r)
    BY <1>2, <1>8, <1>9, PrecedesPushed
  <2> QED
    BY <1>3, <1>6, <1>7, <2>1, <2>2 DEF Ahead
<1>11. ASSUME NEW v \in Request, v # r
       PROVE  Ahead(v)' = Ahead(v)
  <2>1. CASE Target[v] # d
    BY <1>6, <1>7, <2>1, TargetAssumption DEF Ahead
  <2>2. CASE Target[v] = d
    <3>1. \A u \in Waiting(d) : Precedes(Append(q, r), u, v) <=> Precedes(q, u, v)
      BY <1>2, <1>8, <1>11, PrecedesPushed
    <3>2. ~Precedes(Append(q, r), r, v) \/ v \notin Waiting(d)
      <4>1. Precedes(Append(q, r), r, v) <=> Precedes(q, r, v)
        BY <1>2, <1>8, <1>11, PrecedesPushed
      <4>2. ~Precedes(q, r, v)
        BY <1>2, <1>8 DEF Precedes
      <4> QED
        BY <4>1, <4>2
    <3> QED
      BY <1>3, <1>6, <1>7, <1>8, <1>11, <2>2, <3>1, <3>2 DEF Ahead
  <2> QED
    BY <2>1, <2>2
<1>12. r \notin Asked /\ Asked' = Asked \union {r}
  BY <1>5, <1>6 DEF Asked
<1>13. Slot!AskAndWait(r, d)
  BY <1>1, <1>5, <1>7, <1>10, <1>11 DEF Slot!AskAndWait
<1>14. Slot!SlotNext
  BY <1>1, <1>12, <1>13 DEF Slot!Ask, Slot!SlotNext
<1>15. LanesServe'
  BY <1>1, <1>3, <1>6 DEF SInv, LanesServe
<1>16. AbortsAnswer'
  BY <1>1, <1>5, <1>6 DEF SInv, AbortsAnswer
<1> QED
  BY <1>14, <1>15, <1>16

\* acquireSlot on a free lane: nobody waits, and the request has the slot at once
\* (l.117-131).
LEMMA EnterFreeMaps ==
  ASSUME SInv, NEW r \in Request, entry[r] = "none", outcome[r] = "none",
         Enter(r), UNCHANGED <<aborted, released>>,
         lanes[Target[r]].active = 0
  PROVE  Slot!SlotNext /\ LanesServe' /\ AbortsAnswer'
<1> DEFINE d == Target[r]
           s == PushEntry(lanes[d], r)
           q == lanes[d].queue
           went == [entry EXCEPT ![r] = "queued"]
<1>1. /\ d \in Device /\ SlotTypeOK /\ ~aborted[r] /\ aborted' = aborted
      /\ Drain(d, s, pendingCounts[d] + 1, went)
  BY TargetAssumption DEF Enter, SInv, IInv
<1>2. /\ lanes[d] \in LaneState(Request) /\ lanes[d].maxConcurrent = 1 /\ q = << >>
      /\ Waiting(d) = {} /\ activeRuns[d] = None
  <2>1. q = << >>
    BY <1>1 DEF SInv, LanesServe
  <2>2. \A t \in Request : ~(Target[t] = d /\ entry[t] = "queued")
    BY <1>1, <2>1, DeviceFacts DEF SInv
  <2> QED
    BY <1>1, <2>1, <2>2, DeviceFacts DEF SInv, Waiting
<1>3. s \in LaneState(Request) /\ s.active = 0 /\ s.maxConcurrent = 1 /\ s.queue = <<r>>
  <2>1. s = [lanes[d] EXCEPT !.queue = <<r>>] /\ <<r>> \in Seq(Request)
    BY <1>2 DEF PushEntry
  <2> HIDE DEF s, q
  <2> QED
    BY <1>2, <2>1 DEF LaneState
<1>4. StartedBy(s) = {r} /\ DrainLane(s).queue = << >>
  <2>1. /\ s.queue # << >> /\ s.queue[1] = r
        /\ SubSeq(s.queue, 2, Len(s.queue)) = << >>
    BY <1>3
  <2>2. /\ StartedBy(s) = {r}
        /\ DrainLane(s) = [active |-> 1, queue |-> << >>, maxConcurrent |-> 1]
    BY <1>3, <2>1, DrainSingleLane
  <2> QED
    BY <2>2
<1>5. StartBody(r, d, pendingCounts[d] + 1, went)
  BY <1>1, <1>4 DEF Drain
<1>6. lanes' = [lanes EXCEPT ![d] = DrainLane(s)]
  BY <1>1 DEF Drain
<1> HIDE DEF s
<1>7. /\ entry' = [went EXCEPT ![r] = "holding"]
      /\ outcome' = [outcome EXCEPT ![r] = "leased"]
      /\ activeRuns' = [activeRuns EXCEPT ![d] = r]
  BY <1>1, <1>5 DEF StartBody, GivesUp, SlotTypeOK
<1>8. /\ entry'[r] = "holding" /\ \A t \in Request \ {r} : entry'[t] = entry[t]
      /\ outcome'[r] = "leased" /\ \A t \in Request \ {r} : outcome'[t] = outcome[t]
      /\ lanes'[d] = DrainLane(s) /\ \A e \in Device \ {d} : lanes'[e] = lanes[e]
  BY <1>1, <1>6, <1>7 DEF SlotTypeOK
<1>9. \A e \in Device : Waiting(e)' = Waiting(e)
  BY <1>8 DEF Waiting
<1>10. ASSUME NEW v \in Request PROVE Ahead(v)' = Ahead(v)
  <2>1. CASE Target[v] = d
    BY <1>1, <1>2, <1>9, <2>1 DEF Ahead
  <2>2. CASE Target[v] # d
    BY <1>8, <1>9, <2>2, TargetAssumption DEF Ahead
  <2> QED
    BY <2>1, <2>2
<1>11. r \notin Asked /\ Asked' = Asked \union {r}
  BY <1>8 DEF Asked
<1>12. Slot!AskAndHold(r, d)
  BY <1>1, <1>2, <1>7, <1>9, <1>10 DEF Slot!AskAndHold
<1>13. Slot!SlotNext
  BY <1>1, <1>11, <1>12 DEF Slot!Ask, Slot!SlotNext
<1>14. LanesServe'
  BY <1>1, <1>4, <1>8 DEF SInv, LanesServe
<1>15. AbortsAnswer'
  BY <1>1, <1>8 DEF SInv, AbortsAnswer
<1> QED
  BY <1>13, <1>14, <1>15

LEMMA AcquireMaps ==
  ASSUME SInv, NEW r \in Request, AcquireSlot(r)
  PROVE  [Slot!SlotNext]_(Slot!slotVars) /\ LanesServe' /\ AbortsAnswer'
<1>1. CASE Enter(r)
  <2>1. lanes[Target[r]].active \in {0, 1}
    BY DeviceFacts, TargetAssumption DEF SInv
  <2> QED
    BY <1>1, <2>1, EnterBusyMaps, EnterFreeMaps DEF AcquireSlot
<1>2. CASE EnterAborted(r)
  BY <1>2, EnterAbortedMaps DEF AcquireSlot
<1> QED
  BY <1>1, <1>2 DEF AcquireSlot

\* The lane after the body of r: whoever is first in its queue is started.
LEMMA FinishedLane ==
  ASSUME IInv, NEW r \in Request, entry[r] = "finishing"
  PROVE  LET q == lanes[Target[r]].queue
             s == FinishEntry(lanes[Target[r]])
         IN  /\ q = << >> => StartedBy(s) = {} /\ DrainLane(s).queue = << >>
             /\ q # << >> => /\ StartedBy(s) = {q[1]}
                             /\ DrainLane(s).queue = SubSeq(q, 2, Len(q))
                             /\ DrainLane(s).active = 1
<1> DEFINE d == Target[r]
           s == FinishEntry(lanes[d])
           q == lanes[d].queue
<1>1. d \in Device /\ r \in Occupied(d, entry)
  BY TargetAssumption DEF Occupied
<1>2. /\ lanes[d] \in LaneState(Request) /\ lanes[d].maxConcurrent = 1 /\ lanes[d].active = 1
  BY <1>1, DeviceFacts
<1>3. s = [lanes[d] EXCEPT !.active = 0]
  BY <1>2 DEF FinishEntry
<1> HIDE DEF s
<1>4. s \in LaneState(Request) /\ s.active = 0 /\ s.maxConcurrent = 1 /\ s.queue = q
  BY <1>2, <1>3 DEF LaneState
<1>5. CASE q = << >>
  BY <1>4, <1>5, DrainSingleLane DEF s
<1>6. CASE q # << >>
  <2>1. /\ StartedBy(s) = {q[1]}
        /\ DrainLane(s) = [active |-> 1, queue |-> SubSeq(q, 2, Len(q)), maxConcurrent |-> 1]
    BY <1>4, <1>6, DrainSingleLane
  <2> QED
    BY <1>6, <2>1 DEF s
<1> QED
  BY <1>5, <1>6 DEF s

\* The lane goes on and nobody is queued.
LEMMA ContinuesIdle ==
  ASSUME SInv, NEW r \in Request, LaneContinues(r), lanes[Target[r]].queue = << >>
  PROVE  UNCHANGED Slot!slotVars /\ LanesServe' /\ AbortsAnswer'
<1> DEFINE d == Target[r]
           s == FinishEntry(lanes[d])
<1>1. /\ d \in Device /\ SlotTypeOK /\ entry[r] = "finishing" /\ aborted' = aborted
      /\ Drain(d, s, pendingCounts[d], [entry EXCEPT ![r] = "gone"])
  BY TargetAssumption DEF LaneContinues, SInv, IInv
<1>2. StartedBy(s) = {} /\ DrainLane(s).queue = << >>
  BY <1>1, FinishedLane DEF SInv
<1> HIDE DEF s
<1>3. /\ lanes' = [lanes EXCEPT ![d] = DrainLane(s)]
      /\ entry' = [entry EXCEPT ![r] = "gone"]
      /\ outcome' = outcome /\ activeRuns' = activeRuns
  BY <1>1, <1>2 DEF Drain
<1>4. /\ entry'[r] = "gone" /\ \A t \in Request \ {r} : entry'[t] = entry[t]
      /\ lanes'[d] = DrainLane(s) /\ \A e \in Device \ {d} : lanes'[e] = lanes[e]
  BY <1>1, <1>3 DEF SlotTypeOK
<1>5. \A e \in Device : Waiting(e)' = Waiting(e)
  BY <1>1, <1>3, <1>4 DEF Waiting
<1>6. ASSUME NEW v \in Request PROVE Ahead(v)' = Ahead(v)
  <2>1. CASE Target[v] = d
    <3>1. \A t \in Request : ~(Target[t] = d /\ entry[t] = "queued")
      BY <1>1, DeviceFacts DEF SInv
    <3> QED
      BY <1>1, <1>5, <2>1, <3>1 DEF Ahead, Waiting
  <2>2. CASE Target[v] # d
    BY <1>4, <1>5, <2>2, TargetAssumption DEF Ahead
  <2> QED
    BY <2>1, <2>2
<1>7. Asked' = Asked
  BY <1>1, <1>3, <1>4 DEF Asked
<1>8. LanesServe'
  BY <1>1, <1>2, <1>4 DEF SInv, LanesServe
<1>9. AbortsAnswer'
  BY <1>1, <1>3, <1>4 DEF SInv, AbortsAnswer
<1> QED
  BY <1>3, <1>5, <1>6, <1>7, <1>8, <1>9, Stutters

\* The lane goes on with the next of its queue: one that was cancelled there gives
\* up and nobody notices, any other has come to the head of the line (l.119-131).
LEMMA ContinuesBusy ==
  ASSUME SInv, NEW r \in Request, LaneContinues(r), lanes[Target[r]].queue # << >>
  PROVE  [Slot!SlotNext]_(Slot!slotVars) /\ LanesServe' /\ AbortsAnswer'
<1> DEFINE d == Target[r]
           s == FinishEntry(lanes[d])
           q == lanes[d].queue
           u == q[1]
           went == [entry EXCEPT ![r] = "gone"]
<1>1. /\ d \in Device /\ SlotTypeOK /\ entry[r] = "finishing" /\ aborted' = aborted
      /\ Drain(d, s, pendingCounts[d], went)
  BY TargetAssumption DEF LaneContinues, SInv, IInv
<1>2. /\ StartedBy(s) = {u} /\ DrainLane(s).queue = SubSeq(q, 2, Len(q))
      /\ DrainLane(s).active = 1
  BY <1>1, FinishedLane DEF SInv
<1>3. StartBody(u, d, pendingCounts[d], went)
  BY <1>1, <1>2 DEF Drain
<1>4. lanes' = [lanes EXCEPT ![d] = DrainLane(s)]
  BY <1>1 DEF Drain
<1> HIDE DEF s
<1>5. /\ q \in Seq(Request) /\ \A i, j \in 1..Len(q) : q[i] = q[j] => i = j
      /\ \A t \in Request : (\E i \in 1..Len(q) : q[i] = t) <=> Target[t] = d /\ entry[t] = "queued"
      /\ activeRuns[d] = None
  <2>1. activeRuns[d] = None
    <3>1. r \in Occupied(d, entry)
      BY <1>1 DEF Occupied
    <3> QED
      BY <1>1, <3>1, DeviceFacts DEF SInv
  <2> QED
    BY <1>1, <2>1, DeviceFacts DEF SInv
<1>6. u \in Request /\ u # r /\ Target[u] = d /\ entry[u] = "queued"
  <2>1. Len(q) \in Nat /\ 1 \in 1..Len(q) /\ u \in Request
    BY <1>5
  <2> QED
    BY <1>1, <1>5, <2>1
<1> HIDE DEF u
<1>7. /\ lanes'[d] = DrainLane(s) /\ \A e \in Device \ {d} : lanes'[e] = lanes[e]
      /\ entry'[u] \in {"holding", "finishing"} /\ entry'[r] = "gone"
      /\ \A t \in Request \ {r, u} : entry'[t] = entry[t]
      /\ \A t \in Request \ {u} : outcome'[t] = outcome[t]
      /\ outcome'[u] # "none"
  BY <1>1, <1>3, <1>4, <1>6 DEF StartBody, SlotTypeOK, GivesUp
<1>8. \A e \in Device : Waiting(e)' = Waiting(e) \ {u}
  BY <1>1, <1>6, <1>7 DEF Waiting
<1>9. \A v \in Request : ~Precedes(q, v, u)
  BY <1>5, PrecedesShifted DEF u
<1>10. \A w, v \in Request : w # u => (Precedes(SubSeq(q, 2, Len(q)), w, v) <=> Precedes(q, w, v))
  BY <1>5, PrecedesShifted DEF u
<1>11. ASSUME NEW v \in Request
       PROVE  Ahead(v)' = IF v \in {u} THEN {} ELSE Ahead(v) \ {u}
  <2>1. CASE v = u
    BY <1>8, <2>1, TargetAssumption DEF Ahead
  <2>2. CASE v # u /\ Target[v] = d
    <3>1. Waiting(d)' = Waiting(d) \ {u} /\ Waiting(d) \subseteq Request
      BY <1>1, <1>8 DEF Waiting
    <3>2. lanes'[d].queue = SubSeq(q, 2, Len(q))
      BY <1>2, <1>7
    <3> HIDE DEF q
    <3>3. Ahead(v)' = { w \in Waiting(d) \ {u} : v \in Waiting(d) \ {u}
                                                /\ Precedes(SubSeq(q, 2, Len(q)), w, v) }
      BY <2>2, <3>1, <3>2 DEF Ahead
    <3>4. Ahead(v) = { w \in Waiting(d) : v \in Waiting(d) /\ Precedes(q, w, v) }
      BY <2>2 DEF Ahead, q
    <3> QED
      BY <1>10, <2>2, <3>1, <3>3, <3>4
  <2>3. CASE Target[v] # d
    <3>1. u \notin Waiting(Target[v])
      BY <1>6, <2>3 DEF Waiting
    <3>2. Waiting(Target[v])' = Waiting(Target[v]) /\ lanes'[Target[v]] = lanes[Target[v]]
      BY <1>7, <1>8, <2>3, <3>1, TargetAssumption
    <3>3. u \notin Ahead(v) /\ v # u
      BY <1>6, <2>3, <3>1 DEF Ahead
    <3> QED
      BY <3>2, <3>3 DEF Ahead
  <2> QED
    BY <2>1, <2>2, <2>3
<1>12. Asked' = Asked
  BY <1>1, <1>6, <1>7 DEF Asked
<1>13. LanesServe'
  BY <1>1, <1>2, <1>7 DEF SInv, LanesServe
<1>14. AbortsAnswer'
  BY <1>1, <1>7 DEF SInv, AbortsAnswer
<1>15. CASE GivesUp(u)
  <2>1. outcome[u] # "none"
    BY <1>6, <1>15 DEF GivesUp, SInv, AbortsAnswer
  <2>2. \A e \in Device : u \notin Waiting(e)
    BY <2>1 DEF Waiting
  <2>3. \A v \in Request : u \notin Ahead(v) /\ (v = u => Ahead(v) = {})
    BY <2>2, TargetAssumption DEF Ahead
  <2>4. activeRuns' = activeRuns
    BY <1>1, <1>3, <1>15 DEF StartBody, SlotTypeOK
  <2>5. \A e \in Device : Waiting(e)' = Waiting(e)
    BY <1>8, <2>2
  <2>6. \A v \in Request : Ahead(v)' = Ahead(v)
    BY <1>11, <2>3
  <2>7. UNCHANGED Slot!slotVars
    BY <1>12, <2>4, <2>5, <2>6, Stutters
  <2> QED
    BY <1>13, <1>14, <2>7
<1>16. CASE ~GivesUp(u)
  <2>1. u \in Waiting(d)
    BY <1>6, <1>16 DEF GivesUp, Waiting
  <2>2. Ahead(u) = {}
    BY <1>6, <1>9 DEF Ahead, Waiting
  <2>3. activeRuns' = [activeRuns EXCEPT ![d] = u]
    BY <1>3, <1>16 DEF StartBody
  <2>4. Slot!StepOut({u})
    BY <1>8, <1>11, StepsOut
  <2>5. Slot!Grant(u, d)
    BY <1>1, <1>5, <1>6, <1>12, <2>1, <2>2, <2>3, <2>4 DEF Slot!Grant
  <2>6. Slot!SlotNext
    BY <1>1, <1>6, <2>5 DEF Slot!SlotNext
  <2> QED
    BY <1>13, <1>14, <2>6
<1> QED
  BY <1>15, <1>16
-----------------------------------------------------------------------------
LEMMA SlotInitMaps == SlotInit => Slot!SlotInit /\ SInv
<1> SUFFICES ASSUME SlotInit PROVE Slot!SlotInit /\ SInv
  OBVIOUS
<1>1. \A d \in Device : Waiting(d) = {} /\ lanes[d].queue = << >>
  BY DEF SlotInit, Waiting, NewLane
<1>2. \A r \in Request : Ahead(r) = {}
  BY <1>1, TargetAssumption DEF Ahead
<1>3. Asked = {}
  BY DEF SlotInit, Asked
<1>4. Slot!SlotInit
  BY <1>1, <1>2, <1>3 DEF SlotInit, Slot!SlotInit
<1>5. LanesServe /\ AbortsAnswer
  BY <1>1 DEF SlotInit, LanesServe, AbortsAnswer
<1> QED
  BY <1>4, <1>5, InitEstablishes DEF SInv

\* A step of a component that uses the queue: any of its operations, and
\* several signals may fire at once.
QueueStep ==
  \/ \E r \in Request : AcquireSlot(r) \/ Release(r) \/ BodyReturns(r) \/ LaneContinues(r)
  \/ \E S \in SUBSET Request : AbortAll(S)
  \/ UNCHANGED slotVars

LEMMA StepMaps ==
  ASSUME SInv, QueueStep
  PROVE  [Slot!SlotNext]_(Slot!slotVars) /\ LanesServe' /\ AbortsAnswer'
<1>1. CASE UNCHANGED slotVars \/ \E r \in Request : Release(r)
  <2>1. /\ lanes' = lanes /\ activeRuns' = activeRuns /\ entry' = entry
        /\ outcome' = outcome /\ aborted' = aborted
    BY <1>1 DEF slotVars, Release
  <2>2. UNCHANGED Slot!slotVars
    BY <2>1 DEF Slot!slotVars, Waiting, Ahead, Asked
  <2> QED
    BY <2>1, <2>2 DEF SInv, LanesServe, AbortsAnswer
<1>2. CASE \E S \in SUBSET Request : AbortAll(S)
  BY <1>2, AbortMaps
<1>3. CASE \E r \in Request : LaneContinues(r)
  BY <1>3, ContinuesIdle, ContinuesBusy
<1> QED
  BY <1>1, <1>2, <1>3, AcquireMaps, BodyReturnsMaps DEF QueueStep

\* The device queue does what DeviceSlot promises: a request is served at once only
\* when nobody is ahead, the others in the order they asked, without those
\* that were cancelled meanwhile (device-queue.ts l.7-9, 67-68).
THEOREM QueueImplementsSlot == SlotSpec => ImplementsDeviceSlot
<1>1. SlotInit => Slot!SlotInit /\ SInv
  BY SlotInitMaps
<1>2. SInv /\ [SlotNext]_slotVars => SInv' /\ [Slot!SlotNext]_(Slot!slotVars)
  <2> SUFFICES ASSUME SInv, [SlotNext]_slotVars
               PROVE  SInv' /\ [Slot!SlotNext]_(Slot!slotVars)
    OBVIOUS
  <2>1. QueueStep
    BY DEF SlotNext, Abort, QueueStep
  <2>2. IInv'
    BY NextPreserves DEF SInv
  <2> QED
    BY <2>1, <2>2, StepMaps DEF SInv
<1> QED
  BY <1>1, <1>2, PTL DEF SlotSpec, ImplementsDeviceSlot, Slot!SlotSpec
=============================================================================
