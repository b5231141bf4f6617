---------------------------- MODULE DeviceQueue ----------------------------
(***************************************************************************)
(* src/server/rdkclaw/device-queue.ts: one exclusive slot per device, built *)
(* on a lane of the command queue.  acquireSlot enqueues a lane task whose *)
(* body, once started, hands the slot out and then waits on slotReleased,  *)
(* so that the lane stays occupied until release() is called.              *)
(*                                                                         *)
(* Steps are the stretches JavaScript runs without an await: acquireSlot up *)
(* to `await slotOutcome.promise` (with the drain and, when the lane is    *)
(* free, the body it starts), the abort listener, release(), the body's    *)
(* second half, and the lane's continuation after the body (with the next  *)
(* body it starts).  Device lanes keep the limit 1 they are created with:  *)
(* nobody calls setLaneConcurrency for them.                               *)
(***************************************************************************)
EXTENDS Lanes, FiniteSets

CONSTANTS Device,   \* device lane names
          Request,  \* one value per call of acquireSlot
          Target,   \* request -> the device it asks for
          None      \* absence: a device without a running request

ASSUME RequestAssumption == IsFiniteSet(Request) /\ None \notin Request
ASSUME TargetAssumption  == Target \in [Request -> Device]

VARIABLES
  lanes,         \* device -> LaneState of its lane
  activeRuns,    \* device -> the request whose DeviceRunInfo is stored, or None
  pendingCounts, \* device -> count; an absent Map entry reads as 0
  entry,         \* request -> progress of its lane entry
  outcome,       \* request -> what slotOutcome was resolved with ("none": not yet)
  consumed,      \* request -> pendingConsumed
  aborted,       \* request -> signal.aborted
  released       \* request -> slotReleased resolved

slotVars == <<lanes, activeRuns, pendingCounts, entry, outcome, consumed, aborted, released>>

\* "none": not enqueued; "queued": in the lane's queue; "holding": the body
\* waits on slotReleased; "finishing": the body has returned and the lane's
\* continuation is due; "gone": the lane is done with it.
EntryState == {"none", "queued", "holding", "finishing", "gone"}
Outcome    == {"none", "leased", "cancelled"}

SlotTypeOK ==
  /\ lanes \in [Device -> LaneState(Request)]
  /\ activeRuns \in [Device -> Request \union {None}]
  /\ pendingCounts \in [Device -> Nat]
  /\ entry \in [Request -> EntryState]
  /\ outcome \in [Request -> Outcome]
  /\ consumed \in [Request -> BOOLEAN]
  /\ aborted \in [Request -> BOOLEAN]
  /\ released \in [Request -> BOOLEAN]
-----------------------------------------------------------------------------
SlotInit ==
  /\ lanes = [d \in Device |-> NewLane]
  /\ activeRuns = [d \in Device |-> None]
  /\ pendingCounts = [d \in Device |-> 0]
  /\ entry = [r \in Request |-> "none"]
  /\ outcome = [r \in Request |-> "none"]
  /\ consumed = [r \in Request |-> FALSE]
  /\ aborted = [r \in Request |-> FALSE]
  /\ released = [r \in Request |-> FALSE]

\* Math.max(0, count - 1), k times
Less(n, k) == IF n > k THEN n - k ELSE 0

\* The first half of the body of request u: count it out of the pending ones,
\* then give up if it was aborted or settled meanwhile, else lease the slot.
\* pend is the device's pending count so far, went the entries so far.

\* Faulty variant of GivesUp: the body does not ask what happened meanwhile.
GivesUpNever(u) == FALSE

GivesUp(u) == aborted[u] \/ outcome[u] # "none"

StartBody(u, d, pend, went) ==
  /\ consumed' = [consumed EXCEPT ![u] = TRUE]
  /\ pendingCounts' = [pendingCounts EXCEPT ![d] = IF consumed[u] THEN pend ELSE Less(pend, 1)]
  /\ entry' = [went EXCEPT ![u] = IF GivesUp(u) THEN "finishing" ELSE "holding"]
  /\ outcome' = [outcome EXCEPT ![u] = IF @ # "none" THEN @
                                       ELSE IF aborted[u] THEN "cancelled" ELSE "leased"]
  /\ activeRuns' = [activeRuns EXCEPT ![d] = IF GivesUp(u) THEN @ ELSE u]

\* drainLane on the lane s of device d: at most one body starts, limit being 1.
Drain(d, s, pend, went) ==
  /\ lanes' = [lanes EXCEPT ![d] = DrainLane(s)]
  /\ \/ /\ StartedBy(s) = {}
        /\ pendingCounts' = [pendingCounts EXCEPT ![d] = pend]
        /\ entry' = went
        /\ UNCHANGED <<outcome, consumed, activeRuns>>
     \/ \E u \in StartedBy(s) : StartBody(u, d, pend, went)

\* acquireSlot without an early return.
Enter(r) ==
  LET d == Target[r]
  IN  /\ ~aborted[r]
      /\ Drain(d, PushEntry(lanes[d], r), pendingCounts[d] + 1,
               [entry EXCEPT ![r] = "queued"])

\* acquireSlot with a signal that is already aborted: a slot that was never
\* queued for, whose release does nothing.
EnterAborted(r) ==
  /\ aborted[r]
  /\ outcome' = [outcome EXCEPT ![r] = "cancelled"]
  /\ UNCHANGED <<lanes, activeRuns, pendingCounts, entry, consumed>>

AcquireSlot(r) ==
  /\ entry[r] = "none" /\ outcome[r] = "none"
  /\ Enter(r) \/ EnterAborted(r)
  /\ UNCHANGED <<aborted, released>>

\* Faulty variant of AbortAll: the listener counts the request out but does not
\* mark it, so that its body counts it out again.
AbortAllUnmarked(S) ==
  LET W == { r \in S : entry[r] = "queued" /\ outcome[r] = "none" }
  IN  /\ aborted' = [r \in Request |-> aborted[r] \/ r \in S]
      /\ outcome' = [r \in Request |-> IF r \in W THEN "cancelled" ELSE outcome[r]]
      /\ pendingCounts' = [d \in Device |->
             Less(pendingCounts[d], Cardinality({ r \in W : Target[r] = d }))]
      /\ UNCHANGED <<lanes, activeRuns, entry, consumed, released>>

\* The signals of the requests in S fire, in one go when they are merged from
\* one controller; a listener acts only between enqueueing and leasing.  The
\* entry stays in the lane's queue: its body gives up when it is started.
AbortAll(S) ==
  LET W == { r \in S : entry[r] = "queued" /\ outcome[r] = "none" }
  IN  /\ aborted' = [r \in Request |-> aborted[r] \/ r \in S]
      /\ consumed' = [r \in Request |-> consumed[r] \/ r \in W]
      /\ outcome' = [r \in Request |-> IF r \in W THEN "cancelled" ELSE outcome[r]]
      /\ pendingCounts' = [d \in Device |->
             Less(pendingCounts[d], Cardinality({ r \in W : Target[r] = d }))]
      /\ UNCHANGED <<lanes, activeRuns, entry, released>>

Abort(r) == ~aborted[r] /\ AbortAll({r})

\* release(): resolves slotReleased; calling it again changes nothing.
Release(r) ==
  /\ outcome[r] = "leased"
  /\ released' = [released EXCEPT ![r] = TRUE]
  /\ UNCHANGED <<lanes, activeRuns, pendingCounts, entry, outcome, consumed, aborted>>

\* Faulty variants of BodyReturns: the status is not cleared; an abort ends the
\* wait for slotReleased too.
BodyReturnsSilently(r) ==
  /\ entry[r] = "holding" /\ released[r]
  /\ entry' = [entry EXCEPT ![r] = "finishing"]
  /\ UNCHANGED <<lanes, activeRuns, pendingCounts, outcome, consumed, aborted, released>>

BodyReturnsOnAbort(r) ==
  /\ entry[r] = "holding" /\ (released[r] \/ aborted[r])
  /\ entry' = [entry EXCEPT ![r] = "finishing"]
  /\ activeRuns' = [activeRuns EXCEPT ![Target[r]] = None]
  /\ UNCHANGED <<lanes, pendingCounts, outcome, consumed, aborted, released>>

\* The second half of the body, after `await slotReleased.promise`.
BodyReturns(r) ==
  /\ entry[r] = "holding" /\ released[r]
  /\ entry' = [entry EXCEPT ![r] = "finishing"]
  /\ activeRuns' = [activeRuns EXCEPT ![Target[r]] = None]
  /\ UNCHANGED <<lanes, pendingCounts, outcome, consumed, aborted, released>>

\* Faulty variant of LaneContinues: the lane is not drained.
LaneContinuesUndrained(r) ==
  /\ entry[r] = "finishing"
  /\ lanes' = [lanes EXCEPT ![Target[r]] = FinishEntry(@)]
  /\ entry' = [entry EXCEPT ![r] = "gone"]
  /\ UNCHANGED <<activeRuns, pendingCounts, outcome, consumed, aborted, released>>

\* The lane's continuation after the body: free the lane, start the next.
LaneContinues(r) ==
  LET d == Target[r]
  IN  /\ entry[r] = "finishing"
      /\ Drain(d, FinishEntry(lanes[d]), pendingCounts[d], [entry EXCEPT ![r] = "gone"])
      /\ UNCHANGED <<aborted, released>>

SlotNext ==
  \E r \in Request :
    AcquireSlot(r) \/ Abort(r) \/ Release(r) \/ BodyReturns(r) \/ LaneContinues(r)

\* Microtasks run; a caller that has got the slot calls release() in the end
\* ("the caller MUST call release() when done", l.68).
SlotFairness ==
  \A r \in Request :
    /\ WF_slotVars(BodyReturns(r))
    /\ WF_slotVars(LaneContinues(r))
    /\ WF_slotVars(Release(r))

SlotSpec == SlotInit /\ [][SlotNext]_slotVars /\ SlotFairness
-----------------------------------------------------------------------------
Holding(d) == { r \in Request : Target[r] = d /\ entry[r] = "holding" }
Waiting(d) == { r \in Request : Target[r] = d /\ entry[r] = "queued" /\ outcome[r] = "none" }

\* Exclusive access (l.67): at most one request holds a device's slot.
MutualExclusion ==
  \A r, s \in Request :
    entry[r] = "holding" /\ entry[s] = "holding" /\ Target[r] = Target[s] => r = s

\* getStatus tells the truth about who runs: the stored DeviceRunInfo is that
\* of the holder, and there is one exactly while the slot is held (l.126, 141).
StatusShowsHolder ==
  \A d \in Device : Holding(d) = IF activeRuns[d] = None THEN {} ELSE {activeRuns[d]}

\* getStatus tells the truth about who waits: a request is counted out once,
\* when it is aborted or started, whichever comes first (l.92-102, 112, 120).
PendingCountIsExact ==
  \A d \in Device : pendingCounts[d] = Cardinality(Waiting(d))

\* A request that was told "cancelled" never holds the slot, although its
\* entry is still in the lane when it is told so (l.110-124).
CancelledNeverHolds ==
  \A r \in Request : outcome[r] = "cancelled" => entry[r] # "holding"

\* Everyone who asks is answered: no entry is forgotten in the lane behind a
\* holder, a cancelled entry or a lane that went idle.
EveryoneIsAnswered ==
  \A r \in Request : entry[r] = "queued" ~> outcome[r] # "none"

\* u is in the queue q before r.
Precedes(q, u, r) == \E i, j \in DOMAIN q : i < j /\ q[i] = u /\ q[j] = r

\* The requests ahead of r in its device's line: queued before it, and neither
\* they nor r cancelled there.
Ahead(r) ==
  LET d == Target[r]
  IN { u \in Waiting(d) : r \in Waiting(d) /\ Precedes(lanes[d].queue, u, r) }

Asked == { r \in Request : entry[r] # "none" \/ outcome[r] # "none" }

\* The promise of DeviceSlot: the line is made of the requests that wait
\* uncancelled, in the order of the lane's queue; the holder is whoever getStatus
\* names.
Slot == INSTANCE DeviceSlot WITH
          line   <- [d \in Device |-> Waiting(d)],
          ahead  <- [r \in Request |-> Ahead(r)],
          holder <- activeRuns,
          seen   <- Asked
ImplementsDeviceSlot == Slot!SlotSpec
=============================================================================
