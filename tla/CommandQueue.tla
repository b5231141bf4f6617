---------------------------- MODULE CommandQueue ----------------------------
(***************************************************************************)
(* The process-wide command queue, src/server/agent/command-queue.ts: named *)
(* lanes, each a FIFO queue of tasks started while fewer than maxConcurrent *)
(* are running.  Device, session and global lanes of the chat path all live *)
(* in this one Map.                                                        *)
(*                                                                         *)
(* JavaScript runs a function to its first await without interruption, so  *)
(* enqueueInLane, setLaneConcurrency, deleteLane and the continuation that *)
(* follows `await entry.task()` are one step each.  What a task does is    *)
(* left to its owner: here it only ends, resolved or rejected (both paths  *)
(* do the same to the lane).                                               *)
(***************************************************************************)
EXTENDS Lanes, FiniteSets

CONSTANTS Lane,    \* lane names
          Task,    \* one value per call of enqueueInLane
          LaneOf,  \* task -> the lane it is enqueued in
          Limits   \* the values setLaneConcurrency is called with

ASSUME LaneOfAssumption == LaneOf \in [Task -> Lane]
ASSUME LimitsAssumption == Limits \subseteq Nat \ {0}
ASSUME TaskAssumption   == IsFiniteSet(Task)

VARIABLES
  lanes,      \* lane name -> LaneState; NewLane stands for "not in the Map"
  status,     \* task -> where its entry is
  configured  \* history: lane -> the limit its last setLaneConcurrency asked for

vars == <<lanes, status, configured>>

Status == {"new", "queued", "running", "settled"}

TypeOK ==
  /\ lanes \in [Lane -> LaneState(Task)]
  /\ status \in [Task -> Status]
  /\ configured \in [Lane -> Nat \ {0}]

RunningIn(l) == { t \in Task : status[t] = "running" /\ LaneOf[t] = l }
Queue(l)     == lanes[l].queue
-----------------------------------------------------------------------------
Init ==
  /\ lanes = [l \in Lane |-> NewLane]
  /\ status = [t \in Task |-> "new"]
  /\ configured = [l \in Lane |-> 1]

\* enqueueInLane: push, then drain; the drain may start this very task.
Enqueue(t) ==
  LET l == LaneOf[t]
      s == PushEntry(lanes[l], t)
  IN  /\ status[t] = "new"
      /\ lanes' = [lanes EXCEPT ![l] = DrainLane(s)]
      /\ status' = [u \in Task |-> IF u \in StartedBy(s) THEN "running"
                                   ELSE IF u = t THEN "queued" ELSE status[u]]
      /\ UNCHANGED configured

\* Faulty variant of Settle: the lane is not drained.
SettleUndrained(t) ==
  /\ status[t] = "running"
  /\ lanes' = [lanes EXCEPT ![LaneOf[t]] = FinishEntry(@)]
  /\ status' = [status EXCEPT ![t] = "settled"]
  /\ UNCHANGED configured

\* The continuation of a task: the slot is given back, the lane is drained and
\* only then is the caller's promise settled.
Settle(t) ==
  LET l == LaneOf[t]
      s == FinishEntry(lanes[l])
  IN  /\ status[t] = "running"
      /\ lanes' = [lanes EXCEPT ![l] = DrainLane(s)]
      /\ status' = [u \in Task |-> IF u = t THEN "settled"
                                   ELSE IF u \in StartedBy(s) THEN "running"
                                   ELSE status[u]]
      /\ UNCHANGED configured

\* Faulty variant of SetLaneConcurrency: the lane is not drained.
SetLimitUndrained(l, n) ==
  /\ lanes' = [lanes EXCEPT ![l] = SetLimit(@, n)]
  /\ configured' = [configured EXCEPT ![l] = n]
  /\ UNCHANGED status

\* setLaneConcurrency: set the limit, then drain - which drops a vacant lane
\* together with the limit it has just been given.
SetLaneConcurrency(l, n) ==
  LET s == SetLimit(lanes[l], n)
  IN  /\ lanes' = [lanes EXCEPT ![l] = DrainLane(s)]
      /\ status' = [u \in Task |-> IF u \in StartedBy(s) THEN "running" ELSE status[u]]
      /\ configured' = [configured EXCEPT ![l] = n]

\* deleteLane: only a vacant lane goes.
DeleteLane(l) ==
  /\ Vacant(lanes[l])
  /\ lanes' = [lanes EXCEPT ![l] = NewLane]
  /\ configured' = [configured EXCEPT ![l] = 1]
  /\ UNCHANGED status

Next ==
  \/ \E t \in Task : Enqueue(t) \/ Settle(t)
  \/ \E l \in Lane : DeleteLane(l)
  \/ \E l \in Lane, n \in Limits : SetLaneConcurrency(l, n)

\* Every started task ends: the promise it returned is settled some day.
Fairness == \A t \in Task : WF_vars(Settle(t))

Spec == Init /\ [][Next]_vars /\ Fairness
-----------------------------------------------------------------------------
\* A lane's counter is the number of its tasks that are running, and its queue
\* holds exactly the tasks that wait for it, each once: no path loses a slot,
\* frees one twice, or forgets a task (l.58-75).
CountsAgree ==
  \A l \in Lane :
    /\ lanes[l].active = Cardinality(RunningIn(l))
    /\ { Queue(l)[i] : i \in 1..Len(Queue(l)) }
         = { t \in Task : status[t] = "queued" /\ LaneOf[t] = l }
    /\ Len(Queue(l)) = Cardinality({ t \in Task : status[t] = "queued" /\ LaneOf[t] = l })

\* Nobody waits while the lane has room: every operation that makes room ends
\* in a drain (l.57, 70, 74, 84, 107).
WorkConserving ==
  \A l \in Lane : Queue(l) # << >> => lanes[l].active >= lanes[l].maxConcurrent

\* Starting a task never takes a lane over its limit, even while a lowered
\* limit still finds more tasks running than it allows (l.57).
NoOverAdmission ==
  [][\A l \in Lane :
       RunningIn(l)' \ RunningIn(l) # {}
         => lanes'[l].active <= lanes'[l].maxConcurrent]_vars

\* First in, first out: once u waits and t is behind it, or has yet to come, t
\* neither starts nor gets ahead until u has started (l.58, 99).
Before(u, t) ==
  /\ LaneOf[u] = LaneOf[t] /\ status[u] = "queued"
  /\ \/ status[t] = "new"
     \/ \E i, j \in 1..Len(Queue(LaneOf[u])) :
          i < j /\ Queue(LaneOf[u])[i] = u /\ Queue(LaneOf[u])[j] = t
NoOvertaking ==
  [][\A u, t \in Task : Before(u, t) /\ status'[u] = "queued" => Before(u, t)']_vars

\* Every queued task is eventually settled when tasks end (l.66-77).
QueuedTaskSettles ==
  \A t \in Task : status[t] = "queued" ~> status[t] = "settled"

\* The header's promise (l.8, "Global Lane (内层, 可配置并发)"): with a limit of
\* n configured, a task waits only while n tasks of its lane are running.
ConfiguredConcurrencyIsUsed ==
  \A l \in Lane : Queue(l) # << >> => lanes[l].active >= configured[l]
=============================================================================
