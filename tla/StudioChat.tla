----------------------------- MODULE StudioChat -----------------------------
(***************************************************************************)
(* The life of one chat request, from RDKClawApp.streamChat to its end     *)
(* (src/server/rdkclaw/app.ts), composed with the device slot it waits for *)
(* (DeviceQueue) and with the two lanes its agent run is nested in         *)
(* (src/server/agent/agent.ts, run): session lane, then global lane.       *)
(*                                                                         *)
(* streamChat is an async generator.  Between two calls of next() it is    *)
(* suspended at a yield, for as long as its consumer's loop body awaits.   *)
(* The SSE route consumes synchronously; the Feishu channel awaits network *)
(* calls in the body (Slow) and one of them may throw, which makes         *)
(* `for await` call return() on the generator (Quitting).                  *)
(***************************************************************************)
EXTENDS DeviceQueue

CONSTANTS
  Session,   \* session keys
  SessionOf, \* request -> its session key
  MaxRuns,   \* what Agent's constructor passes to setLaneConcurrency
  Slow,      \* requests of messaging channels: the consumer awaits in its loop
             \* body and passes no abort signal
  Quitting   \* those of them whose loop body may throw

ASSUME MaxRunsAssumption  == MaxRuns \in Nat \ {0}
ASSUME ConsumerAssumption == Slow \subseteq Request /\ Quitting \subseteq Slow
\* studioAgentSessionKey puts the device into the key.
ASSUME SessionAssumption  ==
  /\ SessionOf \in [Request -> Session]
  /\ \A r, s \in Request : SessionOf[r] = SessionOf[s] => Target[r] = Target[s]

VARIABLES
  gen,         \* request -> where its generator is
  hit,         \* request -> enqueuedAt <= cancelQueuedBeforeTs
  sameMs,      \* the clock still shows the millisecond of the last cancelAllRuns
  sessions,    \* session -> LaneState of its session lane
  main,        \* LaneState of the global lane
  run,         \* request -> where its agent run is
  runAborted   \* request -> runAbortController.signal.aborted of its run

chatVars == <<gen, hit, sameMs, sessions, main, run, runAborted>>
vars     == <<slotVars, chatVars>>

\* "told", "pulse" and "farewell" are suspended at a yield: the queue_status,
\* the 5 s queue_wait progress, and a run_complete of a run that never started.
GenState == {"new", "told", "racing", "pulse", "farewell",
             "setup", "prepare", "sync", "running", "ended"}
\* "session", "global": queued in that lane; "active": the run's body executes;
\* "over": it has left the global lane; "settled": agent.run's promise is.
RunState == {"none", "session", "global", "active", "over", "settled"}

TypeOK ==
  /\ SlotTypeOK
  /\ gen \in [Request -> GenState]
  /\ hit \in [Request -> BOOLEAN]
  /\ sameMs \in BOOLEAN
  /\ sessions \in [Session -> LaneState(Request)]
  /\ main \in LaneState(Request)
  /\ run \in [Request -> RunState]
  /\ runAborted \in [Request -> BOOLEAN]

Init ==
  /\ SlotInit
  /\ gen = [r \in Request |-> "new"]
  /\ hit = [r \in Request |-> FALSE]
  /\ sameMs = FALSE
  /\ sessions = [k \in Session |-> NewLane]
  /\ main = NewLane
  /\ run = [r \in Request |-> "none"]
  /\ runAborted = [r \in Request |-> FALSE]

GoTo(r, phase) == gen' = [gen EXCEPT ![r] = phase]
runVars == <<sessions, main, run, runAborted>>
-----------------------------------------------------------------------------
(* The agent run: enqueueInLane(session, () => enqueueInLane(global, ...)). *)

\* Request r's entry leaves the queue of its session lane, whose task enqueues
\* it in the global lane m at once; m drains.  Started: who becomes active.
IntoMain(m, r) == DrainLane(PushEntry(m, r))
RunsOf(started, r, phase) ==
  [u \in Request |-> IF u \in started THEN "active"
                     ELSE IF u = r THEN phase ELSE run[u]]

\* new Agent(...) calls setLaneConcurrency("main", MaxRuns), which starts runs
\* that wait there - or is forgotten when the lane is vacant.
NewAgentMain    == DrainLane(SetLimit(main, MaxRuns))
NewAgentStarts  == StartedBy(SetLimit(main, MaxRuns))

\* Faulty variant of SubmitRun: the run goes straight into the global lane.
SubmitUnserialized(r, m, startedBefore) ==
  /\ main' = IntoMain(m, r)
  /\ run' = RunsOf(startedBefore \union StartedBy(PushEntry(m, r)), r, "global")
  /\ UNCHANGED sessions

\* agent.run for r with the global lane m; startedBefore became active already.
SubmitRun(r, m, startedBefore) ==
  LET k == SessionOf[r]
      s == PushEntry(sessions[k], r)
      nested == r \in StartedBy(s)
      started == startedBefore \union (IF nested THEN StartedBy(PushEntry(m, r)) ELSE {})
  IN  /\ sessions' = [sessions EXCEPT ![k] = DrainLane(s)]
      /\ main' = IF nested THEN IntoMain(m, r) ELSE m
      /\ run' = RunsOf(started, r, IF nested THEN "global" ELSE "session")

\* Faulty variant of RunBodyEnds: the slot in the global lane is not given back.
RunBodyEndsUncounted(r) ==
  /\ run[r] = "active"
  /\ main' = DrainLane(main)
  /\ run' = RunsOf(StartedBy(main), r, "over")
  /\ UNCHANGED <<slotVars, gen, hit, sameMs, sessions, runAborted>>

\* The body ends (finished, failed or aborted): the global lane goes on.
RunBodyEnds(r) ==
  /\ run[r] = "active"
  /\ main' = DrainLane(FinishEntry(main))
  /\ run' = RunsOf(StartedBy(FinishEntry(main)), r, "over")
  /\ UNCHANGED <<slotVars, gen, hit, sameMs, sessions, runAborted>>

\* The session lane's continuation: its next entry goes into the global lane;
\* then agent.run's promise settles and runAgents forgets the run.
SessionLaneContinues(r) ==
  LET k == SessionOf[r]
      s == FinishEntry(sessions[k])
  IN  /\ run[r] = "over"
      /\ sessions' = [sessions EXCEPT ![k] = DrainLane(s)]
      /\ \/ /\ StartedBy(s) = {}
            /\ run' = RunsOf({}, r, "settled")
            /\ UNCHANGED main
         \/ \E u \in StartedBy(s) :
              /\ main' = IntoMain(main, u)
              /\ run' = [RunsOf(StartedBy(PushEntry(main, u)), u, "global")
                           EXCEPT ![r] = "settled"]
      /\ UNCHANGED <<slotVars, gen, hit, sameMs, runAborted>>
-----------------------------------------------------------------------------
(* The generator up to the slot.                                           *)

\* The acquireSlot call and the first turn of the wait loop, which returns at
\* once when the signal is already aborted.
AskForSlot(r) ==
  /\ AcquireSlot(r)
  /\ hit' = [hit EXCEPT ![r] = sameMs]
  /\ GoTo(r, IF aborted[r] THEN "ended" ELSE "racing")

\* streamChat: an aborted request ends at once, a busy device is announced first.
StreamChat(r) ==
  /\ gen[r] = "new"
  /\ \/ aborted[r] /\ GoTo(r, "ended") /\ UNCHANGED <<slotVars, hit>>
     \/ /\ ~aborted[r] /\ activeRuns[Target[r]] # None
        /\ GoTo(r, "told") /\ UNCHANGED <<slotVars, hit>>
     \/ ~aborted[r] /\ activeRuns[Target[r]] = None /\ AskForSlot(r)
  /\ UNCHANGED <<sameMs, runVars>>

AfterQueueStatus(r) ==
  gen[r] = "told" /\ AskForSlot(r) /\ UNCHANGED <<sameMs, runVars>>

\* The race is won by the 500 ms timer and 5 s have passed: a queue_wait event
\* is yielded and the consumer takes its time.
QueuePulse(r) ==
  /\ r \in Slow /\ gen[r] = "racing" /\ outcome[r] = "none"
  /\ GoTo(r, "pulse")
  /\ UNCHANGED <<slotVars, hit, sameMs, runVars>>

\* next() after the pulse: the top of the loop looks at the signal first and
\* returns - without asking whether the slot has been leased meanwhile.
AfterPulse(r) ==
  /\ gen[r] = "pulse"
  /\ GoTo(r, IF aborted[r] THEN "ended" ELSE "racing")
  /\ UNCHANGED <<slotVars, hit, sameMs, runVars>>

\* Faulty variant of GotSlot: the signal is not looked at once the slot is there.
GotSlotUnasked(r) ==
  /\ gen[r] = "racing" /\ outcome[r] # "none"
  /\ GoTo(r, IF hit[r] THEN "farewell" ELSE "setup")
  /\ UNCHANGED <<slotVars, hit, sameMs, runVars>>

\* The race is won by the slot.  An aborted request gives it straight back (a
\* cancelled one has nothing to give); one that cancelAllRuns overtook says
\* goodbye; the others enter _executeChat.
GotSlot(r) ==
  /\ gen[r] = "racing" /\ outcome[r] # "none"
  /\ \/ /\ aborted[r] /\ GoTo(r, "ended")
        /\ IF outcome[r] = "leased" THEN Release(r) ELSE UNCHANGED slotVars
     \/ ~aborted[r] /\ GoTo(r, IF hit[r] THEN "farewell" ELSE "setup") /\ UNCHANGED slotVars
  /\ UNCHANGED <<hit, sameMs, runVars>>
-----------------------------------------------------------------------------
(* The generator with the slot; every way out passes `finally` (l.1229).   *)

Leave(r) == Release(r) /\ GoTo(r, "ended") /\ UNCHANGED <<hit, sameMs, runVars>>

Farewell(r) == gen[r] = "farewell" /\ Leave(r)

\* Attachments, snapshot, workspace and connectivity, all under abortable();
\* readDevices and fetchInstantUrlContents after them are not.
SetupDone(r) ==
  /\ gen[r] = "setup" /\ ~aborted[r] /\ GoTo(r, "prepare")
  /\ UNCHANGED <<slotVars, hit, sameMs, runVars>>

SetupAborted(r) ==
  /\ gen[r] \in {"setup", "sync"} /\ aborted[r] /\ GoTo(r, "farewell")
  /\ UNCHANGED <<slotVars, hit, sameMs, runVars>>

SetupFails(r) == gen[r] \in {"setup", "prepare", "sync"} /\ Leave(r)

\* The Agent is built; its memory is then synchronised under abortable(), ...
BuildAgent(r) ==
  /\ gen[r] = "prepare" /\ GoTo(r, "sync")
  /\ main' = NewAgentMain
  /\ run' = RunsOf(NewAgentStarts, r, "none")
  /\ UNCHANGED <<slotVars, hit, sameMs, sessions, runAborted>>

SyncDone(r) ==
  /\ gen[r] = "sync" /\ ~aborted[r] /\ GoTo(r, "running")
  /\ SubmitRun(r, main, {})
  /\ UNCHANGED <<slotVars, hit, sameMs, runAborted>>

\* ... unless it is a quick or trivial message: then the run is submitted right
\* away, and nobody looks at the signal again.
BuildAgentAndRun(r) ==
  /\ gen[r] = "prepare" /\ GoTo(r, "running")
  /\ SubmitRun(r, NewAgentMain, NewAgentStarts)
  /\ UNCHANGED <<slotVars, hit, sameMs, runAborted>>

\* The run has settled and its last events are out.
RunDone(r) == gen[r] = "running" /\ run[r] = "settled" /\ Leave(r)

\* The consumer's body throws at an event of the run, or at the queue_status:
\* return() runs the finally blocks; nothing stops the agent run.
ConsumerQuits(r) ==
  /\ r \in Quitting
  /\ \/ gen[r] = "told" /\ GoTo(r, "ended") /\ UNCHANGED <<slotVars, hit, sameMs, runVars>>
     \/ gen[r] = "running" /\ Leave(r)
-----------------------------------------------------------------------------
(* Cancelling.                                                             *)

\* runAgents holds a run from its submission until it has settled.
Registered(r) == run[r] \notin {"none", "settled"}

\* Agent.abort: aborts the controllers that exist, and a run has one only
\* while its body executes.
AgentAbort(S) ==
  runAborted' = [r \in Request |-> runAborted[r] \/ (r \in S /\ run[r] = "active")]

\* The client of a chat goes away.  The listener that calls agent.abort() is
\* there while the run is registered.
ClientAborts(r) ==
  /\ r \notin Slow
  /\ gen[r] # "ended" \/ Registered(r)
  /\ Abort(r)
  /\ AgentAbort({r})
  /\ UNCHANGED <<gen, hit, sameMs, sessions, main, run>>

CancelRun(r) ==
  /\ Registered(r) /\ ~runAborted[r]
  /\ AgentAbort({r})
  /\ UNCHANGED <<slotVars, gen, hit, sameMs, sessions, main, run>>

\* "Stop everything": remembers the time, aborts the wave every stream started
\* so far listens to, and every registered agent.
CancelAllRuns ==
  /\ \E r \in Request : gen[r] \notin {"new", "ended"} \/ Registered(r)
  /\ sameMs' = TRUE
  /\ hit' = [r \in Request |-> hit[r] \/ (outcome[r] # "none" \/ entry[r] # "none")]
  /\ AbortAll({ r \in Request : gen[r] # "new" })
  /\ AgentAbort({ r \in Request : Registered(r) })
  /\ UNCHANGED <<gen, sessions, main, run>>

ClockTicks ==
  sameMs /\ sameMs' = FALSE /\ UNCHANGED <<slotVars, gen, hit, runVars>>
-----------------------------------------------------------------------------
SlotStep(r)  == (BodyReturns(r) \/ LaneContinues(r)) /\ UNCHANGED chatVars
RunStep(r)   == RunBodyEnds(r) \/ SessionLaneContinues(r)
WaitStep(r)  == AfterQueueStatus(r) \/ AfterPulse(r) \/ GotSlot(r)
SetupStep(r) == SetupDone(r) \/ SetupAborted(r) \/ BuildAgent(r) \/ SyncDone(r) \/ BuildAgentAndRun(r)
EndStep(r)   == Farewell(r) \/ RunDone(r)
Environment(r) == StreamChat(r) \/ QueuePulse(r) \/ SetupFails(r) \/ ConsumerQuits(r)
                  \/ ClientAborts(r) \/ CancelRun(r)

Next ==
  \/ \E r \in Request :
       SlotStep(r) \/ RunStep(r) \/ WaitStep(r) \/ SetupStep(r) \/ EndStep(r) \/ Environment(r)
  \/ CancelAllRuns
  \/ ClockTicks

\* Promise continuations run, consumers come back for the next event, setup
\* awaits have timeouts, and a run ends (maxTurns, LLM and tool timeouts).
Fairness ==
  \A r \in Request :
    /\ WF_vars(SlotStep(r))
    /\ WF_vars(RunStep(r))
    /\ WF_vars(WaitStep(r))
    /\ WF_vars(SetupStep(r))
    /\ WF_vars(EndStep(r))

Spec == Init /\ [][Next]_vars /\ Fairness
-----------------------------------------------------------------------------
\* Runs of one session never overlap, whatever devices and channels they come
\* from, and whatever becomes of their generators (command-queue.ts:7).
SessionRunsAreSerial ==
  \A r, s \in Request :
    run[r] \in {"global", "active", "over"} /\ run[s] \in {"global", "active", "over"}
      /\ SessionOf[r] = SessionOf[s] => r = s

\* The three nested lanes agree with the runs in them: the global lane counts
\* and queues exactly the runs whose session lane lets them through.
NestedLanesAgree ==
  /\ main.active = Cardinality({ r \in Request : run[r] = "active" })
  /\ { main.queue[i] : i \in 1..Len(main.queue) } = { r \in Request : run[r] = "global" }
  /\ main.active <= MaxRuns

\* As long as its consumer stays, a run works on the device only while its
\* request has the slot, so runs on one device exclude each other.
StayingConsumerKeepsSlot ==
  \A r \in Request \ Quitting : Registered(r) => entry[r] = "holding" /\ ~released[r]

\* Cancelled while it waited for the device, a request never gets to its run.
CancelledInQueueNeverRuns ==
  [][\A r \in Request :
       aborted[r] /\ gen[r] \in {"told", "racing", "pulse"}
         => gen'[r] \in {gen[r], "racing", "ended"}]_vars

\* No request waits for ever in the three nested lanes, unless a generator has
\* ended with the slot unreleased.
HeldByEnded(r) == gen[r] = "ended" /\ entry[r] = "holding" /\ ~released[r]
EveryChatEnds ==
  [](\A r \in Request : ~HeldByEnded(r))
    => \A r \in Request : (gen[r] = "racing") ~> (gen[r] = "ended")
-----------------------------------------------------------------------------
\* app.ts:318: a cancelled request that still queues "gives the device lane
\* back".  An ended generator would then never leave a leased slot behind.
EndedChatFreesDevice == \A r \in Request : ~HeldByEnded(r)

\* device-queue.ts:7: messages to one device are strictly serial, so at most
\* one run works on a device.
DeviceRunsAreSerial ==
  \A r, s \in Request :
    run[r] = "active" /\ run[s] = "active" /\ Target[r] = Target[s] => r = s

\* app.ts:318: a request cancelled during setup is "cut off": no run goes on
\* with an abort signal that has not reached it.
AbortReachesTheRun ==
  \A r \in Request : aborted[r] /\ run[r] = "active" => runAborted[r]
=============================================================================
