# Verification project for RDK Studio's agent server

RDK Studio (`src/server`) runs an LLM agent, "RDKClaw", that works on development
boards over SSH. Chats arrive from the desktop UI, from Feishu and WeChat and from a
scheduler, all in one Node.js process. This directory holds TLA+ models of the
server's coordination logic, the TLC runs that check them and the theorems TLAPS
proves about them.

## 1. Inventory

### The parts and how they interact

| part | source (`src/server/…`) | state | operations |
|---|---|---|---|
| command queue | `agent/command-queue.ts` | Map lane → {active, queue, maxConcurrent} | enqueueInLane, setLaneConcurrency, deleteLane, the continuation of a task |
| device queue | `rdkclaw/device-queue.ts` | a lane per device, activeRuns, pendingCounts; per request: outcome, pendingConsumed, slotReleased | acquireSlot, abort listener, release, getStatus |
| chat orchestration | `rdkclaw/app.ts` | runAgents, cancelQueuedBeforeTs, cancelAllWave; one suspended generator per chat | streamChat, _executeChat, cancelRun, cancelAllRuns |
| agent run | `agent/agent.ts` | runAbortControllers, steeringQueues | constructor, run, abort, steer, spawnSubagent, startHeartbeat |
| autonomy scheduler | `rdkclaw/autonomy-scheduler.ts` | tasks (and their file), running, runIdByTaskId, cancelledByUser | create, approve, pause, stop, stopAll, resume, tick, runTask |
| channels | `agent/channels/*.ts`, `rdkclaw/*-channel-adapter.ts` | message merging, pending approvals | consume streamChat |
| agent loop | `agent/agent-loop.ts` | messages, pending steering, overflow level | turns, tool groups, compaction |
| session store | `agent/session.ts`, `session-write-lock.ts`, `session-tool-result-guard.ts` | cached entries, JSONL file, lock file, pending tool calls | append, rewrite, evict, acquire/release |
| persistent shell | `device-persistent-shell.ts`, `device-exec-scheduler.ts` | a mutex and a shell session per device, exec lanes | run, probe, retry, idle close |
| heartbeat | `agent/heartbeat.ts` | pending reason, timers | request, start, stop |
| runtime jobs | `runtime-jobs.ts` | job Maps and their file | persist, restore, purge |
| everything else | routes, monitors, caches, context heuristics, front end, Electron, vendored code | | see `components` in PROJECT.json, each with the reason it is left out |

A chat goes through three queues, one inside the other:

```
streamChat ── device slot (DeviceQueue, a lane "device:<id>" of limit 1)
   └─ setup: attachments, snapshot, workspace, prompt, new Agent(...)
        └─ agent.run ── session lane "session:<key>" (limit 1)
               └─ global lane "main" (limit RDKCLAW_MAX_CONCURRENT_RUNS or 8)
                      └─ agent loop
```

The queues share one Map (`lanes` in command-queue.ts). Who waits where is decided by
promises, abort signals and by a generator that is suspended for as long as its
consumer's loop body takes. The scheduler is one more consumer of streamChat.

### What is hard here

Node.js runs one function at a time, so there are no data races in the narrow sense;
the hazards are in what may happen **between** two stretches without an await: an abort
between two looks at the signal, a lease that arrives while a generator is suspended at
a `yield`, a status written from a value read before a long await, a consumer that
leaves early. `hazards` in PROJECT.json lists each at its line with the properties that
would catch it, or says why none does.

### What makes each part correct

* command queue: no slot or task is lost; nobody waits while there is room; the limit
  and the order of arrival are respected; every queued task settles.
* device queue: one holder at a time; the published status and count are true; a
  cancelled request never holds; everyone who asks is answered.
* chat orchestration: runs of a session never overlap; a run works on a device only
  while its chat has the slot; whoever is cancelled in the queue never runs; every
  chat ends; a slot is given back on every exit; an abort reaches the run.
* scheduler: a task runs only after an approval; three failures in a row stop it; the user's
  last command outlasts the run it met; every change is saved; an active task keeps
  being run.
* agent loop and session store: what a restart or the next chat loads is the conversation,
  in order and once each; every tool call is answered by exactly one result next to it;
  what was acknowledged stays on file; a lock left behind stops nobody.
* persistent shell: commands of a device do not overlap in it; no connection is left open
  without an owner; every call returns; a command whose caller was told it failed does
  not run afterwards.

## 2. Modules

| module | models | kind |
|---|---|---|
| `Lanes` | LaneState and what the queue's functions do to one lane, as constant operators | operators |
| `CommandQueue` | the whole queue: every lane, tasks that only end | state machine |
| `DeviceQueue` | acquireSlot and its lane, requests that abort and release | state machine |
| `DeviceSlot` | what the device queue promises: a line and a holder | abstract specification |
| `StudioChat` | a chat from streamChat to its end; EXTENDS DeviceQueue, adds session and global lane | composition |
| `TaskFile` | a file rewritten as a whole by calls of writeFile that may overlap, and crashes | state machine |
| `AutonomyScheduler` | the tasks the server runs by itself; EXTENDS TaskFile | state machine |
| `PersistentShell` | the interactive SSH session of one device, its mutex, its retries and its caller's fallback | state machine |
| `DeviceShell` | what the persistent shell promises: a line, a turn, one command at a time, answers that are earned | abstract specification |
| `SessionFile` | the JSONL file of a session and its parsed form, as constant operators | operators |
| `SessionStore` | what runs, the tool result guard and subagents write to a session, through the cache, the lock and the file; EXTENDS SessionFile | composition |
| `Transcript` | what the session store promises: the context a chat works with, what a restart would load, what has been acknowledged | abstract specification |
| `MC…` | constants for TLC | instances |
| `LanesProofs`, `CommandQueueProofs`, `DeviceQueueProofs`, `StudioChatProofs`, `AutonomySchedulerProofs`, `PersistentShellProofs`, `DeviceSlotProofs`, `SessionStoreProofs` | lemmas and theorems | proofs |

The grain of a step is the stretch of code JavaScript runs without an await. So
`Enqueue(t)` is push plus drain plus the synchronous first part of whatever task the
drain starts, and `LaneContinues(r)` is the decrement, the drain and the first half of
the next body. The queue's Map entry that does not exist and the fresh one
`getLaneState` builds are the same value `NewLane`, because every reader goes through
`getLaneState`.

Correspondence of the state:

* `lanes`, `sessions`, `main` — the entries of the Map in command-queue.ts, split by
  owner. `status[t]`, `entry[r]`, `run[r]` — the progress of an entry, which the code
  keeps in closures and pending promises.
* `outcome[r]` — what `slotOutcome` was resolved with; `settled` is `outcome # "none"`,
  `leased` is `outcome = "leased"`. `consumed[r]` is `pendingConsumed`, `released[r]` is
  the state of `slotReleased`.
* `gen[r]` — where the generator of request r is suspended. `"told"`, `"pulse"` and
  `"farewell"` are yields; `"racing"` is the Promise.race with the 500 ms timer;
  `"setup"` is the part of `_executeChat` under `abortable`, `"prepare"` the part that is
  not, `"sync"` the memory synchronisation, `"running"` everything after `agent.run`.
* `hit[r]` — the comparison `enqueuedAt <= cancelQueuedBeforeTs`, which is all the code
  does with the two times; `sameMs` — whether the clock still shows the millisecond of
  the last global stop, in which case a new chat is hit as well.
* `tasks`, `running`, `cancelled`, `file` — the scheduler's fields and its file; `phase[t]` is
  where the call of `runTask` for t is suspended (in the chat, or in the channel
  notifications after it), `due[t]` is the test of the tick on interval or cron fields, and
  `writes` are the unawaited calls of saveTasks. A tick is one step: its loop has no await.
  Whatever a chat does is `StudioChat`'s subject; here it ends, with or without an error.
* `asked[t]`, `streak[t]` and `overlapped` are history variables: the last command for a
  task, its failures in a row, and whether the last save met another one. No command takes
  failures off the row, except one that sets a task going whose row is full; a restart
  that finds the list as it was keeps both.
* `tail` and `after[c]` — AsyncMutex's chain of promises: `after[c]` is the call whose promise
  the one of c is chained to, None once that is settled. `timer[c]` is the acquire timeout, which
  is there while its `acquired.value` is false. `at[c]` is the await the function of c is
  suspended at; `"chained"` means that it has not started. `cand` and `retry` are the indices
  of the two loops, `using[c]` the `s` of runWithPassword, `current` the entry of the Map of sessions.
  `link[k]` is what is true of a connection and `dead[k]` what the server knows of it;
  `streamOpen[k]` says that the stream's close event is still to come, `exec[k]` which
  commands the remote shell of that connection is executing. `Line` puts the calls into the order of
  `after`, for `DeviceShell`.
* `mem[a]` and `pending[a]` — the SessionManager cache and the guard of the Agent of chat a: each chat
  builds an Agent of its own, so two chats of one conversation share only the file and its lock.
  `op[w]` is the append or rewrite that writer w awaits (the chat in the session lane is one
  writer, the subagent of a chat another, which goes through its parent's manager); `at` says at
  which await of acquireSessionWriteLock, persistEntry or rewriteSessionFile. `run` is the part of
  Agent.run, up to the finally block. An entry is its number in `entries`, a line of the
  file the number of its entry; the parent of an entry is the leaf of the manager it went through.
* `log`, `excused`, `damaged`, `holed` and `astray` are history variables: the conversation as
  acknowledged so far, and what has happened (a crash inside a line, a failed append, a summary
  beside a chat) that lets a property stop.
* `Context`, `Stored` (in `SessionStore`) — what `Transcript` sees of the store: the chain of parents of the
  cache of the chat in use, and what loading the file would give. While a retry rewrites the file,
  what was acknowledged before counts as stored (a crash then damages the file); when nobody works with a cache, or
  a failed append is not made good yet, the next one to work starts from the file.
* `configured[l]` is a history variable: what the last setLaneConcurrency asked for.

What is abstracted: contents of messages and events, the number of events of a run,
the reasons a setup fails, times (a timer may fire whenever its guard allows).
`Poll` has no disjunct for a non-zero exit code that rejects (device-persistent-shell.ts:470-480): the
agent's tools that use the persistent shell pass `rejectOnNonZeroExit: false` (rdk-tools.ts:743-793). `PartOf` takes a header that was written
without its newline for a whole header. `Throw` covers file operations that fail when the file is
opened; one that fails half-way, on a full disk for instance, is not modelled.
Channel consumers that pass no abort signal and await in their loop body are `Slow`;
those of them whose body may throw are `Quitting`. In feishu.ts the throwing call is
`sendText` at a queue_status or an approval request; at a queue_wait event the call is
caught, so `ConsumerQuits` has no disjunct for `"pulse"`.

Faulty variants: next to an operation a module may define a variant with a plausible
bug (`RoomPlusOne`, `AbortAllUnmarked`, …). No action uses them; each is what a property
has been seen to reject, and `mutants` in PROJECT.json says which.

## 3. Runs

| run | instance | what it shows |
|---|---|---|
| `CommandQueue` | 2 lanes, 4 + 1 tasks, limits 1–3 set at any time; 8 228 states | the six properties of the queue |
| `DeviceQueue` | 3 requests for one device, 1 for another; 14 179 states | the device queue's five invariants, that everyone is answered, and that it implements `DeviceSlot` |
| `StudioChat` | 2 chats of one conversation, 1 on another device, global limit 2, one slow and quitting consumer; 192 578 states | the nesting of the three queues |
| `Autonomy` | 1 cron task that needs approval, at most 2 writes in flight, crashes at any time; 54 132 states | commands against runs in progress, the breaker, the file, and that an active task keeps running |
| `PersistentShell` | 3 callers, one of them stoppable; 2 connections, 2 passwords, 1 retry, 1 broken link, 1 acquire timeout; 649 612 states | one command at a time, no orphaned connection, an idle timer whenever unused, the fallback's moment, that every call returns, and that the shell implements `DeviceShell` |
| `SessionStore` | 2 chats of one conversation, 4 entries besides flushed results and summaries, 1 subagent, 1 failed append, 1 crash; 526 286 states | the history a restart loads, the pairing of calls and results, the file, that every write returns, and that the store implements `Transcript` |
| `Configured` | as `CommandQueue` | violated: a limit set on an idle lane is forgotten |
| `ChatLeak` | as `StudioChat` | violated: an aborted chat can leave the device occupied |
| `ChatOverlap` | two conversations on one device | violated: two runs work on one device |
| `ChatAbort` | as `StudioChat` | violated: an abort can miss the run |
| `AutonomyPause` | 1 interval task without approval | violated: a failing run undoes a pause |
| `ShellAbandon` | as `PersistentShell`, no broken link | violated: a call that gave up the shell has its command run there all the same |

Bounds. Four tasks of one lane are enough for a lane to be over a lowered limit
(3 running, limit 1) and still have a task waiting, the largest situation in which
the queue's rules differ; the second lane shows that lanes do not touch each other.
Three requests of one device give a holder, a next one that may be cancelled in the
lane, and one behind it that must still be served. In `StudioChat` three requests
contend for each of the three lanes: two for the device and the session, and three
for a global limit of 2. Requests and tasks of the queues are used once, so none of their
counters needs a bound. In `Autonomy`, `MaxWrites` bounds the writes in flight (2 is what it
takes to overlap), and failureCount is counted up to `CircuitLimit`, the only number it
is compared with; one task is enough because tasks share nothing but the file, which is
written as a whole. In `PersistentShell` three callers are one in the shell, one that the mutex
spares the acquire timeout (`pending <= 1`) and one that it hits; the second connection
is the session that replaced one whose close event or idle timer is still to come; the device accepts the
first of two passwords, so that a transient error goes on with a wrong one; a link is
broken once and one timeout hits, and what they leave behind (a decremented `pending`, a stale
event) stays. In `SessionStore` the first chat writes tool calls, is cut off anywhere,
and the second loads what is there while the first one's subagent still reports; 4 entries are a
question, two calls' message, its results and an answer. The same instance with 5 entries, and with 3
chats, was checked as well, without a violation; it takes longer than a regular run should. There is no state constraint and no symmetry. Where a run says
`CHECK_DEADLOCK FALSE`, the system really stops once every
request is through; `PersistentShell` and `SessionStore` come to a rest when nobody calls any more
(or when the bounds are used up), `SessionStore` also when a subagent never ends.

`EveryChatEnds` assumes that no generator ends with the slot unreleased: the run
`ChatLeak` shows that this can happen, and then later chats of the device wait for
ever. Stating it as an implication keeps the remaining question alive: can the nesting
itself make somebody wait for ever?

Fairness. `CommandQueue`: a started task ends (the promise it returned settles).
`DeviceQueue`: promise continuations run, and a holder calls release, as the comment of
acquireSlot demands of its caller. `StudioChat` assumes less of the caller, for the
caller is now modelled: continuations run, a consumer comes back for the next event,
an agent run ends (turn limit, LLM and tool timeouts), and the setup's awaits end. Nothing
is assumed of clients, cancels, failures or clocks. `AutonomyScheduler`: the timer ticks,
writes are carried out, and a run's chat and notifications end. `PersistentShell`: a
function whose turn has come goes on, for every one of its awaits has a timeout (connect, READY, probe,
command, pause), and so has the one-shot exec; nothing is assumed of the network, of ssh2's
events or of idle timers. `SessionStore`: the loop of a run goes on to its end, the finally block is
executed, and file operations under way are completed; a subagent need not end.
All of it is weak fairness, for
each of these steps stays enabled until it is taken, with one exception: the bound on writes,
which the code does not have, can disable the end of a run for a while, so that one is strong.

## 4. Findings

The six runs that expect a violation are disagreements between the code and what it
says of itself; each finding in PROJECT.json quotes the line.

1. *A configured concurrency is lost on an idle lane* (`Configured`). `new Agent` calls
   setLaneConcurrency("main", 8); the drain in it deletes the vacant lane, limit included, and
   the next run creates it with limit 1. Chats run one at a time unless a run is
   active when an Agent is built.
2. *A cancelled chat can keep the device* (`ChatLeak`): suspended at its queue_wait
   event, it is leased the slot, then aborted; the loop's first test returns before the
   `try … finally` that releases.
3. *A run can outlive its chat* (`ChatOverlap`): a throwing consumer releases the device
   while the run works on.
4. *An abort can miss the run* (`ChatAbort`): between the last `abortable` and the
   listener, and while the run waits in a lane.
5. *A pause can be undone by the run it was made during* (`AutonomyPause`): a run that ends in
   error sets the status without looking at it.
6. *A command can be executed twice* (`ShellAbandon`): the acquire timeout rejects the caller, which
   then runs the command in a one-shot exec; its function stays in the mutex's chain and runs the
   same command in the persistent shell when its turn comes.

Two more disagreements have no run of their own; the models do what the code does.

* docs/prd-03-integration-operations.md:432 has `requiresApproval` ask for an approval before each
  execution, and line 455 has the tick set `pending_approval` for it. In autonomy-scheduler.ts
  `approved` is set once, by `approve` (l.206-212), no end of a run takes it back, and the tick (l.303-317) looks
  at the status alone: after one approval a task runs whenever it is due. What the code does keep is
  the weaker `UnapprovedNeverRuns`, no run before the first approval, and that is what the theorem
  `ApprovalRespected` says.
* The comment at device-persistent-shell.ts:82 has a caller that queues for the mutex give up after 15 s
  at most. A call that finds `pending <= 1` after its own increment gets no timer (l.99), though it
  may have the whole of another call before it; and as every timeout that hits leaves `pending` one too
  low for ever (l.94 and l.106 both decrement; theorem `PendingDrifts`), later calls are spared too. They
  wait as long as the calls before them take, and `EveryCallReturns` is all that is claimed of them.

`EveryChangeIsSaved` is restricted to saves that met no other: two that overlap may leave
the older list, or one whose tail is garbage, which a restart reads as no tasks at
all. The model contains these states; nothing in the repository promises more.

`ContextSurvivesRestart` and `CallsAreAnswered` stop at three things the store does not
defend against, and the model has them all. A line cut by a crash is glued to the next one, so that
both are lost (`damaged`). After an append that failed, the cache has an entry the file has not, and the
next entry's parent chain is broken there when the file is loaded again (`astray`, through
`holed`). And a subagent reports through its parent's SessionManager whenever it ends,
not in the session lane: its summary and the messages of a chat then under way are
siblings, the last line of the file is the leaf, and the next chat's history follows
only that one's parents: it misses either the summary or what the chat has said since.
No message of a chat is missing from the file in the last case, which is what `AcknowledgedStaysOnFile` says.
A summary can be: a retry puts its rewrite together before it asks for the lock, and
overwrites a summary that was appended and acknowledged while it waited.

## 5. Proofs

TLAPS proves, for every set of lanes, devices, scheduled tasks and connections, every finite set of queued
tasks, requests and calls and every limit (the assumptions are the named ASSUMEs of `CommandQueue`,
`DeviceQueue`, `StudioChat`, `TaskFile`, `AutonomyScheduler`, `PersistentShell` and `SessionStore`, nothing else; the scheduler's say that its
placeholders for no task and for a broken file are not records and not lists):

* `CommandQueueProofs`: `TypeOK`, `WorkConserving`, `CountsAgree` as invariants, `NoOverAdmission` and
  `NoOvertaking` as action properties. The invariant is `IInv`: types, `WorkConserving`, and for
  every lane `Consistent(l, lanes[l], status)`: its queue has no repetition, holds exactly
  the queued tasks, and `active` is the number of running ones. `CountsAgree` alone is not enough,
  because shifting a batch off a queue starts as many tasks as the batch is long only if
  no task is there twice. Every operation is a preparation (push, finish, set a limit)
  followed by a drain; `DrainStep` names that shape and each lemma is proved once for it.
* `DeviceQueueProofs`: `SlotTypeOK`, `MutualExclusion`, `StatusShowsHolder`, `PendingCountIsExact`,
  `CancelledNeverHolds`. The invariant is `Good(d)` for every device: the queue holds the queued
  requests once each, the lane is active exactly while one of its requests is holding or
  finishing (and there is at most one), the status names the holder, and the count is that of the
  requests that wait uncancelled. Mutual exclusion is not inductive without the lane's counter, nor the count
  without `consumed` (a request is counted out once because the flag agrees with its progress).
* `LanesProofs`: what a drain does to one lane, cited by both.
* `AutonomySchedulerProofs`: `TypeOK`, `BreakerHolds`, `StopWins`, `EveryChangeIsSaved`, and
  `UnapprovedNeverRuns`, which no run checks (see section 4). None is inductive: a run that fails sets its task to active, so the
  approval needs that a running task is approved (`RunGood`), and a restart takes whatever
  the file has, so it needs that no list in the file or in a write under way makes an
  unapproved task active (`FileSound`); a stop needs that the stopped run's id is in `cancelled`
  (`StopGood`); the breaker needs that the record counts at least the failures of the streak
  (`StreakGood`): no command takes any of them back, so a pause, a stop, a resume or a restart between two
  failures does not make the row shorter (`StreakKept`). `EveryChangeIsSaved` has an invariant of its own, `FileAgrees`: while no two
  writes met, the only write under way carries the current list.

* `StudioChatProofs`: `TypeOK`, `SessionRunsAreSerial`, `NestedLanesAgree`, `StayingConsumerKeepsSlot`,
  `CancelledInQueueNeverRuns`, and `StayingRunsAreSerial`, which no run checks: on one device two runs
  overlap only if the consumer of one has left. `ChatInv` is the device queue's invariant (its
  slot steps are DeviceQueue's actions, so its lemmas are cited), `MainGood` and `SessionGood` for the
  other two lanes (queue and counter agree with where the runs are), `Slots` (a released
  request was leased, a running lane body belongs to an unreleased request) and `Places`, which
  says for each place a generator can be at what its slot and its run can be. The properties are
  not inductive without it: that a run keeps its slot depends on who may release, and that on where
  the generator is. `ChatsShareTheSlot` is the refinement of `DeviceSlot` by the whole composition: a slot
  step of a chat is one of the queue, and every other step leaves line and holder as they are.
* `DeviceSlotProofs`: `QueueImplementsSlot`, the refinement of `DeviceSlot` by `DeviceQueue`. The line
  of a device is who has asked and neither got the slot nor been answered. Besides `IInv` it needs that a device's
  lane is served in the order of asking (`LanesServe`), and that an aborted request has its
  answer (`AbortsAnswer`), so that what the lane skips is not in the line any more.
* `PersistentShellProofs`: `TypeOK`, `NoOrphanConnection`, `OneCommandPerShell`, `UnusedSessionHasIdleTimer`,
  `FallbackOnlyWhenShellIsOut`, `ImplementsDeviceShell`. Everything rests on the mutex: `ChainInv` says
  that the calls that have not ended form a queue in which each is chained to the one before,
  so only its head can be at work (`OneFunctionWorks`). `OneCommandPerShell` needs besides that a command
  is in the shell of the session in use only (`ExecInv`), for a call that leaves a shell
  busy destroys it. `PendingDrifts` says what is true of `pending`: it is the number
  of waiting functions less that of the timeouts that have ever hit, for an abandoned call is counted down by
  its timeout and again when its turn comes (see section 4). `ShellKeepsItsPromise` is the refinement of `DeviceShell`: `LineIs` shows that the chain of promises
  determines the line, `SentInv` that a command written to a shell that is still there is running until its marker has come (without it
  an answer would not have to be earned), and `TurnFacts` what can be running in whose turn. A call's `Start` is `Begin`,
  its written command `Execute`, the marker `Finish`, the end of its function `Return`, and every retry, probe that
  fails, destroyed session or closed stream `HangUp` or nothing. In the model a shell whose link has broken runs nothing any more:
  what a device does with the process of a lost connection is not the server's to say.
* `SessionStoreProofs`: `TypeOK`, `NoLineTwice`, `AcknowledgedStaysOnFile`, `ContextSurvivesRestart`,
  `CallsAreAnswered`, `ImplementsTranscript`. The invariant `Inv` adds to the types
  that parents are older entries (`Refers`), what a run and a subagent can be awaiting
  (`RunControl`, and `SubControl`: a subagent only ever adds a line, for its parent's session is on file),
  whose entry an append carries (`Own`), that no list of entries repeats one, and an entry whose
  line is yet to be written is nowhere but in its own manager (`Distinct`), that a run's entry is in
  its memory until it is on file (`Kept`), and that what was acknowledged is on file, where a
  file without header has been acknowledged nothing (`OnFile`). `Without` and `Path` are recursive functions over the positions
  of a list or the numbers of entries. What they return is shown for every length all the
  same: `LeastNumber` takes the smallest counterexample of a bounded set, and `UpTo` makes an
  induction up to a number of it, without the library's induction theorems.
  `ContextSurvivesRestart` rests on a second invariant, `HistoryInv`. A chat that is new has no pending
  calls and no failed appends (`FreshChats`). As long as no crash has cut a line or a rewrite (`damaged`) and no
  entry was put beside another one or after one that is not on file (`astray`), one manager at a time has an entry under way (`OneWriter`), and the
  file (`FileAgrees`), the memory of the chat in use (`MemoryAgrees`) and the log of what was
  acknowledged are one chain of entries, each the parent of the next, up to the one entry or rewrite under way.
  `PathOfChain` shows that what a manager loads from such a file is that chain.
  `CallsAreAnswered` needs a third one, `AnswerInv`, on what was acknowledged and what is under way together. Only
  results answer, and only calls of an earlier entry (`ResultsAnswer`); a subagent calls no tools, and between
  chats nothing is pending (`NoUse`); the open calls are all of one message (`OneUse`); an append takes its answers off the pending calls first
  (`AppendPairs`); a chat waits for tools only after
  calls (`ToolsWait`); and each call in the log either has its one result behind it, with results of the same
  message between, or is in `OpenCalls`: pending in the guard, or answered by the append under way (`Pairing`). The guard's
  flush, appended before anything else is said, is what keeps `Pairing` when a run is cut off; a retry keeps
  it because it drops a suffix from a user's message on (`RegenerateKeeps`).
  `StoreKeepsItsPromise` is the refinement of `Transcript`. From the three invariants `Views` follows: it says for each
  thing a writer can be awaiting how context, file and log relate (equal; the context one entry ahead; the log one
  entry behind; the context a start of the others). `TranscriptStep` then goes through the actions: the first
  await of an append is `Put`, its line `Keep`, its return or a crash behind the line `Acknowledge`, a retry `TakeBack` and, when the file
  is written, `Rewrite`, a throw or a crash `FallBack`; the lock's steps, reads and reports of subagents stutter.

Only model-checked: the liveness properties (`QueuedTaskSettles`, `EveryoneIsAnswered`, `EveryChatEnds`,
`DueTaskRunsAgain`, `EveryCallReturns`, `EveryWriteReturns`), because liveness under fairness and ENABLED are
beyond the installed provers. Every other property of a passing run is stated by a theorem.

## 6. Plan

In order of what the system stands or falls with:

1. `Lanes`, `CommandQueue`, `DeviceQueue`, `DeviceSlot`, `StudioChat` — done and proved, the
   refinement of `DeviceSlot` included.
2. `TaskFile`, `AutonomyScheduler` — done and proved. Left: what may pause a task (a stop of an
   idle task is remembered, l.221), and the scheduler composed with the chat it starts.
3. `SessionFile`, `SessionStore`, `Transcript` — done and proved: turns, tool groups, the guard, retries,
   subagents, lock, crashes, and the refinement of `Transcript`.
   Left: compaction entries, eviction of cached sessions, a second process (its locks would be
   stale only when its PID is unused).
4. `PersistentShell`, `DeviceShell` — done and proved, the refinement included. Left: the exec scheduler's lanes around it.
5. `HeartbeatWake` and `RuntimeJobs`.
6. The list of messages the loop sends to the model (truncation, steering after a cut output).

## 7. Not modelled

Of the agent loop: streaming, compaction and the recovery from overflow, that is the list of messages sent
to the model (agent-loop.ts l.1116, l.1154); the model has what is written to the session. Of the
session store: compaction entries, eviction, files of older versions, `clear`, two
server processes on one file (a PID used again makes a dead owner look alive until the 30 minutes are
over), and a stamp of the lock that cannot be written. Of the scheduler: what it shares with
chats of users. Not at all: the heartbeat, the runtime jobs, the exec scheduler.

Texts, prompts, model providers, SSH itself, rendering; the heuristics of context pruning and
memory (data, not control); vendored projects. PROJECT.json gives the reason for
each part. By lines, most of the repository is of that kind: vendored agents, the browser
front end and skill bundles; `map` covers the coordination logic of the server.
