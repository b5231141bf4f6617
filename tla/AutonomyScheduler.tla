------------------------- MODULE AutonomyScheduler -------------------------
(***************************************************************************)
(* src/server/rdkclaw/autonomy-scheduler.ts: tasks that the server runs by *)
(* itself, as chats, when they are due; commands of the user that arrive   *)
(* while a run is under way; the task file and restarts.                   *)
(*                                                                         *)
(* A run is one call of runTask: from the tick that starts it to the end   *)
(* of its chat (what happens in between is StudioChat's subject; a stopped *)
(* run ends like any other), then the notification of its channels, then   *)
(* `finally`.                                                              *)
(***************************************************************************)
EXTENDS TaskFile

CONSTANTS Task,          \* task ids
          NeedsApproval, \* those created with requiresApproval
          Cron,          \* those with a cron expression; the others have an interval
          Absent         \* no such task

ASSUME TaskAssumption == NeedsApproval \subseteq Task /\ Cron \subseteq Task

VARIABLES
  tasks,      \* task -> its record, or Absent
  due,        \* task -> nextRunAt is past, or the cron expression matches
  running,    \* the set `running`
  phase,      \* task -> where its runTask is
  cancelled,  \* the set cancelledByUser
  asked,      \* history: the user's last command for the task
  streak      \* history: runs that failed in a row; a breaker the user closed does not count

schedVars == <<tasks, due, running, phase, cancelled, asked, streak>>
vars == <<fileVars, schedVars>>

CircuitLimit == 3
TaskStatus == {"active", "paused", "pending_approval", "circuit_open"}
\* failureCount is only compared with the limit: it is counted up to there.
TaskRecord == [status: TaskStatus, approved: BOOLEAN, failureCount: 0..CircuitLimit]
TaskList == [Task -> TaskRecord \union {Absent}]

ASSUME AbsentAssumption == Absent \notin TaskRecord
ASSUME FileAssumption == {Empty, Garbled} \intersect TaskList = {}

\* "chat": in `for await (... streamChat(...))`; "closing": after the result was
\* recorded, until `finally` has run.
Phase == {"idle", "chat", "closing"}

TypeOK ==
  /\ FileTypeOK(TaskList)
  /\ tasks \in TaskList
  /\ due \in [Task -> BOOLEAN]
  /\ running \subseteq Task
  /\ phase \in [Task -> Phase]
  /\ cancelled \subseteq Task
  /\ asked \in [Task -> {"run", "pause", "stop"}]
  /\ streak \in [Task -> 0..CircuitLimit]

Exists(t) == tasks[t] # Absent
Active(t) == Exists(t) /\ tasks[t].status = "active"
UpTo(n)   == IF n < CircuitLimit THEN n + 1 ELSE CircuitLimit
NoTasks   == [t \in Task |-> Absent]
-----------------------------------------------------------------------------
Init ==
  /\ FileInit
  /\ tasks = NoTasks
  /\ due = [t \in Task |-> FALSE]
  /\ running = {}
  /\ phase = [t \in Task |-> "idle"]
  /\ cancelled = {}
  /\ asked = [t \in Task |-> "run"]
  /\ streak = [t \in Task |-> 0]

\* this.tasks = list; this.saveTasks().  A command with an unknown id changes
\* nothing, and no later task gets that id.
SetTasks(list) == tasks' = list /\ Save(list)
Command(S, c)  == asked' = [t \in Task |-> IF t \in S THEN c ELSE asked[t]]

\* What the user sets going: failures so far go on counting, unless there were
\* enough of them to open the circuit, which this closes.
SetGoing(t) ==
  /\ Command({t}, "run")
  /\ streak' = [streak EXCEPT ![t] = IF @ = CircuitLimit THEN 0 ELSE @]

Create(t) ==
  /\ ~Exists(t)
  /\ SetTasks([tasks EXCEPT ![t] =
       [status |-> IF t \in NeedsApproval THEN "pending_approval" ELSE "active",
        approved |-> t \notin NeedsApproval, failureCount |-> 0]])
  /\ due' = [due EXCEPT ![t] = FALSE]
  /\ Command({t}, "run")
  /\ streak' = [streak EXCEPT ![t] = 0]
  /\ UNCHANGED <<running, phase, cancelled>>

Approve(t) ==
  /\ Exists(t)
  /\ SetTasks([tasks EXCEPT ![t].approved = TRUE, ![t].status = "active"])
  /\ SetGoing(t)
  /\ UNCHANGED <<due, running, phase, cancelled>>

\* Faulty variant of Pause: the failures are forgotten.
PauseForgets(t) ==
  /\ Exists(t)
  /\ SetTasks([tasks EXCEPT ![t].status = "paused", ![t].failureCount = 0])
  /\ Command({t}, "pause")
  /\ UNCHANGED <<due, running, phase, cancelled, streak>>

Pause(t) ==
  /\ Exists(t)
  /\ SetTasks([tasks EXCEPT ![t].status = "paused"])
  /\ Command({t}, "pause")
  /\ UNCHANGED <<due, running, phase, cancelled, streak>>

\* stop: also interrupts the run, if there is one and its id is known.
Stop(t) ==
  /\ Exists(t)
  /\ cancelled' = cancelled \union {t}
  /\ SetTasks([tasks EXCEPT ![t].status = "paused"])
  /\ Command({t}, "stop")
  /\ UNCHANGED <<due, running, phase, streak>>

StopAll ==
  LET S == { t \in Task : Exists(t) /\ (Active(t) \/ t \in running) }
  IN  /\ S # {}
      /\ cancelled' = cancelled \union S
      /\ SetTasks([t \in Task |-> IF t \in S THEN [tasks[t] EXCEPT !.status = "paused"]
                                  ELSE tasks[t]])
      /\ Command(S, "stop")
      /\ UNCHANGED <<due, running, phase, streak>>

\* resume: an interval starts anew.
Resume(t) ==
  /\ Exists(t)
  /\ SetTasks([tasks EXCEPT ![t].status =
       IF t \in NeedsApproval /\ ~tasks[t].approved THEN "pending_approval" ELSE "active"])
  /\ due' = [due EXCEPT ![t] = t \in Cron /\ @]
  /\ SetGoing(t)
  /\ UNCHANGED <<running, phase, cancelled>>
-----------------------------------------------------------------------------
BecomesDue(t) ==
  /\ Exists(t) /\ ~due[t]
  /\ due' = [due EXCEPT ![t] = TRUE]
  /\ UNCHANGED <<fileVars, tasks, running, phase, cancelled, asked, streak>>

\* The minute of a cron task is over.  Ticks come every 10 s, so one of them
\* has seen it: the task was not active or its last run was still going on.
CronPasses(t) ==
  /\ t \in Cron /\ due[t] /\ (~Active(t) \/ t \in running)
  /\ due' = [due EXCEPT ![t] = FALSE]
  /\ UNCHANGED <<fileVars, tasks, running, phase, cancelled, asked, streak>>

Tick ==
  LET S == { t \in Task : Active(t) /\ due[t] /\ t \notin running }
  IN  /\ S # {}
      /\ running' = running \union S
      /\ phase' = [t \in Task |-> IF t \in S THEN "chat" ELSE phase[t]]
      /\ UNCHANGED <<fileVars, tasks, due, cancelled, asked, streak>>

\* What the end of a run makes of its task.
Stopped(r)   == [r EXCEPT !.failureCount = 0, !.status = "paused"]
Succeeded(r) == [r EXCEPT !.failureCount = 0]

Failed(r) ==
  [r EXCEPT !.failureCount = UpTo(@),
            !.status = IF UpTo(r.failureCount) >= CircuitLimit THEN "circuit_open" ELSE "active"]

\* Faulty variants of RunEnds: the stop is not asked about; the result is not saved.
RunEndsRegardless(t, ok) ==
  /\ phase[t] = "chat"
  /\ phase' = [phase EXCEPT ![t] = "closing"]
  /\ SetTasks([tasks EXCEPT ![t] = IF ok THEN Succeeded(@) ELSE Failed(@)])
  /\ due' = [due EXCEPT ![t] = FALSE]
  /\ streak' = [streak EXCEPT ![t] = IF ok THEN 0 ELSE UpTo(@)]
  /\ UNCHANGED <<running, cancelled, asked>>

RunEndsUnsaved(t, ok) ==
  /\ phase[t] = "chat"
  /\ phase' = [phase EXCEPT ![t] = "closing"]
  /\ cancelled' = cancelled \ {t}
  /\ tasks' = [tasks EXCEPT ![t] = IF t \in cancelled THEN Stopped(@)
                                   ELSE IF ok THEN Succeeded(@) ELSE Failed(@)]
  /\ due' = [due EXCEPT ![t] = FALSE]
  /\ streak' = [streak EXCEPT ![t] = IF ok \/ t \in cancelled THEN 0 ELSE UpTo(@)]
  /\ UNCHANGED <<fileVars, running, asked>>

\* The chat is over, with or without an error; a stop outweighs both.
RunEnds(t, ok) ==
  /\ phase[t] = "chat"
  /\ phase' = [phase EXCEPT ![t] = "closing"]
  /\ cancelled' = cancelled \ {t}
  /\ SetTasks([tasks EXCEPT ![t] = IF t \in cancelled THEN Stopped(@)
                                   ELSE IF ok THEN Succeeded(@) ELSE Failed(@)])
  /\ due' = [due EXCEPT ![t] = FALSE]
  /\ streak' = [streak EXCEPT ![t] = IF ok \/ t \in cancelled THEN 0 ELSE UpTo(@)]
  /\ UNCHANGED <<running, asked>>

\* Faulty variant of RunCloses: the task is not taken out of `running`.
RunStaysOpen(t) ==
  /\ phase[t] = "closing"
  /\ phase' = [phase EXCEPT ![t] = "idle"]
  /\ UNCHANGED <<fileVars, tasks, due, running, cancelled, asked, streak>>

RunCloses(t) ==
  /\ phase[t] = "closing"
  /\ phase' = [phase EXCEPT ![t] = "idle"]
  /\ running' = running \ {t}
  /\ UNCHANGED <<fileVars, tasks, due, cancelled, asked, streak>>

\* Faulty variant of ReadTasks: what is not a list of tasks is not refused.
ReadAnything == file

\* Crash and restart: the constructor reads the file; one it cannot parse counts
\* as no tasks.  Commands and failures are remembered where it finds the list as it
\* was, and only there.
ReadTasks == IF file \in {Empty, Garbled} THEN NoTasks ELSE file
Restart ==
  /\ CrashWrites
  /\ tasks' = ReadTasks
  /\ running' = {} /\ cancelled' = {}
  /\ phase' = [t \in Task |-> "idle"]
  /\ IF ReadTasks = tasks
     THEN UNCHANGED <<asked, streak>>
     ELSE /\ asked' = [t \in Task |-> "run"]
          /\ streak' = [t \in Task |-> 0]
  /\ UNCHANGED due
-----------------------------------------------------------------------------
UserStep(t) == Create(t) \/ Approve(t) \/ Pause(t) \/ Stop(t) \/ Resume(t)
ClockStep(t) == BecomesDue(t) \/ CronPasses(t)
RunStep(t)  == RunEnds(t, TRUE) \/ RunEnds(t, FALSE) \/ RunCloses(t)
WriteStep   == FileStep /\ UNCHANGED schedVars

Next ==
  \/ \E t \in Task : UserStep(t) \/ ClockStep(t) \/ RunStep(t)
  \/ StopAll
  \/ Tick
  \/ WriteStep
  \/ Restart

\* The timer ticks, chats end, notifications are sent or fail, files get written.
\* In the code nothing disables the end of a run; here the bound on the writes in
\* flight may, again and again, hence the strong fairness.
Fairness ==
  /\ WF_vars(Tick)
  /\ WF_vars(WriteStep)
  /\ \A t \in Task : SF_vars(RunStep(t))

Spec == Init /\ [][Next]_vars /\ Fairness
-----------------------------------------------------------------------------
\* A task that needs approval does not run before somebody has approved it once,
\* whatever pauses, stops, resumes and restarts it has been through (l.188, 258).
\* That is less than docs/prd-03-integration-operations.md:432, 455 ask for, an
\* approval of each run: `approved` is never taken back.
UnapprovedNeverRuns == \A t \in running : tasks[t].approved

\* docs/prd-03-integration-operations.md:468: three failures in a row, counted across
\* pauses, stops, resumes and restarts, open the circuit: the task is not active
\* until the user sets it going after the third (l.396).  A success ends the row, and
\* so does a run recorded as stopped, whichever run the stop was meant for (l.366).
BreakerHolds ==
  \A t \in Task : streak[t] = CircuitLimit => ~Active(t)

\* Once stopped, a task stays inactive until it is resumed or approved, however the
\* run that was under way ends, and after a restart that finds the list (l.366-384).
StopWins == \A t \in Task : asked[t] = "stop" => ~Active(t)

\* Every change of the task list reaches the file: when the writes have settled
\* and did not overlap, a restart finds the list as it is (l.511).
EveryChangeIsSaved == writes = << >> /\ ~overlapped => ReadTasks = tasks

\* A task that stays active is run again each time it is due: no end of a run
\* leaves it marked as running (l.313).
DueTaskRunsAgain ==
  \A t \in Task :
    <>[]Active(t) /\ []<>due[t] => []<>(t \in running) /\ []<>(t \notin running)

\* studio-tools.ts:277, 287: until somebody resumes it, a paused task is not active,
\* however the run that was under way ends (l.396).
PauseHolds == \A t \in Task : asked[t] = "pause" => ~Active(t)
=============================================================================
