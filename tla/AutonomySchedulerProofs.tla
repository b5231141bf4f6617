---------------------- MODULE AutonomySchedulerProofs ----------------------
(***************************************************************************)
(* Safety of the scheduler for every set of tasks.  What keeps the         *)
(* approval, the stop and the breaker intact is an invariant of every      *)
(* single task, and of every list that may be read back from the file.     *)
(***************************************************************************)
EXTENDS AutonomyScheduler, TLAPS

\* No list makes an unapproved task active.
Sound(list) ==
  \A t \in Task : list[t] # Absent =>
    /\ t \notin NeedsApproval => list[t].approved
    /\ list[t].status = "active" => list[t].approved

\* What a restart may find now or after some of the writes in flight.
FileSound ==
  /\ file \notin {Empty, Garbled} => Sound(file)
  /\ \A i \in 1..Len(writes) : Sound(writes[i].data)

\* A run belongs to an approved task.
RunGood(t) ==
  /\ t \in running <=> phase[t] # "idle"
  /\ t \in running => Exists(t) /\ tasks[t].approved

\* A stopped task is inactive, and its run will be treated as stopped.
StopGood(t) ==
  asked[t] = "stop" =>
    /\ Exists(t) /\ ~Active(t)
    /\ phase[t] = "chat" => t \in cancelled

\* The failures of the streak are among those the record counts.
StreakGood(t) ==
  /\ Exists(t) => streak[t] <= tasks[t].failureCount
  /\ ~Exists(t) => streak[t] = 0
  /\ streak[t] = CircuitLimit => ~Active(t)

TaskGood(t) == RunGood(t) /\ StopGood(t) /\ StreakGood(t)

IInv ==
  /\ TypeOK
  /\ FileSound
  /\ Sound(tasks)
  /\ \A t \in Task : TaskGood(t)
-----------------------------------------------------------------------------
\* A sequence with one element more: what Save makes of `writes`.
LEMMA AppendElement ==
  ASSUME NEW S, NEW s \in Seq(S), NEW e \in S
  PROVE  /\ Append(s, e) \in Seq(S)
         /\ Len(Append(s, e)) = Len(s) + 1
         /\ \A j \in 1..(Len(s) + 1) :
              Append(s, e)[j] = IF j <= Len(s) THEN s[j] ELSE e
OBVIOUS

\* Two sequences, one after the other.
LEMMA ConcatElements ==
  ASSUME NEW S, NEW a \in Seq(S), NEW b \in Seq(S)
  PROVE  /\ a \o b \in Seq(S)
         /\ Len(a \o b) = Len(a) + Len(b)
         /\ \A j \in 1..(Len(a) + Len(b)) :
              (a \o b)[j] = IF j <= Len(a) THEN a[j] ELSE b[j - Len(a)]
OBVIOUS

Without(s, i) == SubSeq(s, 1, i - 1) \o SubSeq(s, i + 1, Len(s))

\* A sequence without one of its elements: FinishWrite's writes'.
LEMMA RemoveElement ==
  ASSUME NEW S, NEW s \in Seq(S), NEW i \in 1..Len(s)
  PROVE  /\ Without(s, i) \in Seq(S)
         /\ Len(Without(s, i)) = Len(s) - 1
         /\ \A j \in 1..(Len(s) - 1) : \E k \in 1..Len(s) : Without(s, i)[j] = s[k]
<1> DEFINE head == SubSeq(s, 1, i - 1)
           tail == SubSeq(s, i + 1, Len(s))
           r    == Without(s, i)
<1>1. Len(s) \in Nat /\ i \in Nat /\ 1 <= i /\ i <= Len(s)
  OBVIOUS
<1>2. /\ head \in Seq(S) /\ Len(head) = i - 1
      /\ \A j \in 1..(i - 1) : head[j] = s[j]
  BY <1>1
<1>3. /\ tail \in Seq(S) /\ Len(tail) = Len(s) - i
      /\ \A j \in 1..(Len(s) - i) : tail[j] = s[i + j]
  BY <1>1
<1>4. r = head \o tail
  BY DEF Without
<1> HIDE DEF head, tail, r
<1>5. /\ r \in Seq(S) /\ Len(r) = Len(head) + Len(tail)
      /\ \A j \in 1..(Len(head) + Len(tail)) :
           r[j] = IF j <= Len(head) THEN head[j] ELSE tail[j - Len(head)]
  BY <1>2, <1>3, <1>4, ConcatElements
<1>6. Len(r) = Len(s) - 1
  BY <1>1, <1>2, <1>3, <1>5
<1>7. ASSUME NEW j \in 1..(Len(s) - 1) PROVE \E k \in 1..Len(s) : r[j] = s[k]
  <2>1. CASE j <= i - 1
    <3>1. j \in 1..(i - 1) /\ j \in 1..Len(s)
      BY <2>1, <1>1
    <3>2. j \in 1..(Len(head) + Len(tail)) /\ j <= Len(head)
      BY <2>1, <1>1, <1>2, <1>3
    <3>3. r[j] = head[j]
      BY <3>2, <1>5
    <3> QED BY <3>1, <3>3, <1>2
  <2>2. CASE ~(j <= i - 1)
    <3>1. j - (i - 1) \in 1..(Len(s) - i) /\ i + (j - (i - 1)) \in 1..Len(s)
      BY <2>2, <1>1
    <3>2. r[j] = tail[j - (i - 1)]
      BY <2>2, <1>1, <1>2, <1>3, <1>5, SMTT(30)
    <3> QED BY <3>1, <3>2, <1>3
  <2> QED BY <2>1, <2>2
<1> QED BY <1>5, <1>6, <1>7 DEF r

\* One element replaced: OpenWrite's writes'.
LEMMA ReplaceElement ==
  ASSUME NEW S, NEW s \in Seq(S), NEW i \in 1..Len(s), NEW e \in S
  PROVE  /\ [s EXCEPT ![i] = e] \in Seq(S)
         /\ Len([s EXCEPT ![i] = e]) = Len(s)
         /\ \A j \in 1..Len(s) : [s EXCEPT ![i] = e][j] = IF j = i THEN e ELSE s[j]
OBVIOUS
-----------------------------------------------------------------------------
\* A sound list may be saved.
LEMMA SaveSound ==
  ASSUME FileTypeOK(TaskList), FileSound,
         NEW list \in TaskList, Sound(list), Save(list)
  PROVE  FileTypeOK(TaskList)' /\ FileSound'
<1> DEFINE e == [data |-> list, opened |-> FALSE]
<1>1. e \in [data: TaskList, opened: BOOLEAN]
  OBVIOUS
<1>2. writes \in Seq([data: TaskList, opened: BOOLEAN]) /\ writes' = Append(writes, e)
  BY DEF FileTypeOK, Save
<1>3. /\ writes' \in Seq([data: TaskList, opened: BOOLEAN])
      /\ Len(writes') = Len(writes) + 1
      /\ \A j \in 1..(Len(writes) + 1) :
           writes'[j] = IF j <= Len(writes) THEN writes[j] ELSE e
  BY <1>1, <1>2, AppendElement
<1>4. Len(writes) \in Nat
  BY <1>2
<1>5. Len(writes') <= MaxWrites
  BY <1>3, <1>4, MaxWritesAssumption DEF Save
<1>6. FileTypeOK(TaskList)'
  <2>1. overlapped' \in BOOLEAN /\ file' = file
    BY DEF Save
  <2> QED BY <2>1, <1>3, <1>5 DEF FileTypeOK
<1>7. ASSUME NEW j \in 1..Len(writes') PROVE Sound(writes'[j].data)
  <2>1. CASE j <= Len(writes)
    <3>1. j \in 1..Len(writes) /\ writes'[j] = writes[j]
      BY <2>1, <1>3, <1>4
    <3> QED BY <3>1 DEF FileSound
  <2>2. CASE ~(j <= Len(writes))
    <3>1. writes'[j] = e
      BY <2>2, <1>3, <1>4
    <3> QED BY <3>1
  <2> QED BY <2>1, <2>2
<1>8. file' = file
  BY DEF Save
<1> QED BY <1>6, <1>7, <1>8 DEF FileSound, Sound

\* Opening a file, writing it, or a crash leaves what may be read sound.
LEMMA FilePartSound ==
  ASSUME FileTypeOK(TaskList), FileSound, FileStep \/ CrashWrites
  PROVE  FileTypeOK(TaskList)' /\ FileSound'
<1> DEFINE W == [data: TaskList, opened: BOOLEAN]
<1>1. writes \in Seq(W) /\ Len(writes) \in Nat /\ Len(writes) <= MaxWrites
  BY DEF FileTypeOK
<1>2. ASSUME NEW i \in 1..Len(writes), writes[i] \in W, OpenWrite(i)
      PROVE  FileTypeOK(TaskList)' /\ FileSound'
  <2> DEFINE e == [writes[i] EXCEPT !.opened = TRUE]
  <2>1. e \in W /\ e.data = writes[i].data
    BY <1>2
  <2>2. writes' = [writes EXCEPT ![i] = e]
    BY <1>2 DEF OpenWrite
  <2> HIDE DEF e, W
  <2>3. /\ writes' \in Seq(W)
        /\ Len(writes') = Len(writes)
        /\ \A j \in 1..Len(writes) : writes'[j] = IF j = i THEN e ELSE writes[j]
    BY <1>1, <2>1, <2>2, ReplaceElement
  <2>4. ASSUME NEW j \in 1..Len(writes') PROVE Sound(writes'[j].data)
    BY <2>1, <2>3 DEF FileSound
  <2>5. file' = Empty /\ overlapped' = overlapped
    BY <1>2 DEF OpenWrite
  <2> QED BY <1>1, <2>3, <2>4, <2>5 DEF FileTypeOK, FileSound, Sound, W
<1>3. ASSUME NEW i \in 1..Len(writes), writes[i] \in W, FinishWrite(i)
      PROVE  FileTypeOK(TaskList)' /\ FileSound'
  <2>1. writes[i].data \in TaskList /\ Sound(writes[i].data)
    BY <1>3 DEF FileSound
  <2>2. writes' = Without(writes, i)
    BY <1>3 DEF FinishWrite, Without
  <2> HIDE DEF W
  <2>3. /\ writes' \in Seq(W)
        /\ Len(writes') = Len(writes) - 1
        /\ \A j \in 1..(Len(writes) - 1) :
             \E k \in 1..Len(writes) : writes'[j] = writes[k]
    BY <1>1, <2>2, RemoveElement, ZenonT(30)
  <2>4. /\ file' \in TaskList \union {Empty, Garbled}
        /\ file' \notin {Empty, Garbled} => Sound(file')
    BY <1>3, <2>1 DEF FinishWrite
  <2>5. ASSUME NEW j \in 1..Len(writes') PROVE Sound(writes'[j].data)
    BY <2>3 DEF FileSound
  <2>6. Len(writes') <= MaxWrites
    BY <1>1, <2>3, MaxWritesAssumption
  <2>7. overlapped' \in BOOLEAN
    BY <1>3 DEF FinishWrite, FileTypeOK
  <2> QED BY <2>3, <2>4, <2>5, <2>6, <2>7 DEF FileTypeOK, FileSound, Sound, W
<1>4. ASSUME CrashWrites PROVE FileTypeOK(TaskList)' /\ FileSound'
  <2>1. writes' = << >> /\ overlapped' = FALSE /\ file' = file
    BY <1>4 DEF CrashWrites
  <2>2. FileTypeOK(TaskList)'
    <3>1. << >> \in Seq(W) /\ Len(<< >>) <= MaxWrites
      BY MaxWritesAssumption
    <3> QED BY <2>1, <3>1 DEF FileTypeOK
  <2> QED BY <2>1, <2>2 DEF FileSound, Sound
<1> HIDE DEF W
<1>5. ASSUME NEW i \in 1..Len(writes) PROVE writes[i] \in W
  BY <1>1
<1> QED BY <1>2, <1>3, <1>4, <1>5 DEF FileStep
-----------------------------------------------------------------------------
\* Absent is no record, so a task that exists has one.
LEMMA ExistingIsRecord ==
  ASSUME TypeOK, NEW t \in Task, Exists(t)
  PROVE  tasks[t] \in TaskRecord
BY DEF TypeOK, TaskList, Exists

\* What a sound list says of one task.
LEMMA SoundRecord ==
  ASSUME Sound(tasks), NEW t \in Task, Exists(t)
  PROVE  /\ t \notin NeedsApproval => tasks[t].approved
         /\ tasks[t].status = "active" => tasks[t].approved
BY DEF Sound, Exists

\* One record may be replaced by a sound one.
LEMMA OneRecord ==
  ASSUME tasks \in TaskList, Sound(tasks), NEW t \in Task, NEW r \in TaskRecord,
         t \notin NeedsApproval => r.approved,
         r.status = "active" => r.approved
  PROVE  /\ [tasks EXCEPT ![t] = r] \in TaskList
         /\ Sound([tasks EXCEPT ![t] = r])
         /\ \A u \in Task : [tasks EXCEPT ![t] = r][u] = IF u = t THEN r ELSE tasks[u]
BY DEF TaskList, Sound

\* What a command for one task has to do: put a sound record, which it may not make
\* active if it is a stop, remember the stop, and keep count of the failures.
LEMMA CommandGood ==
  ASSUME IInv, NEW t \in Task, NEW r \in TaskRecord, NEW c \in {"run", "pause", "stop"},
         t \notin NeedsApproval => r.approved,
         r.status = "active" => r.approved,
         t \in running => r.approved,
         c = "stop" => r.status # "active" /\ t \in cancelled',
         NEW n \in 0..CircuitLimit, n <= r.failureCount,
         n = CircuitLimit => r.status # "active", streak' = [streak EXCEPT ![t] = n],
         SetTasks([tasks EXCEPT ![t] = r]), Command({t}, c),
         due' \in [Task -> BOOLEAN], cancelled' \subseteq Task,
         cancelled \subseteq cancelled', running' = running, phase' = phase
  PROVE  IInv'
<1> USE DEF IInv
<1>1. tasks \in TaskList /\ FileTypeOK(TaskList)
  BY DEF TypeOK
<1>2. /\ tasks' \in TaskList /\ Sound(tasks')
      /\ \A u \in Task : tasks'[u] = IF u = t THEN r ELSE tasks[u]
  BY <1>1, OneRecord DEF SetTasks
<1>3. FileTypeOK(TaskList)' /\ FileSound'
  BY <1>1, <1>2, SaveSound DEF SetTasks
<1>4. /\ asked' \in [Task -> {"run", "pause", "stop"}]
      /\ streak' \in [Task -> 0..CircuitLimit]
      /\ \A u \in Task : asked'[u] = IF u = t THEN c ELSE asked[u]
      /\ \A u \in Task : streak'[u] = IF u = t THEN n ELSE streak[u]
  BY DEF Command, TypeOK, CircuitLimit
<1>5. TypeOK'
  BY <1>2, <1>3, <1>4 DEF TypeOK
<1>6. ASSUME NEW u \in Task PROVE TaskGood(u)'
  <2>1. r # Absent
    BY AbsentAssumption
  <2>2. CASE u = t
    BY <2>1, <2>2, <1>2, <1>4
       DEF TaskGood, RunGood, StopGood, StreakGood, Exists, Active, TaskRecord, CircuitLimit
  <2>3. CASE u # t
    BY <2>3, <1>2, <1>4 DEF TaskGood, RunGood, StopGood, StreakGood, Exists, Active
  <2> QED BY <2>2, <2>3
<1>7. Sound(tasks)'
  BY <1>2 DEF Sound
<1> QED BY <1>3, <1>5, <1>6, <1>7

\* A task that exists has counted the failures of its streak; a pause leaves both
\* alone, and what sets the task going drops a full streak.
LEMMA StreakKept ==
  ASSUME IInv, NEW t \in Task, Exists(t)
  PROVE  /\ streak[t] \in 0..CircuitLimit /\ streak[t] <= tasks[t].failureCount
         /\ streak' = streak => streak' = [streak EXCEPT ![t] = streak[t]]
         /\ SetGoing(t) =>
              \E n \in 0..CircuitLimit :
                /\ n # CircuitLimit /\ n <= tasks[t].failureCount
                /\ streak' = [streak EXCEPT ![t] = n]
<1>1. streak \in [Task -> 0..CircuitLimit] /\ streak[t] <= tasks[t].failureCount
  BY DEF IInv, TypeOK, TaskGood, StreakGood
<1>2. tasks[t].failureCount \in 0..CircuitLimit
  BY ExistingIsRecord DEF IInv, TaskRecord
<1>3. ASSUME SetGoing(t)
      PROVE  \E n \in 0..CircuitLimit :
                /\ n # CircuitLimit /\ n <= tasks[t].failureCount
                /\ streak' = [streak EXCEPT ![t] = n]
  <2>1. streak' = [streak EXCEPT ![t] = IF streak[t] = CircuitLimit THEN 0 ELSE streak[t]]
    BY <1>3, <1>1 DEF SetGoing
  <2>2. CASE streak[t] = CircuitLimit
    <3>1. streak' = [streak EXCEPT ![t] = 0]
      BY <2>1, <2>2
    <3> QED BY <3>1, <1>2 DEF CircuitLimit
  <2>3. CASE streak[t] # CircuitLimit
    <3>1. streak' = [streak EXCEPT ![t] = streak[t]]
      BY <2>1, <2>3
    <3> QED BY <3>1, <2>3, <1>1
  <2> QED BY <2>2, <2>3
<1> QED BY <1>1, <1>3

\* create: the new record is active only if no approval is needed.
LEMMA CreateGood == ASSUME IInv, NEW t \in Task, Create(t) PROVE IInv'
<1> DEFINE r == [status |-> IF t \in NeedsApproval THEN "pending_approval" ELSE "active",
                 approved |-> t \notin NeedsApproval, failureCount |-> 0]
<1>1. r \in TaskRecord
  BY DEF TaskRecord, TaskStatus, CircuitLimit
<1>2. t \notin running
  BY DEF Create, IInv, TaskGood, RunGood
<1>3. /\ SetTasks([tasks EXCEPT ![t] = r]) /\ Command({t}, "run")
      /\ due' \in [Task -> BOOLEAN]
      /\ running' = running /\ phase' = phase /\ cancelled' = cancelled
      /\ streak' = [streak EXCEPT ![t] = 0]
  BY DEF Create, IInv, TypeOK
<1>4. 0 \in 0..CircuitLimit /\ 0 <= r.failureCount /\ 0 # CircuitLimit
  BY DEF CircuitLimit
<1> HIDE DEF r
<1>5. r.approved = (t \notin NeedsApproval) /\ (r.status = "active" => r.approved)
  BY DEF r
<1> QED BY <1>1, <1>2, <1>3, <1>4, <1>5, CommandGood DEF IInv, TypeOK

\* approve
LEMMA ApproveGood == ASSUME IInv, NEW t \in Task, Approve(t) PROVE IInv'
<1> DEFINE r == [tasks[t] EXCEPT !.approved = TRUE, !.status = "active"]
<1>1. tasks[t] \in TaskRecord
  BY ExistingIsRecord DEF Approve, IInv
<1>2. r \in TaskRecord /\ r.approved = TRUE /\ r.failureCount = tasks[t].failureCount
  BY <1>1 DEF TaskRecord, TaskStatus
<1>3. [tasks EXCEPT ![t].approved = TRUE, ![t].status = "active"] = [tasks EXCEPT ![t] = r]
  BY <1>1 DEF IInv, TypeOK, TaskList
<1>4. /\ SetTasks([tasks EXCEPT ![t] = r]) /\ Command({t}, "run") /\ SetGoing(t)
      /\ running' = running /\ phase' = phase /\ cancelled' = cancelled /\ due' = due
  BY <1>3 DEF Approve, SetGoing
<1>5. PICK n \in 0..CircuitLimit : /\ n # CircuitLimit /\ n <= tasks[t].failureCount
                                  /\ streak' = [streak EXCEPT ![t] = n]
  BY <1>4, StreakKept DEF Approve
<1> HIDE DEF r
<1> QED BY <1>2, <1>4, <1>5, CommandGood DEF IInv, TypeOK

\* pause
LEMMA PauseGood == ASSUME IInv, NEW t \in Task, Pause(t) PROVE IInv'
<1> DEFINE r == [tasks[t] EXCEPT !.status = "paused"]
<1>1. tasks[t] \in TaskRecord /\ (t \notin NeedsApproval => tasks[t].approved)
  BY ExistingIsRecord, SoundRecord DEF Pause, IInv
<1>2. /\ r \in TaskRecord /\ r.approved = tasks[t].approved /\ r.status = "paused"
      /\ r.failureCount = tasks[t].failureCount
  BY <1>1 DEF TaskRecord, TaskStatus
<1>3. [tasks EXCEPT ![t].status = "paused"] = [tasks EXCEPT ![t] = r]
  BY <1>1 DEF IInv, TypeOK, TaskList
<1>4. /\ SetTasks([tasks EXCEPT ![t] = r]) /\ Command({t}, "pause")
      /\ running' = running /\ phase' = phase /\ cancelled' = cancelled /\ due' = due
  BY <1>3 DEF Pause
<1>5. t \in running => tasks[t].approved
  BY DEF IInv, TaskGood, RunGood
<1>6. /\ streak[t] \in 0..CircuitLimit /\ streak[t] <= tasks[t].failureCount
      /\ streak' = [streak EXCEPT ![t] = streak[t]]
  BY StreakKept DEF Pause
<1> HIDE DEF r
<1> QED BY <1>1, <1>2, <1>4, <1>5, <1>6, CommandGood DEF IInv, TypeOK

\* stop: the id enters cancelledByUser with the new status.
LEMMA StopGoodStep == ASSUME IInv, NEW t \in Task, Stop(t) PROVE IInv'
<1> DEFINE r == [tasks[t] EXCEPT !.status = "paused"]
<1>1. tasks[t] \in TaskRecord /\ (t \notin NeedsApproval => tasks[t].approved)
  BY ExistingIsRecord, SoundRecord DEF Stop, IInv
<1>2. /\ r \in TaskRecord /\ r.approved = tasks[t].approved /\ r.status = "paused"
      /\ r.failureCount = tasks[t].failureCount
  BY <1>1 DEF TaskRecord, TaskStatus
<1>3. [tasks EXCEPT ![t].status = "paused"] = [tasks EXCEPT ![t] = r]
  BY <1>1 DEF IInv, TypeOK, TaskList
<1>4. /\ SetTasks([tasks EXCEPT ![t] = r]) /\ Command({t}, "stop")
      /\ running' = running /\ phase' = phase /\ due' = due
      /\ cancelled' = cancelled \union {t}
  BY <1>3 DEF Stop
<1>5. t \in running => tasks[t].approved
  BY DEF IInv, TaskGood, RunGood
<1>6. cancelled' \subseteq Task /\ cancelled \subseteq cancelled' /\ t \in cancelled'
  BY <1>4 DEF IInv, TypeOK
<1>7. /\ streak[t] \in 0..CircuitLimit /\ streak[t] <= tasks[t].failureCount
      /\ streak' = [streak EXCEPT ![t] = streak[t]]
  BY StreakKept DEF Stop
<1> HIDE DEF r
<1> QED BY <1>1, <1>2, <1>4, <1>5, <1>6, <1>7, CommandGood DEF IInv, TypeOK

\* resume: asks for the approval before it makes the task active.
LEMMA ResumeGood == ASSUME IInv, NEW t \in Task, Resume(t) PROVE IInv'
<1> DEFINE s == IF t \in NeedsApproval /\ ~tasks[t].approved THEN "pending_approval"
                ELSE "active"
           r == [tasks[t] EXCEPT !.status = s]
<1>1. tasks[t] \in TaskRecord /\ (t \notin NeedsApproval => tasks[t].approved)
  BY ExistingIsRecord, SoundRecord DEF Resume, IInv
<1>2. /\ r \in TaskRecord /\ r.approved = tasks[t].approved
      /\ r.failureCount = tasks[t].failureCount
      /\ r.status = "active" => r.approved
  BY <1>1 DEF TaskRecord, TaskStatus
<1>3. [tasks EXCEPT ![t].status = s] = [tasks EXCEPT ![t] = r]
  BY <1>1 DEF IInv, TypeOK, TaskList
<1>4. /\ SetTasks([tasks EXCEPT ![t] = r]) /\ Command({t}, "run") /\ SetGoing(t)
      /\ running' = running /\ phase' = phase /\ cancelled' = cancelled
  BY <1>3 DEF Resume, SetGoing
<1>5. due' \in [Task -> BOOLEAN]
  BY DEF Resume, IInv, TypeOK
<1>6. t \in running => tasks[t].approved
  BY DEF IInv, TaskGood, RunGood
<1>7. PICK n \in 0..CircuitLimit : /\ n # CircuitLimit /\ n <= tasks[t].failureCount
                                  /\ streak' = [streak EXCEPT ![t] = n]
  BY <1>4, StreakKept DEF Resume
<1> HIDE DEF r
<1> QED BY <1>1, <1>2, <1>4, <1>5, <1>6, <1>7, CommandGood DEF IInv, TypeOK

\* stopAll: stop for every task that is active or running.
LEMMA StopAllGood == ASSUME IInv, StopAll PROVE IInv'
<1> DEFINE S == { t \in Task : Exists(t) /\ (Active(t) \/ t \in running) }
           list == [t \in Task |-> IF t \in S THEN [tasks[t] EXCEPT !.status = "paused"]
                                   ELSE tasks[t]]
<1>1. /\ SetTasks(list) /\ Command(S, "stop")
      /\ cancelled' = cancelled \union S
      /\ due' = due /\ running' = running /\ phase' = phase /\ streak' = streak
  BY DEF StopAll
<1>2. ASSUME NEW t \in S
      PROVE  /\ list[t] \in TaskRecord /\ list[t].status = "paused"
             /\ list[t].approved = tasks[t].approved
             /\ list[t].failureCount = tasks[t].failureCount
             /\ list[t] # Absent /\ Exists(t)
  <2>1. tasks[t] \in TaskRecord
    BY ExistingIsRecord DEF IInv
  <2>2. list[t] = [tasks[t] EXCEPT !.status = "paused"]
    OBVIOUS
  <2>3. list[t] \in TaskRecord
    BY <2>1, <2>2 DEF TaskRecord, TaskStatus
  <2> QED BY <2>1, <2>2, <2>3, AbsentAssumption DEF TaskRecord
<1>3. \A t \in Task : t \notin S => list[t] = tasks[t]
  OBVIOUS
<1>4. list \in TaskList
  BY <1>2 DEF TaskList, IInv, TypeOK
<1> HIDE DEF list
<1>5. Sound(list)
  BY <1>2, <1>3 DEF Sound, IInv, Exists
<1>6. FileTypeOK(TaskList)' /\ FileSound'
  BY <1>1, <1>4, <1>5, SaveSound DEF SetTasks, IInv, TypeOK
<1>7. tasks' = list
  BY <1>1 DEF SetTasks
<1>8. /\ asked' \in [Task -> {"run", "pause", "stop"}]
      /\ \A t \in Task : asked'[t] = IF t \in S THEN "stop" ELSE asked[t]
  BY <1>1 DEF Command, IInv, TypeOK
<1>9. TypeOK'
  BY <1>1, <1>4, <1>6, <1>7, <1>8 DEF TypeOK, IInv
<1>10. ASSUME NEW t \in Task PROVE TaskGood(t)'
  <2>1. TaskGood(t)
    BY DEF IInv
  <2>2. CASE t \in S
    <3>1. tasks'[t] # Absent /\ tasks'[t].status = "paused" /\ streak'[t] = streak[t]
      BY <2>2, <1>1, <1>2, <1>7
    <3>2. tasks'[t].failureCount = tasks[t].failureCount /\ Exists(t)
      BY <2>2, <1>2, <1>7
    <3>3. RunGood(t)'
      BY <2>1, <2>2, <3>1, <1>1, <1>2, <1>7 DEF TaskGood, RunGood, Exists
    <3> QED BY <2>1, <2>2, <3>1, <3>2, <3>3, <1>1, <1>8
            DEF TaskGood, StopGood, StreakGood, Exists, Active
  <2>3. CASE t \notin S
    BY <2>1, <2>3, <1>1, <1>3, <1>7, <1>8
       DEF TaskGood, RunGood, StopGood, StreakGood, Exists, Active
  <2> QED BY <2>2, <2>3
<1> QED BY <1>5, <1>6, <1>7, <1>9, <1>10 DEF IInv

\* Time passes: only `due` changes.
LEMMA ClockGood == ASSUME IInv, NEW t \in Task, ClockStep(t) PROVE IInv'
<1>1. /\ UNCHANGED <<fileVars, tasks, running, phase, cancelled, asked, streak>>
      /\ due' \in [Task -> BOOLEAN]
  BY DEF ClockStep, BecomesDue, CronPasses, IInv, TypeOK
<1> QED BY <1>1 DEF IInv, TypeOK, FileTypeOK, fileVars, FileSound, Sound, TaskGood,
                    RunGood, StopGood, StreakGood, Exists, Active

\* tick: what starts is active, hence approved, and was not stopped.
LEMMA TickGood == ASSUME IInv, Tick PROVE IInv'
<1> DEFINE S == { t \in Task : Active(t) /\ due[t] /\ t \notin running }
<1>1. /\ running' = running \union S
      /\ phase' = [t \in Task |-> IF t \in S THEN "chat" ELSE phase[t]]
      /\ UNCHANGED <<fileVars, tasks, due, cancelled, asked, streak>>
  BY DEF Tick
<1>2. TypeOK' /\ FileSound' /\ Sound(tasks)'
  BY <1>1 DEF IInv, TypeOK, FileTypeOK, fileVars, FileSound, Sound, Phase
<1>3. ASSUME NEW t \in Task PROVE TaskGood(t)'
  <2>1. TaskGood(t) /\ phase[t] \in Phase
    BY DEF IInv, TypeOK
  <2>2. CASE t \in S
    <3>1. Exists(t) /\ Active(t) /\ tasks[t].approved
      BY <2>2, SoundRecord DEF Active, IInv
    <3> QED BY <2>1, <2>2, <3>1, <1>1
            DEF TaskGood, RunGood, StopGood, StreakGood, Exists, Active
  <2>3. CASE t \notin S
    BY <2>1, <2>3, <1>1 DEF TaskGood, RunGood, StopGood, StreakGood, Exists, Active
  <2> QED BY <2>2, <2>3
<1> QED BY <1>2, <1>3 DEF IInv

\* The end of a run: the record and the streak move together.
LEMMA RunEndsGood ==
  ASSUME IInv, NEW t \in Task, NEW ok \in BOOLEAN, RunEnds(t, ok) PROVE IInv'
<1> DEFINE r == IF t \in cancelled THEN Stopped(tasks[t])
                ELSE IF ok THEN Succeeded(tasks[t]) ELSE Failed(tasks[t])
<1>1. /\ phase[t] = "chat" /\ phase' = [phase EXCEPT ![t] = "closing"]
      /\ cancelled' = cancelled \ {t}
      /\ SetTasks([tasks EXCEPT ![t] = r])
      /\ due' = [due EXCEPT ![t] = FALSE]
      /\ streak' = [streak EXCEPT ![t] =
                      IF ok \/ t \in cancelled THEN 0 ELSE UpTo(@)]
      /\ running' = running /\ asked' = asked
  BY DEF RunEnds, IInv, TypeOK, TaskList
<1>2. t \in running /\ Exists(t) /\ tasks[t].approved
  BY <1>1 DEF IInv, TaskGood, RunGood
<1>3. tasks[t] \in TaskRecord
  BY <1>2, ExistingIsRecord DEF IInv
<1>4. /\ streak[t] \in 0..CircuitLimit /\ streak[t] <= tasks[t].failureCount
      /\ tasks[t].failureCount \in 0..CircuitLimit
  BY <1>2, <1>3 DEF IInv, TypeOK, TaskGood, StreakGood, TaskRecord
<1>5. /\ r \in TaskRecord /\ r.approved = tasks[t].approved
      /\ t \in cancelled => r.status = "paused" /\ r.failureCount = 0
      /\ t \notin cancelled /\ ok => r.status = tasks[t].status /\ r.failureCount = 0
      /\ t \notin cancelled /\ ~ok =>
           /\ r.failureCount = UpTo(tasks[t].failureCount)
           /\ r.failureCount >= CircuitLimit => r.status = "circuit_open"
  <2> DEFINE q == tasks[t]
  <2>1. q \in TaskRecord /\ q.failureCount \in 0..CircuitLimit
    BY <1>3, <1>4
  <2> HIDE DEF q
  <2>2. /\ Stopped(q) \in TaskRecord /\ Stopped(q).approved = q.approved
        /\ Stopped(q).status = "paused" /\ Stopped(q).failureCount = 0
    <3>1. Stopped(q) = [[q EXCEPT !.failureCount = 0] EXCEPT !.status = "paused"]
      BY <2>1 DEF TaskRecord, Stopped
    <3>2. "paused" \in TaskStatus /\ 0 \in 0..CircuitLimit
      BY DEF TaskStatus, CircuitLimit
    <3> QED BY <2>1, <3>1, <3>2 DEF TaskRecord
  <2>3. /\ Succeeded(q) \in TaskRecord /\ Succeeded(q).approved = q.approved
        /\ Succeeded(q).status = q.status /\ Succeeded(q).failureCount = 0
    BY <2>1 DEF TaskRecord, Succeeded, CircuitLimit
  <2>4. UpTo(q.failureCount) \in 0..CircuitLimit
    BY <2>1 DEF UpTo, CircuitLimit
  <2>5. /\ Failed(q) \in TaskRecord /\ Failed(q).approved = q.approved
        /\ Failed(q).failureCount = UpTo(q.failureCount)
        /\ UpTo(q.failureCount) >= CircuitLimit => Failed(q).status = "circuit_open"
    BY <2>1, <2>4 DEF TaskRecord, TaskStatus, Failed
  <2> QED BY <2>2, <2>3, <2>5 DEF q
<1> HIDE DEF r
<1>6. /\ tasks' \in TaskList /\ Sound(tasks')
      /\ \A u \in Task : tasks'[u] = IF u = t THEN r ELSE tasks[u]
  <2>1. tasks' = [tasks EXCEPT ![t] = r]
    BY <1>1 DEF SetTasks
  <2>2. tasks \in TaskList /\ Sound(tasks)
    BY DEF IInv, TypeOK
  <2>3. r \in TaskRecord /\ r.approved
    BY <1>2, <1>5
  <2> QED BY <2>1, <2>2, <2>3, OneRecord
<1>7. FileTypeOK(TaskList)' /\ FileSound'
  BY <1>1, <1>6, SaveSound DEF SetTasks, IInv, TypeOK
<1>8. /\ streak' \in [Task -> 0..CircuitLimit]
      /\ streak'[t] = IF ok \/ t \in cancelled THEN 0 ELSE UpTo(streak[t])
      /\ \A u \in Task : u # t => streak'[u] = streak[u]
  BY <1>1, <1>4 DEF IInv, TypeOK, UpTo, CircuitLimit
<1>9. /\ phase' \in [Task -> Phase] /\ phase'[t] = "closing"
      /\ \A u \in Task : u # t => phase'[u] = phase[u]
  BY <1>1 DEF IInv, TypeOK, Phase
<1>10. TypeOK'
  BY <1>1, <1>6, <1>7, <1>8, <1>9 DEF IInv, TypeOK
<1>11. TaskGood(t)'
  <2>1. Exists(t)' /\ tasks'[t] = r
    BY <1>5, <1>6, AbsentAssumption DEF Exists
  <2>2. RunGood(t)'
    BY <2>1, <1>1, <1>2, <1>5, <1>9 DEF RunGood
  <2>3. StopGood(t)'
    <3>1. asked[t] = "stop" => t \in cancelled
      BY <1>1 DEF IInv, TaskGood, StopGood
    <3> QED BY <3>1, <2>1, <1>1, <1>5, <1>9 DEF StopGood, Active
  <2>4. StreakGood(t)'
    BY <2>1, <1>4, <1>5, <1>8 DEF StreakGood, Active, UpTo, CircuitLimit
  <2> QED BY <2>2, <2>3, <2>4 DEF TaskGood
<1>12. ASSUME NEW u \in Task, u # t PROVE TaskGood(u)'
  BY <1>1, <1>6, <1>8, <1>9, <1>12
     DEF IInv, TaskGood, RunGood, StopGood, StreakGood, Exists, Active
<1> QED BY <1>6, <1>7, <1>10, <1>11, <1>12 DEF IInv

\* finally: the id leaves `running`.
LEMMA RunClosesGood == ASSUME IInv, NEW t \in Task, RunCloses(t) PROVE IInv'
<1>1. /\ phase[t] = "closing" /\ phase' = [phase EXCEPT ![t] = "idle"]
      /\ running' = running \ {t}
      /\ UNCHANGED <<fileVars, tasks, due, cancelled, asked, streak>>
  BY DEF RunCloses
<1>2. TypeOK' /\ FileSound' /\ Sound(tasks)'
  BY <1>1 DEF IInv, TypeOK, FileTypeOK, fileVars, FileSound, Sound, Phase
<1>3. ASSUME NEW u \in Task PROVE TaskGood(u)'
  BY <1>1 DEF IInv, TypeOK, TaskGood, RunGood, StopGood, StreakGood, Exists, Active
<1> QED BY <1>2, <1>3 DEF IInv

\* A part of a write does not touch the scheduler.
LEMMA WriteGood == ASSUME IInv, WriteStep PROVE IInv'
<1>1. FileStep /\ UNCHANGED schedVars
  BY DEF WriteStep
<1>2. FileTypeOK(TaskList)' /\ FileSound'
  BY <1>1, FilePartSound DEF IInv, TypeOK
<1> QED BY <1>1, <1>2 DEF IInv, TypeOK, schedVars, Sound, TaskGood, RunGood, StopGood,
                         StreakGood, Exists, Active

\* A restart takes over a sound list, or none, and no runs.
LEMMA RestartGood == ASSUME IInv, Restart PROVE IInv'
<1>1. FileTypeOK(TaskList)' /\ FileSound'
  BY FilePartSound DEF Restart, IInv, TypeOK
<1>2. tasks' \in TaskList /\ Sound(tasks')
  <2>1. CASE file \in {Empty, Garbled}
    BY <2>1 DEF Restart, ReadTasks, NoTasks, TaskList, Sound
  <2>2. CASE file \notin {Empty, Garbled}
    BY <2>2 DEF Restart, ReadTasks, IInv, TypeOK, FileTypeOK, FileSound
  <2> QED BY <2>1, <2>2
<1>3. /\ running' = {} /\ cancelled' = {} /\ due' = due
      /\ phase' = [t \in Task |-> "idle"]
  BY DEF Restart
<1>4. \/ tasks' = tasks /\ asked' = asked /\ streak' = streak
      \/ asked' = [t \in Task |-> "run"] /\ streak' = [t \in Task |-> 0]
  BY DEF Restart
<1>5. TypeOK'
  BY <1>1, <1>2, <1>3, <1>4 DEF TypeOK, IInv, Phase, CircuitLimit
<1>6. ASSUME NEW t \in Task PROVE TaskGood(t)'
  <2>1. CASE tasks' = tasks /\ asked' = asked /\ streak' = streak
    BY <2>1, <1>3 DEF IInv, TaskGood, RunGood, StopGood, StreakGood, Exists, Active
  <2>2. CASE asked' = [u \in Task |-> "run"] /\ streak' = [u \in Task |-> 0]
    <3>1. Exists(t)' => tasks'[t].failureCount \in 0..CircuitLimit
      BY <1>2 DEF Exists, TaskList, TaskRecord
    <3> QED BY <2>2, <3>1, <1>3 DEF TaskGood, RunGood, StopGood, StreakGood, Exists, Active,
                              CircuitLimit
  <2> QED BY <2>1, <2>2, <1>4
<1> QED BY <1>1, <1>2, <1>5, <1>6 DEF IInv
-----------------------------------------------------------------------------
\* The initial state.
LEMMA InitGood == ASSUME Init PROVE IInv
<1>1. FileTypeOK(TaskList) /\ FileSound
  <2>1. << >> \in Seq([data: TaskList, opened: BOOLEAN]) /\ Len(<< >>) <= MaxWrites
    BY MaxWritesAssumption
  <2>2. file = Empty /\ writes = << >> /\ overlapped = FALSE
    BY DEF Init, FileInit
  <2>3. FileTypeOK(TaskList)
    BY <2>1, <2>2 DEF FileTypeOK
  <2> QED BY <2>2, <2>3 DEF FileSound
<1>2. tasks \in TaskList /\ Sound(tasks)
  BY DEF Init, NoTasks, TaskList, Sound
<1>3. TypeOK
  BY <1>1, <1>2 DEF Init, TypeOK, Phase, CircuitLimit
<1>4. ASSUME NEW t \in Task PROVE TaskGood(t)
  BY DEF Init, NoTasks, TaskGood, RunGood, StopGood, StreakGood, Exists, Active,
         CircuitLimit
<1> QED BY <1>1, <1>2, <1>3, <1>4 DEF IInv

\* One step per action.
LEMMA NextGood == ASSUME IInv, [Next]_vars PROVE IInv'
<1>1. ASSUME NEW t \in Task, UserStep(t) PROVE IInv'
  BY <1>1, CreateGood, ApproveGood, PauseGood, StopGoodStep, ResumeGood DEF UserStep
<1>2. ASSUME NEW t \in Task, ClockStep(t) PROVE IInv'
  BY <1>2, ClockGood
<1>3. ASSUME NEW t \in Task, RunStep(t) PROVE IInv'
  BY <1>3, RunEndsGood, RunClosesGood DEF RunStep
<1>4. CASE StopAll
  BY <1>4, StopAllGood
<1>5. CASE Tick
  BY <1>5, TickGood
<1>6. CASE WriteStep
  BY <1>6, WriteGood
<1>7. CASE Restart
  BY <1>7, RestartGood
<1>8. CASE UNCHANGED vars
  BY <1>8 DEF vars, fileVars, schedVars, IInv, TypeOK, FileTypeOK, FileSound, Sound,
              TaskGood, RunGood, StopGood, StreakGood, Exists, Active
<1> QED BY <1>1, <1>2, <1>3, <1>4, <1>5, <1>6, <1>7, <1>8 DEF Next

\* The invariant the theorems below are read off.
THEOREM Invariance == Spec => []IInv
<1>1. Init => IInv
  BY InitGood
<1>2. IInv /\ [Next]_vars => IInv'
  BY NextGood
<1> QED BY <1>1, <1>2, PTL DEF Spec

\* Every variable keeps its type; a record is there while its run is.
THEOREM TypeCorrect == Spec => []TypeOK
<1>1. IInv => TypeOK
  BY DEF IInv
<1> QED BY <1>1, Invariance, PTL

\* No sequence of commands, runs, overlapping writes and crashes starts a task
\* that was never approved.  (Of the approval of each run in the PRD it says nothing.)
THEOREM ApprovalRespected == Spec => []UnapprovedNeverRuns
<1>1. IInv => UnapprovedNeverRuns
  BY DEF IInv, TypeOK, TaskGood, RunGood, UnapprovedNeverRuns
<1> QED BY <1>1, Invariance, PTL

\* The third failure in a row stops a task, whatever pauses, stops, resumes and
\* restarts were between the three.
THEOREM BreakerRespected == Spec => []BreakerHolds
<1>1. IInv => BreakerHolds
  BY DEF IInv, TaskGood, StreakGood, BreakerHolds
<1> QED BY <1>1, Invariance, PTL

\* A stop outweighs the end of the run it met.
THEOREM StopRespected == Spec => []StopWins
<1>1. IInv => StopWins
  BY DEF IInv, TaskGood, StopGood, StopWins
<1> QED BY <1>1, Invariance, PTL
-----------------------------------------------------------------------------
\* As long as no two writes met, the last one, done or not, has the list as it is.
FileAgrees ==
  ~overlapped =>
    \/ writes = << >> /\ ReadTasks = tasks
    \/ \E e \in [data: TaskList, opened: BOOLEAN] :
         writes = <<e>> /\ e.data = tasks /\ (e.opened => file = Empty)

\* A change that is saved keeps the file in agreement.
LEMMA SaveAgrees ==
  ASSUME IInv, IInv', NEW list, SetTasks(list) PROVE FileAgrees'
<1> DEFINE e == [data |-> list, opened |-> FALSE]
<1>1. tasks' = list /\ writes' = Append(writes, e) /\ overlapped' = (writes # << >>)
  BY DEF SetTasks, Save
<1>2. list \in TaskList
  BY <1>1 DEF IInv, TypeOK
<1>3. CASE writes = << >>
  <2>1. writes' = <<e>>
    BY <1>1, <1>3
  <2>2. e \in [data: TaskList, opened: BOOLEAN] /\ e.data = tasks' /\ ~e.opened
    BY <1>1, <1>2
  <2> HIDE DEF e
  <2> QED BY <2>1, <2>2 DEF FileAgrees
<1>4. CASE writes # << >>
  BY <1>1, <1>4 DEF FileAgrees
<1> QED BY <1>3, <1>4

\* Opening keeps it; the end of the only write puts its list there.
LEMMA WriteAgrees ==
  ASSUME IInv, FileAgrees, WriteStep PROVE FileAgrees'
<1>1. PICK i \in 1..Len(writes) : OpenWrite(i) \/ FinishWrite(i)
  BY DEF WriteStep, FileStep
<1>2. tasks' = tasks /\ overlapped' = overlapped
  BY <1>1 DEF WriteStep, schedVars, OpenWrite, FinishWrite
<1>3. CASE overlapped
  BY <1>2, <1>3 DEF FileAgrees
<1>4. CASE ~overlapped
  <2>1. writes # << >>
    BY <1>1
  <2>2. PICK e \in [data: TaskList, opened: BOOLEAN] :
          writes = <<e>> /\ e.data = tasks /\ (e.opened => file = Empty)
    BY <1>4, <2>1 DEF FileAgrees
  <2>3. i = 1 /\ writes[i] = e
    BY <2>2
  <2>4. CASE OpenWrite(i)
    <3> DEFINE o == [e EXCEPT !.opened = TRUE]
    <3>1. o \in [data: TaskList, opened: BOOLEAN] /\ o.data = tasks'
      BY <1>2, <2>2
    <3>2. file' = Empty /\ writes' = [writes EXCEPT ![1] = [writes[1] EXCEPT !.opened = TRUE]]
      BY <2>3, <2>4 DEF OpenWrite
    <3>3. writes' = [<<e>> EXCEPT ![1] = o]
      BY <2>2, <2>3, <3>2
    <3>4. o.opened => file' = Empty
      BY <3>2
    <3> HIDE DEF o
    <3>5. writes' = <<o>>
      BY <3>3
    <3> QED BY <3>1, <3>4, <3>5 DEF FileAgrees
  <2>5. CASE FinishWrite(i)
    <3>1. file = Empty
      BY <2>2, <2>3, <2>5 DEF FinishWrite
    <3>2. file' = tasks
      BY <2>2, <2>3, <2>5, <3>1 DEF FinishWrite
    <3>3. writes' = << >>
      BY <2>2, <2>3, <2>5 DEF FinishWrite
    <3>4. ReadTasks' = tasks'
      BY <1>2, <3>2, FileAssumption DEF ReadTasks, IInv, TypeOK
    <3> QED BY <3>3, <3>4 DEF FileAgrees
  <2> QED BY <1>1, <2>4, <2>5
<1> QED BY <1>3, <1>4

\* Every step that changes the list saves it.
LEMMA NextAgrees ==
  ASSUME IInv, IInv', FileAgrees, [Next]_vars PROVE FileAgrees'
<1>1. ASSUME NEW t \in Task, UserStep(t) PROVE FileAgrees'
  <2>1. \E list : SetTasks(list)
    BY <1>1 DEF UserStep, Create, Approve, Pause, Stop, Resume
  <2> QED BY <2>1, SaveAgrees
<1>2. ASSUME NEW t \in Task, NEW ok \in BOOLEAN, RunEnds(t, ok) PROVE FileAgrees'
  <2>1. \E list : SetTasks(list)
    BY <1>2 DEF RunEnds
  <2> QED BY <2>1, SaveAgrees
<1>3. CASE StopAll
  <2>1. \E list : SetTasks(list)
    BY <1>3 DEF StopAll
  <2> QED BY <2>1, SaveAgrees
<1>4. ASSUME UNCHANGED <<fileVars, tasks>> PROVE FileAgrees'
  BY <1>4 DEF fileVars, FileAgrees, ReadTasks, NoTasks
<1>5. ASSUME NEW t \in Task, ClockStep(t) \/ RunCloses(t) PROVE FileAgrees'
  BY <1>4, <1>5 DEF ClockStep, BecomesDue, CronPasses, RunCloses
<1>6. CASE Tick \/ UNCHANGED vars
  BY <1>4, <1>6 DEF Tick, vars, schedVars
<1>7. CASE WriteStep
  BY <1>7, WriteAgrees
<1>8. CASE Restart
  <2>1. writes' = << >> /\ file' = file /\ tasks' = ReadTasks
    BY <1>8 DEF Restart, CrashWrites
  <2>2. ReadTasks' = ReadTasks
    BY <2>1 DEF ReadTasks, NoTasks
  <2> QED BY <2>1, <2>2 DEF FileAgrees
<1> QED BY <1>1, <1>2, <1>3, <1>5, <1>6, <1>7, <1>8 DEF Next, RunStep

\* No change of the list is forgotten: what a restart would find, once the writes
\* are done and none met another, is the list.
THEOREM ChangesReachTheFile == Spec => []EveryChangeIsSaved
<1>1. Init => FileAgrees
  BY DEF Init, FileInit, FileAgrees, ReadTasks
<1>2. IInv /\ IInv' /\ FileAgrees /\ [Next]_vars => FileAgrees'
  BY NextAgrees
<1>3. FileAgrees => EveryChangeIsSaved
  BY DEF FileAgrees, EveryChangeIsSaved
<1> QED BY <1>1, <1>2, <1>3, Invariance, PTL DEF Spec
=============================================================================
