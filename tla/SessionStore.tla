---------------------------- MODULE SessionStore ----------------------------
(***************************************************************************)
(* One conversation's transcript: Agent.run (src/server/agent/agent.ts) and *)
(* the loop it runs, as far as they write to the session; SessionManager   *)
(* (session.ts) with its cache and its file; the guard that pairs tool     *)
(* calls with results (session-tool-result-guard.ts); the lock file        *)
(* (session-write-lock.ts).                                                *)
(*                                                                         *)
(* The session lane lets one chat run at a time.  Each has an Agent of its *)
(* own, hence a SessionManager and a guard: chat a writes through mem[a]   *)
(* and pending[a].  A subagent of chat a reports to the same mem[a]        *)
(* whenever it ends, outside the lane.                                     *)
(***************************************************************************)
EXTENDS SessionFile, FiniteSets

CONSTANTS
  MaxChats,    \* bound: chats of the conversation
  MaxEntries,  \* bound: entries, apart from those that flushes and subagents add
  MaxSubs,     \* bound: subagents
  MaxFails,    \* bound: appends that throw
  MaxCrashes   \* bound: crashes of the process

ASSUME StoreAssumption == {MaxChats, MaxEntries, MaxSubs, MaxFails, MaxCrashes} \subseteq Nat

Chat == 1..MaxChats
Writer == 0..MaxChats  \* 0: the chat in the lane; a: the subagent of chat a
Run == 0
Dead == -1             \* a process that is no more

VARIABLES
  entries,  \* all entries ever made
  file,     \* the session's file
  lock,     \* the lock file: whose it is, and whether its payload is written
  mem,      \* chat -> SessionManager.states.get(sessionKey)
  pending,  \* chat -> pendingBySession.get(sessionKey) of its guard
  chat,     \* the chat in the lane, or the last one
  run,      \* where Agent.run is
  op,       \* writer -> the append or rewrite it awaits
  sub,      \* chat -> its subagent: "none", "works", "reports"
  log,      \* history: the entries of the conversation whose append has returned
  excused,  \* history: tool_uses whose results a crash or a failed write took
  damaged,  \* history: a crash has cut a line or a rewrite
  holed,    \* history: chats one of whose appends threw, after the memory was updated
  astray,   \* history: an entry was put beside another one, or after one that is not on file
  subs, fails, crashes

facts   == <<log, excused, damaged, holed>>
bounds  == <<subs, fails, crashes>>
vars == <<entries, file, lock, mem, pending, chat, run, op, sub, facts, astray, bounds>>

Kind == {"say", "text", "use", "result", "summary"}
Assistant == {"text", "use"}
CallsOf(id) == {<<id, 1>>, <<id, 2>>}  \* a tool_use message makes two calls

NoLock == [owner |-> Dead - 1, stamped |-> FALSE]

\* Nothing is awaited; or `id` is being persisted ("append"), or the file
\* rewritten with `ids` ("rewrite"), and `next` is to be appended after it.
NoOp == [at |-> "none", mode |-> "append", id |-> Null, ids |-> <<>>, next |-> "none"]
Opened(mode, id, ids, next) ==
  [at |-> "open", mode |-> mode, id |-> id, ids |-> ids, next |-> next]

OpAt == {"none", "open", "stamp", "inspect", "remove", "write", "fill", "release"}
RunAt == {"none", "begin", "resay", "turn", "tools", "steered", "finally"}

TypeOK ==
  /\ entries \in Seq([parent : Nat, kind : Kind, answers : SUBSET (Nat \X {1, 2}),
                      by : Writer])
  /\ file.lines \in Seq(0..Len(entries)) /\ file.header \in BOOLEAN
  /\ file.cut \in BOOLEAN /\ (file.cut => file.lines # <<>>)
  /\ lock \in [owner : {Dead - 1, Dead} \union Writer, stamped : BOOLEAN]
  /\ \A a \in Chat : /\ mem[a].entries \in Seq(1..Len(entries))
                     /\ mem[a].leaf \in 0..Len(entries)
                     /\ mem[a].flushed \in BOOLEAN
  /\ pending \in [Chat -> SUBSET ((1..Len(entries)) \X {1, 2})]
  /\ \A a \in Chat : \A c \in pending[a] : entries[c[1]].kind = "use"
  /\ chat \in 0..MaxChats /\ run \in RunAt
  /\ \A w \in Writer : /\ op[w].at \in OpAt /\ op[w].mode \in {"append", "rewrite"}
                       /\ op[w].id \in 0..Len(entries)
                       /\ op[w].ids \in Seq(1..Len(entries))
                       /\ op[w].next \in Kind \union {"none"}
  /\ sub \in [Chat -> {"none", "works", "reports"}]
  /\ log \in Seq(1..Len(entries)) /\ excused \subseteq 1..Len(entries)
  /\ holed \subseteq Chat /\ damaged \in BOOLEAN /\ astray \in BOOLEAN
  /\ subs \in 0..MaxSubs /\ fails \in 0..MaxFails /\ crashes \in 0..MaxCrashes

Init ==
  /\ entries = <<>> /\ file = NoFile /\ lock = NoLock
  /\ mem = [a \in Chat |-> NewState] /\ pending = [a \in Chat |-> {}]
  /\ chat = 0 /\ run = "none" /\ op = [w \in Writer |-> NoOp]
  /\ sub = [a \in Chat |-> "none"]
  /\ log = <<>> /\ excused = {} /\ damaged = FALSE /\ holed = {} /\ astray = FALSE
  /\ subs = 0 /\ fails = 0 /\ crashes = 0

Agent(w) == IF w = Run THEN chat ELSE w
Idle(w) == op[w].at = "none"
HasRoom == Len(entries) < MaxEntries
-----------------------------------------------------------------------------
(* SessionManager.append and the guard around it.                          *)

\* A summary comes while a chat runs or after a later one began, or a chat
\* goes on while one is being written.
Meets(w) ==
  \/ w # Run /\ (w # chat \/ run # "none")
  \/ w = Run /\ \E a \in Chat : ~Idle(a)

\* originalAppend up to the first await: the memory is updated, then the entry
\* is to be persisted.
Put(w, kind, answers, next) ==
  LET a == Agent(w)
      id == Len(entries) + 1
  IN /\ entries' = Append(entries,
                  [parent |-> mem[a].leaf, kind |-> kind, answers |-> answers, by |-> w])
     /\ mem' = [mem EXCEPT ![a] = [entries |-> Append(mem[a].entries, id), leaf |-> id,
                                    flushed |-> mem[a].flushed]]
     /\ op' = [op EXCEPT ![w] = Opened("append", id, <<>>, next)]
     /\ astray' = (astray \/ a \in holed \/ Meets(w))

\* flushPendingToolResults: synthetic results for all pending calls.
Flush(w, next) ==
  /\ Put(w, "result", pending[Agent(w)], next)
  /\ pending' = [pending EXCEPT ![Agent(w)] = {}]

\* The guarded append of a message: results are taken off the pending calls,
\* anything else has the missing ones written first.
AppendMessage(w, kind, answers) ==
  \/ /\ kind = "result"
     /\ pending' = [pending EXCEPT ![Agent(w)] = @ \ answers]
     /\ Put(w, kind, answers, "none")
  \/ /\ kind # "result" /\ pending[Agent(w)] # {}
     /\ Flush(w, kind)
  \/ /\ kind # "result" /\ pending[Agent(w)] = {}
     /\ Put(w, kind, {}, "none")
     /\ UNCHANGED pending
-----------------------------------------------------------------------------
(* Agent.run and the agent loop.                                           *)

\* A run of the session lane begins: a new Agent loads the history.
StartChat ==
  /\ run = "none" /\ Idle(Run) /\ chat < MaxChats
  /\ chat' = chat + 1 /\ run' = "begin"
  /\ mem' = [mem EXCEPT ![chat + 1] = Loaded(file)]
  /\ astray' = (astray \/ \E a \in Chat : ~Idle(a))
  /\ UNCHANGED <<entries, file, lock, pending, op, sub, facts, bounds>>

\* The user message.
Say ==
  /\ run \in {"begin", "resay"} /\ Idle(Run) /\ HasRoom
  /\ AppendMessage(Run, "say", {})
  /\ run' = "turn"
  /\ UNCHANGED <<file, lock, chat, sub, facts, bounds>>

\* studioRegenerate: everything after the anchor goes, the latest message of the
\* user on the path with the text that is sent again; when there is none, the
\* assistant messages at the end.  The file's new content is put together before
\* the lock is asked for.  The anchor is not appended a second time.
Regenerate ==
  LET path == Path(entries, mem[chat])
      Cut(k, found) ==
        LET rest == DropFrom(mem[chat], {path[i] : i \in (k + 1)..Len(path)},
                             IF k = 0 THEN Null ELSE path[k])
        IN /\ mem' = [mem EXCEPT ![chat] = rest]
           /\ run' = IF found THEN "turn" ELSE "resay"
           /\ op' = IF k = Len(path) THEN op
                    ELSE [op EXCEPT ![Run] = Opened("rewrite", Null, rest.entries, "none")]
      IsAssistant(i) == entries[path[i]].kind \in Assistant
  IN /\ run = "begin" /\ Idle(Run) /\ path # <<>>
     /\ \/ \E k \in DOMAIN path : entries[path[k]].kind = "say" /\ Cut(k, TRUE)
        \/ \E k \in 0..Len(path) - 1 :
             /\ \A i \in k + 1..Len(path) : IsAssistant(i)
             /\ k # 0 => ~IsAssistant(k)
             /\ Cut(k, FALSE)
     /\ UNCHANGED <<entries, file, lock, pending, chat, sub, facts, astray, bounds>>

\* A turn: a steering message, an answer, or tool calls.
Turn ==
  /\ run \in {"turn", "steered"} /\ Idle(Run) /\ HasRoom
  /\ \/ AppendMessage(Run, "say", {}) /\ run' = "turn"
     \/ run = "turn" /\ AppendMessage(Run, "text", {}) /\ run' = "turn"
     \/ run = "turn" /\ AppendMessage(Run, "use", {}) /\ run' = "tools"
  /\ UNCHANGED <<file, lock, chat, sub, facts, bounds>>

\* sessions_spawn, which does not wait for the subagent.
Spawn ==
  /\ run = "tools" /\ Idle(Run) /\ sub[chat] = "none" /\ subs < MaxSubs
  /\ sub' = [sub EXCEPT ![chat] = "works"] /\ subs' = subs + 1
  /\ UNCHANGED <<entries, file, lock, mem, pending, chat, run, op, facts, astray, fails, crashes>>

\* The results of the calls; only that of the first when a hook blocked it and
\* a steering message came (agent-loop.ts l.1340).
Results ==
  /\ run = "tools" /\ Idle(Run)
  /\ \E id \in DOMAIN entries :
       /\ entries[id].kind = "use"
       /\ \A j \in id + 1..Len(entries) : entries[j].kind # "use"
       /\ \/ AppendMessage(Run, "result", CallsOf(id)) /\ run' = "turn"
          \/ AppendMessage(Run, "result", {<<id, 1>>}) /\ run' = "steered"
  /\ UNCHANGED <<file, lock, chat, sub, facts, bounds>>

\* The loop ends after an answer, at the turn limit or aborted, or something throws.
LoopEnds ==
  /\ run \notin {"none", "finally"} /\ Idle(Run)
  /\ run' = "finally"
  /\ UNCHANGED <<entries, file, lock, mem, pending, chat, op, sub, facts, astray, bounds>>

\* Faulty variant of Finally: no flush at the end of a run.
FinallyNoFlush ==
  /\ run = "finally" /\ Idle(Run)
  /\ run' = "none"
  /\ UNCHANGED <<entries, file, lock, mem, pending, chat, op, sub, facts, astray, bounds>>

\* The finally block flushes, and the session lane goes on.
Finally ==
  /\ run = "finally" /\ Idle(Run)
  /\ \/ pending[chat] # {} /\ Flush(Run, "none") /\ UNCHANGED run
     \/ pending[chat] = {} /\ run' = "none" /\ UNCHANGED <<entries, mem, op, pending, astray>>
  /\ UNCHANGED <<file, lock, chat, sub, facts, bounds>>

\* A subagent ends: its summary goes to the parent's session.
SubReports(a) ==
  /\ sub[a] = "works"
  /\ AppendMessage(a, "summary", {})
  /\ sub' = [sub EXCEPT ![a] = "reports"]
  /\ UNCHANGED <<file, lock, chat, run, facts, bounds>>
-----------------------------------------------------------------------------
(* persistEntry and rewriteSessionFile, under the lock.                    *)

GoOn(w, at) == op' = [op EXCEPT ![w].at = at]

\* fs.open(lockPath, "wx"): the lock file is made, or it is there already.
OpenLock(w) ==
  /\ op[w].at = "open"
  /\ \/ lock = NoLock /\ lock' = [owner |-> w, stamped |-> FALSE] /\ GoOn(w, "stamp")
     \/ lock # NoLock /\ GoOn(w, "inspect") /\ UNCHANGED lock
  /\ UNCHANGED <<entries, file, mem, pending, chat, run, sub, facts, astray, bounds>>

\* Its payload is written; into a file of no name when it has been removed.
StampLock(w) ==
  /\ op[w].at = "stamp"
  /\ GoOn(w, "write")
  /\ lock' = IF lock.owner = w THEN [lock EXCEPT !.stamped = TRUE] ELSE lock
  /\ UNCHANGED <<entries, file, mem, pending, chat, run, sub, facts, astray, bounds>>

\* Faulty variant of Stale: only a lock without payload, or a very old one.
StaleByAge == lock = NoLock \/ ~lock.stamped

\* No payload, or one of a process that is gone.
Stale == lock = NoLock \/ ~lock.stamped \/ lock.owner = Dead

\* Somebody's lock is read: is it stale, or to be waited for?
InspectLock(w) ==
  /\ op[w].at = "inspect"
  /\ GoOn(w, IF Stale THEN "remove" ELSE "open")
  /\ UNCHANGED <<entries, file, lock, mem, pending, chat, run, sub, facts, astray, bounds>>

\* fs.rm, of whichever lock file is there by now.
RemoveLock(w) ==
  /\ op[w].at = "remove"
  /\ lock' = NoLock /\ GoOn(w, "open")
  /\ UNCHANGED <<entries, file, mem, pending, chat, run, sub, facts, astray, bounds>>

\* Faulty variant of Content: put together before the entry is.
ContentBefore(w) ==
  LET ids == mem[Agent(w)].entries
  IN IF op[w].mode = "rewrite" THEN op[w].ids ELSE SubSeq(ids, 1, Len(ids) - 1)

\* What is to be in the file.
Content(w) == IF op[w].mode = "rewrite" THEN op[w].ids ELSE mem[Agent(w)].entries

\* A session that has not been written yet is written whole, any other entry added.
Write(w) ==
  /\ op[w].at = "write"
  /\ LET a == Agent(w) IN
     \/ /\ op[w].mode = "rewrite" \/ ~mem[a].flushed
        /\ file' = NoFile
        /\ op' = [op EXCEPT ![w].at = "fill", ![w].ids = Content(w)]
     \/ /\ op[w].mode = "append" /\ mem[a].flushed
        /\ file' = AddLine(file, op[w].id)
        /\ GoOn(w, "release")
  /\ UNCHANGED <<entries, lock, mem, pending, chat, run, sub, facts, astray, bounds>>

\* A rewrite takes what it drops out of the conversation.
LogOf(w) ==
  IF op[w].mode = "rewrite" THEN Without(log, Ids(log) \ Ids(op[w].ids)) ELSE log

\* Faulty variant of Fill: persistEntry does not return after the rewrite.
FillAndAdd(w) ==
  /\ op[w].at = "fill"
  /\ file' = IF op[w].mode = "rewrite" THEN Whole(op[w].ids)
             ELSE AddLine(Whole(op[w].ids), op[w].id)
  /\ mem' = [mem EXCEPT ![Agent(w)].flushed = TRUE]
  /\ log' = LogOf(w)
  /\ GoOn(w, "release")
  /\ UNCHANGED <<entries, lock, pending, chat, run, sub, excused, damaged, holed, astray, bounds>>

\* writeFile has emptied the file; now it writes over what may be there.
Fill(w) ==
  /\ op[w].at = "fill"
  /\ file' = Whole(op[w].ids)
  /\ mem' = [mem EXCEPT ![Agent(w)].flushed = TRUE]
  /\ log' = LogOf(w)
  /\ GoOn(w, "release")
  /\ UNCHANGED <<entries, lock, pending, chat, run, sub, excused, damaged, holed, astray, bounds>>

\* Faulty variant of CallsIn: any message of the assistant.
CallsInAny(id) == IF entries[id].kind \in Assistant THEN CallsOf(id) ELSE {}

\* extractToolUsesFromAssistant.
CallsIn(id) == IF entries[id].kind = "use" THEN CallsOf(id) ELSE {}

\* lock.release(), and what follows the await: append returns.  A message that
\* waited for the synthetic results is put down; tool calls become pending.
Release(w) ==
  /\ op[w].at = "release"
  /\ lock' = NoLock
  /\ log' = IF op[w].mode = "append" THEN Append(log, op[w].id) ELSE log
  /\ \/ /\ op[w].next # "none"
        /\ Put(w, op[w].next, {}, "none")
        /\ UNCHANGED <<pending, sub>>
     \/ /\ op[w].next = "none"
        /\ op' = [op EXCEPT ![w] = NoOp]
        /\ pending' = IF op[w].mode = "append"
                      THEN [pending EXCEPT ![Agent(w)] = @ \union CallsIn(op[w].id)]
                      ELSE pending
        /\ sub' = IF w = Run THEN sub ELSE [sub EXCEPT ![w] = "none"]
        /\ UNCHANGED <<entries, mem, astray>>
  /\ UNCHANGED <<file, chat, run, excused, damaged, holed, bounds>>

\* The tool_uses whose calls the entry answers, or the one that it is.
UsesOf(id) ==
  IF id = Null THEN {}
  ELSE {c[1] : c \in entries[id].answers} \union (IF entries[id].kind = "use" THEN {id} ELSE {})

\* The append throws: the wait for the lock is over, or the file cannot be
\* opened.  The run goes to its finally block; a subagent's error is only told.
Throw(w) ==
  /\ op[w].at \in {"open", "write"} /\ fails < MaxFails
  /\ fails' = fails + 1
  /\ lock' = IF op[w].at = "write" THEN NoLock ELSE lock
  /\ op' = [op EXCEPT ![w] = NoOp]
  /\ run' = IF w = Run THEN "finally" ELSE run
  /\ sub' = IF w = Run THEN sub ELSE [sub EXCEPT ![w] = "none"]
  /\ excused' = excused \union UsesOf(op[w].id)
  /\ holed' = IF op[w].mode = "append" THEN holed \union {Agent(w)} ELSE holed
  /\ UNCHANGED <<entries, file, mem, pending, chat, log, damaged, astray, subs, crashes>>

\* w's entry is on file, and its append has not returned.
Written(w) == op[w].at = "release" /\ op[w].mode = "append"

\* The process dies at any time.  Of the line or the file that is being written
\* any part may be there.  A lock stays, and its owner is dead.
Crash ==
  /\ crashes < MaxCrashes
  /\ crashes' = crashes + 1
  /\ run # "none" \/ \E a \in Chat : sub[a] # "none"
  /\ mem' = [a \in Chat |-> NewState] /\ pending' = [a \in Chat |-> {}]
  /\ op' = [w \in Writer |-> NoOp] /\ sub' = [a \in Chat |-> "none"]
  /\ run' = "none"
  /\ lock' = IF lock = NoLock THEN lock ELSE [lock EXCEPT !.owner = Dead]
  /\ excused' = excused \union {c[1] : c \in UNION {pending[a] : a \in Chat}}
                        \union UNION {UsesOf(op[w].id) : w \in Writer}
  /\ \/ /\ \A w \in Writer : op[w].at # "fill"
        /\ \/ (\A w \in Writer : ~Written(w)) /\ UNCHANGED log
           \/ \E w \in Writer : Written(w) /\ log' = Append(log, op[w].id)
        /\ UNCHANGED <<file, damaged>>
     \/ \E w \in Writer :
          /\ op[w].at = "write" /\ op[w].mode = "append" /\ mem[Agent(w)].flushed
          /\ file' \in CutLine(file, op[w].id)
          /\ damaged' = TRUE /\ UNCHANGED log
     \/ \E w \in Writer :
          /\ op[w].at = "fill"
          /\ file' \in PartOf(op[w].ids)
          /\ damaged' = (damaged \/ log # <<>> \/ file'.cut) /\ UNCHANGED log
  /\ UNCHANGED <<entries, chat, holed, astray, subs, fails>>

Proceed(w) ==
  \/ OpenLock(w) \/ StampLock(w) \/ InspectLock(w) \/ RemoveLock(w)
  \/ Write(w) \/ Fill(w) \/ Release(w)

RunSteps == Say \/ Regenerate \/ Turn \/ Spawn \/ Results \/ LoopEnds

Next ==
  \/ StartChat \/ RunSteps \/ Finally
  \/ \E w \in Writer : Proceed(w) \/ Throw(w)
  \/ \E a \in Chat : SubReports(a)
  \/ Crash

Fairness == WF_vars(RunSteps) /\ WF_vars(Finally) /\ \A w \in Writer : WF_vars(Proceed(w))

Spec == Init /\ [][Next]_vars /\ Fairness
-----------------------------------------------------------------------------
History == Path(entries, Loaded(file))
Quiet == run = "none" /\ \A w \in Writer : Idle(w)
Rewriting == \E w \in Writer : op[w].at = "fill"
Lines == Ids(file.lines)

\* What a restart, or the next chat, loads is the conversation so far, in order
\* and nothing else: every append that has returned, and perhaps the one whose
\* line is there already.  Not after a crash has cut a line or a rewrite (damaged);
\* nor after an entry was put behind one whose append had failed, or a summary was
\* written while a chat ran or after a later one began (astray).
ContextSurvivesRestart ==
  ~damaged /\ ~astray /\ ~Rewriting =>
    \/ History = log
    \/ \E w \in Writer : Written(w) /\ History = Append(log, op[w].id)

\* Once a run is over, each of its tool calls has exactly one result, with
\* nothing but results of the same message between: the guard's flushes cover
\* blocked tools, steering, aborts and errors.  Not when a crash or a failed
\* write took the results, nor when a summary came in between.
CallsAreAnswered ==
  Quiet /\ ~damaged /\ ~astray =>
    \A i \in DOMAIN History :
      entries[History[i]].kind = "use" /\ History[i] \notin excused =>
        \A c \in CallsOf(History[i]) :
          \E j \in DOMAIN History :
            \A k \in DOMAIN History :
              /\ c \in entries[History[k]].answers <=> k = j
              /\ k \in i + 1..j => /\ entries[History[k]].answers # {}
                                   /\ entries[History[k]].answers \subseteq CallsOf(History[i])

\* The promise of Transcript.  While the file is being rewritten, what was
\* acknowledged counts as kept: a crash then damages it, unless there is nothing.
\* Between two chats, and while nothing is written after a failure, nobody works
\* with the memory.
Stored == IF Rewriting THEN log ELSE History
Context ==
  IF chat \notin holed /\ (run \notin {"none", "finally"} \/ \E w \in Writer : ~Idle(w))
  THEN Path(entries, mem[chat])
  ELSE Stored
Promise == INSTANCE Transcript WITH
  context <- Context, kept <- Stored, told <- log, broken <- damaged \/ astray

\* Through retries, failed appends, crashes and changes of the lock's holder, a
\* chat's context, the file and what has been acknowledged follow each other entry
\* by entry, until a crash damages the file or an entry goes astray.
ImplementsTranscript == Promise!TranscriptSpec

\* No entry is in the file twice, although the first one to be persisted takes all
\* others with it and rewrites meet appends of other managers.
NoLineTwice ==
  \A i, j \in DOMAIN file.lines : file.lines[i] = file.lines[j] => i = j \/ file.lines[i] = Damaged

\* A message of a chat stays on file once its append has returned, whatever
\* summaries are written meanwhile and with two holders of the lock.  A summary
\* itself may be overwritten by a retry's rewrite, put together before it.
AcknowledgedStaysOnFile ==
  ~damaged /\ ~Rewriting =>
    \A i \in DOMAIN log : entries[log[i]].by # Run \/ log[i] \in Lines

\* Every chat comes to its end and every append returns, whoever left the lock.
EveryWriteReturns ==
  /\ []<>(run = "none")
  /\ \A w \in Writer : []<>Idle(w)
=============================================================================
