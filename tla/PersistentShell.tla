-------------------------- MODULE PersistentShell --------------------------
(***************************************************************************)
(* src/server/device-persistent-shell.ts for one device: calls queue on an *)
(* AsyncMutex for the one interactive SSH session of the device, which is  *)
(* opened, probed, used, retried on and closed after a while.  The caller  *)
(* (execOnDevice, src/server/agent/tools/rdk-ssh-helper.ts) falls back to  *)
(* a one-shot SSH exec when its call of the shell is rejected.             *)
(*                                                                         *)
(* Steps are the stretches JavaScript runs without an await.  The device,  *)
(* the network and the clock are the environment: links break unnoticed,   *)
(* output arrives or not, events of ssh2 come late, timers fire.           *)
(***************************************************************************)
EXTENDS Integers, FiniteSets

CONSTANTS
  Call,        \* callers; each issues one command after the other
  Stoppable,   \* those of them that pass an abortSignal
  Conn,        \* SSH connections; one is reused when nothing refers to it
  None,        \* no call, no connection
  Candidates,  \* how many passwords buildSshPasswordCandidatesForDevice returns
  Right,       \* the index of the one the device accepts
  Retries,     \* PERSISTENT_SHELL_TRANSIENT_RETRIES
  MaxBreaks,   \* bound: links that break
  MaxAbandons  \* bound: acquire timeouts that hit

ASSUME ShellAssumption ==
  /\ IsFiniteSet(Call) /\ Stoppable \subseteq Call
  /\ None \notin Call /\ None \notin Conn
  /\ Candidates \in Nat /\ Right \in 1..Candidates
  /\ Retries \in Nat /\ MaxBreaks \in Nat /\ MaxAbandons \in Nat

VARIABLES
  caller,     \* call -> "idle", "waiting" for the shell, or in its "oneshot" exec
  aborted,    \* call -> its abortSignal
  tail,       \* AsyncMutex.tail: the call whose promise it is; None when settled
  after,      \* call -> the call whose promise its own is chained to; None when settled
  pending,    \* AsyncMutex.pending
  timer,      \* call -> its acquire timeout runs, and acquired.value is false
  at,         \* call -> where its function is
  cand,       \* call -> index of pwd in pwdList
  retry,      \* call -> retry
  using,      \* call -> s of runWithPassword
  seen,       \* call -> the token it waits for is in s.buffer
  current,    \* sessions.get(deviceId)
  link,       \* connection -> "up", "lost" and nobody knows, or "ended"
  streamOpen, \* connection -> the stream's close event is yet to come
  dead,       \* connection -> s.dead
  idle,       \* connection -> s.idleTimer runs
  exec,       \* connection -> commands its remote shell has read, not finished
  breaks, abandons \* so many links broke and acquire timeouts hit

mutexVars == <<tail, after, pending, timer, abandons>>
runVars   == <<at, cand, retry, using, seen>>
connVars  == <<current, link, streamOpen, dead, idle, exec>>
vars == <<caller, aborted, mutexVars, runVars, connVars, breaks>>

Phase == {"none", "chained", "connecting", "greeting", "probing", "executing", "pausing"}

TypeOK ==
  /\ caller \in [Call -> {"idle", "waiting", "oneshot"}]
  /\ aborted \in [Call -> BOOLEAN] /\ timer \in [Call -> BOOLEAN]
  /\ tail \in Call \union {None} /\ after \in [Call -> Call \union {None}]
  /\ pending \in Int
  /\ at \in [Call -> Phase] /\ seen \in [Call -> BOOLEAN]
  /\ cand \in [Call -> 1..Candidates] /\ retry \in [Call -> 0..Retries]
  /\ using \in [Call -> Conn \union {None}]
  /\ current \in Conn \union {None}
  /\ link \in [Conn -> {"up", "lost", "ended"}]
  /\ streamOpen \in [Conn -> BOOLEAN] /\ dead \in [Conn -> BOOLEAN]
  /\ idle \in [Conn -> BOOLEAN] /\ exec \in [Conn -> SUBSET Call]
  /\ breaks \in 0..MaxBreaks /\ abandons \in 0..MaxAbandons

Init ==
  /\ caller = [c \in Call |-> "idle"] /\ aborted = [c \in Call |-> FALSE]
  /\ tail = None /\ after = [c \in Call |-> None]
  /\ pending = 0 /\ timer = [c \in Call |-> FALSE]
  /\ at = [c \in Call |-> "none"] /\ seen = [c \in Call |-> FALSE]
  /\ cand = [c \in Call |-> 1] /\ retry = [c \in Call |-> 0]
  /\ using = [c \in Call |-> None] /\ current = None
  /\ link = [k \in Conn |-> "ended"] /\ streamOpen = [k \in Conn |-> FALSE]
  /\ dead = [k \in Conn |-> FALSE] /\ idle = [k \in Conn |-> FALSE]
  /\ exec = [k \in Conn |-> {}] /\ breaks = 0 /\ abandons = 0

\* destroySession, starting from the links L and the idle timers I: whatever
\* session the map holds is closed, its timer cleared.  Its close event comes
\* later; the remote shell is hung up.
Destroy(L, I) ==
  /\ current' = None
  /\ link' = [k \in Conn |-> IF k = current THEN "ended" ELSE L[k]]
  /\ idle' = [k \in Conn |-> k # current /\ I[k]]
  /\ exec' = [k \in Conn |-> IF k = current THEN {} ELSE exec[k]]
  /\ UNCHANGED dead
-----------------------------------------------------------------------------
(* AsyncMutex.run and the caller.                                          *)

\* run() returns the bare promise when `pending <= 1` after counting itself.
ArmsTimer(n) == n > 1

CallShell(c) ==
  /\ caller[c] = "idle" /\ at[c] = "none"
  /\ caller' = [caller EXCEPT ![c] = "waiting"]
  /\ aborted' = [aborted EXCEPT ![c] = FALSE]
  /\ after' = [after EXCEPT ![c] = tail]
  /\ tail' = c
  /\ pending' = pending + 1
  /\ timer' = [timer EXCEPT ![c] = ArmsTimer(pending + 1)]
  /\ at' = [at EXCEPT ![c] = "chained"]
  /\ UNCHANGED <<cand, retry, using, seen, connVars, breaks, abandons>>

\* The acquire timeout: the caller is told, but its function stays chained.  A
\* function whose turn has come starts before any timer fires.
AcquireTimesOut(c) ==
  /\ timer[c] /\ caller[c] = "waiting" /\ abandons < MaxAbandons
  /\ \A d \in Call : at[d] = "chained" => after[d] # None
  /\ abandons' = abandons + 1
  /\ pending' = pending - 1
  /\ timer' = [timer EXCEPT ![c] = FALSE]
  /\ caller' = [caller EXCEPT ![c] = "oneshot"]
  /\ UNCHANGED <<aborted, tail, after, runVars, connVars, breaks>>

\* runRemoteCommands of the fallback ends, one way or the other.
OneShotEnds(c) ==
  /\ caller[c] = "oneshot"
  /\ caller' = [caller EXCEPT ![c] = "idle"]
  /\ UNCHANGED <<aborted, mutexVars, runVars, connVars, breaks>>

\* Faulty variant of MyTurn: the chain goes on from the raced promise, which is
\* settled when the acquire timeout of the call before has hit.
MyTurnAfterRace(c) == after[c] # None => caller[after[c]] # "waiting"

MyTurn(c) == after[c] = None

\* c's function ends; the chain goes on even when it has thrown.  A caller that
\* still waits has its output, or falls back; any other takes no notice.
End(c, ok) ==
  /\ at' = [at EXCEPT ![c] = "none"]
  /\ cand' = [cand EXCEPT ![c] = 1]
  /\ retry' = [retry EXCEPT ![c] = 0]
  /\ using' = [using EXCEPT ![c] = None]
  /\ seen' = [seen EXCEPT ![c] = FALSE]
  /\ tail' = IF tail = c THEN None ELSE tail
  /\ after' = [d \in Call |-> IF d = c \/ after[d] = c THEN None ELSE after[d]]
  /\ timer' = [timer EXCEPT ![c] = FALSE]
  /\ caller' = [caller EXCEPT ![c] =
                  IF @ # "waiting" THEN @ ELSE IF ok THEN "idle" ELSE "oneshot"]
  /\ UNCHANGED <<pending, abandons>>
-----------------------------------------------------------------------------
(* runWithPassword, and the loops around it.                               *)

GoTo(c, phase) ==
  /\ at' = [at EXCEPT ![c] = phase]
  /\ seen' = [seen EXCEPT ![c] = FALSE]

\* Faulty variant of BeginAttempt: a session that is to be recycled is dropped
\* from the map by overwriting it.
BeginAttemptOver(c) ==
  \/ /\ current # None /\ ~dead[current]
     /\ GoTo(c, "probing")
     /\ using' = [using EXCEPT ![c] = current]
     /\ UNCHANGED <<current, link, dead, idle, exec>>
  \/ /\ GoTo(c, "connecting")
     /\ using' = [using EXCEPT ![c] = None]
     /\ UNCHANGED <<current, link, dead, idle, exec>>

\* Up to the first await: reuse the session and write the ping, or recycle it,
\* if there is one, and connect.  shouldRecycleSession also says so of an old
\* session and of one for another address, which can be the case any time.
BeginAttempt(c) ==
  \/ /\ current # None /\ ~dead[current]
     /\ GoTo(c, "probing")
     /\ using' = [using EXCEPT ![c] = current]
     /\ UNCHANGED <<current, link, dead, idle, exec>>
  \/ /\ GoTo(c, "connecting")
     /\ using' = [using EXCEPT ![c] = None]
     /\ Destroy(link, idle)

\* Faulty variant of Acquired: acquired.value is not set.
AcquiredUnmarked(c) == timer

\* acquired.value = true: the acquire timeout has no effect any more.
Acquired(c) == [timer EXCEPT ![c] = FALSE]

\* The mutex lets c's function run; it has not looked at abortSignal.
Start(c) ==
  /\ at[c] = "chained" /\ MyTurn(c)
  /\ pending' = pending - 1
  /\ timer' = Acquired(c)
  /\ BeginAttempt(c)
  /\ UNCHANGED <<caller, aborted, tail, after, abandons, cand, retry, streamOpen, breaks>>

\* Faulty variant of MayRetry: one retry more than there are.
MayRetryOnceMore(c) == retry[c] <= Retries

MayRetry(c) == retry[c] < Retries

\* The catch block.  An authentication error ends everything and leaves the map
\* alone; any other destroys whatever session there is; a transient one goes on
\* with the next password and, after the last, pauses and starts over.
Fail(c, kind) ==
  \/ /\ kind = "auth"
     /\ End(c, FALSE)
     /\ UNCHANGED <<current, link, dead, idle, exec>>
  \/ /\ \/ kind = "other"
        \/ kind = "transient" /\ cand[c] = Candidates /\ ~MayRetry(c)
     /\ End(c, FALSE) /\ Destroy(link, idle)
  \/ /\ kind = "transient" /\ cand[c] < Candidates
     /\ cand' = [cand EXCEPT ![c] = @ + 1]
     /\ using' = [using EXCEPT ![c] = None]
     /\ GoTo(c, "connecting") /\ Destroy(link, idle)
     /\ UNCHANGED <<caller, mutexVars, retry>>
  \/ /\ kind = "transient" /\ cand[c] = Candidates /\ MayRetry(c)
     /\ using' = [using EXCEPT ![c] = None]
     /\ GoTo(c, "pausing") /\ Destroy(link, idle)
     /\ UNCHANGED <<caller, mutexVars, cand, retry>>

PauseOver(c) ==
  /\ at[c] = "pausing"
  /\ retry' = [retry EXCEPT ![c] = @ + 1]
  /\ cand' = [cand EXCEPT ![c] = 1]
  /\ BeginAttempt(c)
  /\ UNCHANGED <<caller, aborted, mutexVars, streamOpen, breaks>>

Forgotten(k) ==
  /\ link[k] = "ended" /\ ~streamOpen[k] /\ ~idle[k]
  /\ \A c \in Call : using[c] # k

\* The SSH server accepts the password and opens the PTY; the session is stored
\* and its shell told to say READY.
Connected(c, k) ==
  /\ at[c] = "connecting" /\ cand[c] = Right /\ Forgotten(k)
  /\ current' = k
  /\ link' = [link EXCEPT ![k] = "up"]
  /\ streamOpen' = [streamOpen EXCEPT ![k] = TRUE]
  /\ dead' = [dead EXCEPT ![k] = FALSE]
  /\ exec' = [exec EXCEPT ![k] = {}]
  /\ using' = [using EXCEPT ![c] = k]
  /\ GoTo(c, "greeting")
  /\ UNCHANGED <<caller, aborted, mutexVars, cand, retry, idle, breaks>>

\* No connection: refused, reset, timed out; an unknown host; a wrong password.
NotConnected(c) ==
  /\ at[c] = "connecting"
  /\ \/ Fail(c, "transient")
     \/ Fail(c, "other")
     \/ cand[c] # Right /\ Fail(c, "auth")
  /\ UNCHANGED <<aborted, streamOpen, breaks>>

\* READY, the ping or the exit marker arrives, which takes a link and a remote
\* shell that is not busy with another command.
TokenArrives(c) ==
  /\ at[c] \in {"greeting", "probing", "executing"} /\ ~seen[c]
  /\ using[c] \in Conn /\ link[using[c]] = "up" /\ exec[using[c]] \subseteq {c}
  /\ seen' = [seen EXCEPT ![c] = TRUE]
  /\ exec' = [exec EXCEPT ![using[c]] = {}]
  /\ UNCHANGED <<caller, aborted, mutexVars, at, cand, retry, using,
                 current, link, streamOpen, dead, idle, breaks>>

\* The session answers: stop its idle timer, write the command, and only then
\* look at abortSignal.
WriteCommand(c) ==
  /\ at[c] \in {"greeting", "probing"} /\ seen[c]
  /\ \/ /\ ~aborted[c]
        /\ GoTo(c, "executing")
        /\ idle' = [idle EXCEPT ![using[c]] = FALSE]
        /\ exec' = [exec EXCEPT ![using[c]] = IF link[using[c]] = "up" THEN @ \union {c} ELSE @]
        /\ UNCHANGED <<caller, mutexVars, cand, retry, using, current, link, dead>>
     \/ aborted[c] /\ Fail(c, "other")
  /\ UNCHANGED <<aborted, streamOpen, breaks>>

\* No READY: an error that counts as final.  No echo of the ping: a transient one.
NoAnswer(c) ==
  /\ ~seen[c]
  /\ \/ at[c] = "greeting" /\ Fail(c, "other")
     \/ at[c] = "probing" /\ Fail(c, "transient")
  /\ UNCHANGED <<aborted, streamOpen, breaks>>
-----------------------------------------------------------------------------
(* collectUntilExitMarker.                                                 *)

\* Faulty variant of Rearm: scheduleIdleClose is left out.
RearmNot(c) == idle

\* scheduleIdleClose(s): whether or not s is still in the map.
Rearm(c) == [idle EXCEPT ![using[c]] = TRUE]

\* The poll of every 25 ms: a dead session is noticed before a marker that has
\* arrived all the same.
Poll(c) ==
  /\ at[c] = "executing"
  /\ \/ dead[using[c]] /\ Fail(c, "transient")
     \/ /\ ~dead[using[c]] /\ seen[c]
        /\ End(c, TRUE)
        /\ idle' = Rearm(c)
        /\ UNCHANGED <<current, link, dead, exec>>
  /\ UNCHANGED <<aborted, streamOpen, breaks>>

\* Faulty variant of CommandTimesOut: only a link known to be dead ends the wait.
CommandTimesOutIfDead(c) ==
  /\ at[c] = "executing" /\ dead[using[c]]
  /\ Fail(c, "other")
  /\ UNCHANGED <<aborted, streamOpen, breaks>>

\* timeoutMs, or maxIdleOutputMs without new output.
CommandTimesOut(c) ==
  /\ at[c] = "executing"
  /\ Fail(c, "other")
  /\ UNCHANGED <<aborted, streamOpen, breaks>>

\* The run is stopped: only collectUntilExitMarker listens to the signal.
Abort(c) ==
  /\ c \in Stoppable /\ ~aborted[c] /\ (caller[c] # "idle" \/ at[c] # "none")
  /\ aborted' = [aborted EXCEPT ![c] = TRUE]
  /\ \/ at[c] = "executing" /\ Fail(c, "other")
     \/ at[c] # "executing" /\ UNCHANGED <<caller, mutexVars, runVars, current, link, dead, idle, exec>>
  /\ UNCHANGED <<streamOpen, breaks>>
-----------------------------------------------------------------------------
(* The network, ssh2's events and the idle timers.                         *)

Break(k) ==
  /\ link[k] = "up" /\ breaks < MaxBreaks
  /\ breaks' = breaks + 1
  /\ link' = [link EXCEPT ![k] = "lost"]
  /\ exec' = [exec EXCEPT ![k] = {}]
  /\ UNCHANGED <<caller, aborted, mutexVars, runVars, current, streamOpen, dead, idle>>

\* client error, close, end: markDead, for the session in the map only.
ClientCloses(k) ==
  /\ link[k] = "lost" /\ current = k /\ ~dead[k]
  /\ dead' = [dead EXCEPT ![k] = TRUE]
  /\ UNCHANGED <<caller, aborted, mutexVars, runVars, current, link, streamOpen, idle, exec, breaks>>

\* stream close: destroySession(deviceId), whichever session that is by now.
StreamCloses(k) ==
  /\ streamOpen[k] /\ link[k] # "up"
  /\ streamOpen' = [streamOpen EXCEPT ![k] = FALSE]
  /\ Destroy([link EXCEPT ![k] = "ended"], idle)
  /\ UNCHANGED <<caller, aborted, mutexVars, runVars, breaks>>

\* s.idleTimer: destroySession(s.deviceId), the same.
IdleTimerFires(k) ==
  /\ idle[k]
  /\ Destroy(link, [idle EXCEPT ![k] = FALSE])
  /\ UNCHANGED <<caller, aborted, mutexVars, runVars, streamOpen, breaks>>

\* What c's function does by itself: every await of it has a timeout.
Proceed(c) ==
  \/ Start(c) \/ NotConnected(c) \/ WriteCommand(c) \/ NoAnswer(c)
  \/ Poll(c) \/ CommandTimesOut(c) \/ PauseOver(c)
  \/ \E k \in Conn : Connected(c, k)

Next ==
  \/ \E c \in Call : CallShell(c) \/ AcquireTimesOut(c) \/ OneShotEnds(c)
                     \/ Proceed(c) \/ TokenArrives(c) \/ Abort(c)
  \/ \E k \in Conn : Break(k) \/ ClientCloses(k) \/ StreamCloses(k) \/ IdleTimerFires(k)

\* Timers fire: the shell's own, and those of runRemoteCommands.
Fairness == \A c \in Call : WF_vars(Proceed(c)) /\ WF_vars(OneShotEnds(c))

Spec == Init /\ [][Next]_vars /\ Fairness
-----------------------------------------------------------------------------
\* The map never loses a connection that is still open: with every step that
\* drops or replaces its session, destroySession has closed it (l.158-173,
\* 298-301, 345).  Calls overlap, sessions are recycled and events come late.
NoOrphanConnection == \A k \in Conn : link[k] # "ended" => current = k

\* A remote shell never has two commands at once, although calls overlap, a
\* waiter may be abandoned and a session may vanish under its user (l.89-97).
OneCommandPerShell == \A k \in Conn : Cardinality(exec[k]) <= 1

\* The session in the map closes by itself when nobody uses it: its idle timer
\* runs, whatever ended its last command (l.151-156, 384, 397).
UnusedSessionHasIdleTimer ==
  current # None /\ (\A c \in Call : using[c] # current) => idle[current]

\* A caller falls back to the one-shot exec while its function still waits for the
\* mutex, or when that has ended: never while it works on the session, however
\* late the acquire timeout comes (l.94, 105; rdk-ssh-helper.ts l.136-148).
FallbackOnlyWhenShellIsOut ==
  [][\A c \in Call : caller[c] = "waiting" /\ caller'[c] = "oneshot"
                     => at[c] = "chained" \/ at'[c] = "none"]_vars

\* A call that has given up the persistent shell, as the acquire timeout is said
\* to do (l.82), has no command running in it.
AbandonedCallStaysOut == \A c \in Call : at[c] = "executing" => caller[c] = "waiting"

\* The promise of DeviceShell.  The calls whose function has not ended stand in the
\* order of their chain of promises; the function of the first may be at work.
InLine == {c \in Call : at[c] # "none"}
Line ==
  CHOOSE q \in [1..Cardinality(InLine) -> InLine] :
    \A i \in DOMAIN q : after[q[i]] = IF i = 1 THEN None ELSE q[i - 1]
Promise == INSTANCE DeviceShell WITH
  line <- Line,
  working <- \E c \in InLine : at[c] # "chained",
  running <- UNION {exec[k] : k \in Conn},
  finished <- \E c \in Call : at[c] = "executing" /\ seen[c],
  asker <- caller

\* Whatever acquire timeouts, transient errors, dying links and late events do: calls
\* have their turn in the order they came, abandoned ones too; only the call at work
\* has a command in a shell, one at a time; a caller is given an output only after its
\* command has ended there in this turn, and falls back with nothing of its own running.
ImplementsDeviceShell == Promise!ShellSpec

\* Every call is answered, whatever the network, the mutex and the other calls do.
EveryCallReturns == \A c \in Call : []<>(caller[c] = "idle")
=============================================================================
