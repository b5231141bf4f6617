---------------------------- MODULE DeviceShell ----------------------------
(***************************************************************************)
(* What src/server/device-persistent-shell.ts promises its callers and the *)
(* device, without the machinery: calls line up, the first in line works   *)
(* alone and tries its command, perhaps more than once, in a shell that    *)
(* runs nothing else; a caller that is answered has had its command run to *)
(* its end; any other falls back, with nothing left running in the shell.  *)
(* Passwords, connections, probes, timers and retries do not appear.       *)
(***************************************************************************)
EXTENDS Sequences

CONSTANT Call

VARIABLES
  line,     \* the calls in the order in which they came
  working,  \* the first in line is at work
  running,  \* the calls whose command the shell is executing
  finished, \* the one at work has had its command executed to its end
  asker     \* call -> its caller is "idle", "waiting" for the shell, or on its own ("oneshot")

shellVars == <<line, working, running, finished, asker>>

ShellInit ==
  /\ line = <<>> /\ working = FALSE
  /\ running = {} /\ finished = FALSE
  /\ asker = [c \in Call |-> "idle"]

Ask(c) ==
  /\ asker[c] = "idle" /\ \A i \in DOMAIN line : line[i] # c
  /\ line' = Append(line, c)
  /\ asker' = [asker EXCEPT ![c] = "waiting"]
  /\ UNCHANGED <<working, running, finished>>

\* A caller gives up while its call is in line, where the call stays all the same.
GiveUp(c) ==
  /\ asker[c] = "waiting" /\ ~(working /\ line[1] = c)
  /\ asker' = [asker EXCEPT ![c] = "oneshot"]
  /\ UNCHANGED <<line, working, running, finished>>

Alone(c) ==
  /\ asker[c] = "oneshot"
  /\ asker' = [asker EXCEPT ![c] = "idle"]
  /\ UNCHANGED <<line, working, running, finished>>

Begin ==
  /\ ~working /\ line # <<>>
  /\ working' = TRUE
  /\ UNCHANGED <<line, running, finished, asker>>

Execute ==
  /\ working /\ running = {} /\ ~finished
  /\ running' = {line[1]}
  /\ UNCHANGED <<line, working, finished, asker>>

Finish ==
  /\ working /\ running = {line[1]}
  /\ running' = {} /\ finished' = TRUE
  /\ UNCHANGED <<line, working, asker>>

\* The attempt is off: the shell is hung up, or what it did does not count.
HangUp ==
  /\ working
  /\ running' = {} /\ finished' = FALSE
  /\ UNCHANGED <<line, working, asker>>

\* A caller that has given up takes no notice.
Return(answer) ==
  /\ working
  /\ answer = "idle" => finished
  /\ line' = Tail(line) /\ working' = FALSE
  /\ running' = {} /\ finished' = FALSE
  /\ asker' = [asker EXCEPT ![line[1]] = IF @ = "waiting" THEN answer ELSE @]

ShellNext ==
  \/ \E c \in Call : Ask(c) \/ GiveUp(c) \/ Alone(c)
  \/ Begin \/ Execute \/ Finish \/ HangUp
  \/ \E answer \in {"idle", "oneshot"} : Return(answer)

ShellSpec == ShellInit /\ [][ShellNext]_shellVars
=============================================================================
