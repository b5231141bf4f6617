----------------------- MODULE PersistentShellProofs -----------------------
(***************************************************************************)
(* Theorems of PersistentShell, for every finite set of calls, every set   *)
(* of connections and every number of passwords and retries.               *)
(*                                                                         *)
(* The mutex is a chain of promises.  ChainInv says that there is a queue  *)
(* of all calls whose function has not ended, each chained to the one      *)
(* before; a function works only at its head, so one works at a time.      *)
(* What the session's parts have to do with each other follows from that,  *)
(* and so does, at the end, that the whole implements DeviceShell.         *)
(***************************************************************************)
EXTENDS PersistentShell, Sequences, FiniteSetTheorems, TLAPS

Works(c) == at[c] \notin {"none", "chained"}

\* q: the calls in the order in which the mutex lets them run.
Chain(q) ==
  /\ q \in Seq(Call)
  /\ \A i, j \in 1..Len(q) : q[i] = q[j] => i = j
  /\ \A c \in Call : at[c] # "none" <=> \E i \in 1..Len(q) : q[i] = c
  /\ \A c \in Call : at[c] = "none" => after[c] = None
  /\ \A i \in 1..Len(q) : after[q[i]] = IF i = 1 THEN None ELSE q[i - 1]
  /\ tail = IF q = <<>> THEN None ELSE q[Len(q)]

ChainInv ==
  /\ \E q \in Seq(Call) : Chain(q)
  /\ \A c \in Call : Works(c) => after[c] = None

OneWorks == \A c, d \in Call : Works(c) /\ Works(d) => c = d

\* Whoever connects or pauses has seen to it that there is no session.
NoSessionInv == \A c \in Call : at[c] \in {"connecting", "pausing"} => current = None

\* What a remote shell works on is the command of the call that waits for it.
ExecInv ==
  \A k \in Conn : \A c \in exec[k] :
    link[k] = "up" /\ at[c] = "executing" /\ using[c] = k /\ ~seen[c]

TimerInv == \A c \in Call : timer[c] => at[c] = "chained"

RetryInv == \A c \in Call : at[c] = "pausing" => retry[c] < Retries

Chained == {c \in Call : at[c] = "chained"}

\* `pending` is counted down for an abandoned call and again when its turn comes.
PendingInv == pending = Cardinality(Chained) - abandons

IInv ==
  /\ TypeOK /\ RetryInv
  /\ ChainInv
  /\ NoSessionInv /\ NoOrphanConnection /\ ExecInv
  /\ UnusedSessionHasIdleTimer
  /\ TimerInv /\ PendingInv
-----------------------------------------------------------------------------
\* Types of the parts that several actions share.
DestroyTypes ==
  /\ current' \in Conn \union {None} /\ link' \in [Conn -> {"up", "lost", "ended"}]
  /\ dead' \in [Conn -> BOOLEAN] /\ idle' \in [Conn -> BOOLEAN]
  /\ exec' \in [Conn -> SUBSET Call]

EndTypes ==
  /\ caller' \in [Call -> {"idle", "waiting", "oneshot"}]
  /\ tail' \in Call \union {None} /\ after' \in [Call -> Call \union {None}]
  /\ pending' \in Int /\ timer' \in [Call -> BOOLEAN] /\ abandons' \in 0..MaxAbandons
  /\ at' \in [Call -> Phase] /\ seen' \in [Call -> BOOLEAN]
  /\ cand' \in [Call -> 1..Candidates] /\ retry' \in [Call -> 0..Retries]
  /\ using' \in [Call -> Conn \union {None}]
  /\ \A d \in Call : at'[d] = "pausing" => retry'[d] < Retries

LEMMA DestroyTyped ==
  ASSUME TypeOK, NEW L \in [Conn -> {"up", "lost", "ended"}], NEW I \in [Conn -> BOOLEAN],
         Destroy(L, I)
  PROVE  DestroyTypes
BY DEF TypeOK, Destroy, DestroyTypes

LEMMA EndTyped ==
  ASSUME TypeOK, RetryInv, NEW c \in Call, NEW ok \in BOOLEAN, End(c, ok)
  PROVE  EndTypes
<1>1. /\ tail' \in Call \union {None} /\ after' \in [Call -> Call \union {None}]
      /\ pending' \in Int /\ abandons' \in 0..MaxAbandons
  BY DEF TypeOK, End
<1>2. /\ timer' \in [Call -> BOOLEAN] /\ seen' \in [Call -> BOOLEAN]
      /\ using' \in [Call -> Conn \union {None}] /\ at' \in [Call -> Phase]
  BY DEF TypeOK, End, Phase
<1>3. cand' \in [Call -> 1..Candidates] /\ retry' \in [Call -> 0..Retries]
  BY ShellAssumption DEF TypeOK, End
<1>4. \A d \in Call : at'[d] = "pausing" => retry'[d] < Retries
  BY DEF TypeOK, End, RetryInv
<1>5. caller' \in [Call -> {"idle", "waiting", "oneshot"}]
  BY DEF TypeOK, End
<1> QED
  BY <1>1, <1>2, <1>3, <1>4, <1>5 DEF EndTypes

LEMMA FailTyped ==
  ASSUME TypeOK, RetryInv, NEW c \in Call, NEW kind, Fail(c, kind)
  PROVE  EndTypes /\ DestroyTypes
<1>1. CASE End(c, FALSE) /\ UNCHANGED <<current, link, dead, idle, exec>>
  BY <1>1, EndTyped DEF TypeOK, DestroyTypes
<1>2. CASE End(c, FALSE) /\ Destroy(link, idle)
  BY <1>2, EndTyped, DestroyTyped DEF TypeOK
<1>3. CASE /\ cand[c] < Candidates
           /\ cand' = [cand EXCEPT ![c] = @ + 1]
           /\ using' = [using EXCEPT ![c] = None]
           /\ GoTo(c, "connecting") /\ Destroy(link, idle)
           /\ UNCHANGED <<caller, mutexVars, retry>>
  <2>1. DestroyTypes
    BY <1>3, DestroyTyped DEF TypeOK
  <2>2. EndTypes
    BY <1>3, ShellAssumption DEF TypeOK, RetryInv, EndTypes, GoTo, mutexVars, Phase
  <2> QED
    BY <2>1, <2>2
<1>4. CASE /\ MayRetry(c)
           /\ using' = [using EXCEPT ![c] = None]
           /\ GoTo(c, "pausing") /\ Destroy(link, idle)
           /\ UNCHANGED <<caller, mutexVars, cand, retry>>
  <2>1. DestroyTypes
    BY <1>4, DestroyTyped DEF TypeOK
  <2>2. EndTypes
    BY <1>4 DEF TypeOK, RetryInv, EndTypes, GoTo, mutexVars, Phase, MayRetry
  <2> QED
    BY <2>1, <2>2
<1> QED
  BY <1>1, <1>2, <1>3, <1>4 DEF Fail

LEMMA BeginAttemptTyped ==
  ASSUME TypeOK, NEW c \in Call, BeginAttempt(c)
  PROVE  /\ DestroyTypes
         /\ at' \in [Call -> Phase] /\ seen' \in [Call -> BOOLEAN]
         /\ using' \in [Call -> Conn \union {None}]
         /\ \A d \in Call : at'[d] = "pausing" => d # c /\ at[d] = "pausing"
<1>1. DestroyTypes
  BY DestroyTyped DEF TypeOK, BeginAttempt, DestroyTypes
<1>2. PICK phase \in {"probing", "connecting"} : GoTo(c, phase)
  BY DEF BeginAttempt
<1>3. /\ at' \in [Call -> Phase] /\ seen' \in [Call -> BOOLEAN]
      /\ \A d \in Call : at'[d] = "pausing" => d # c /\ at[d] = "pausing"
  BY <1>2 DEF TypeOK, GoTo, Phase
<1>4. using' \in [Call -> Conn \union {None}]
  BY DEF TypeOK, BeginAttempt
<1> QED
  BY <1>1, <1>3, <1>4

\* What is left to be typed once the parts are.
LEMMA TypedByParts ==
  ASSUME EndTypes, DestroyTypes,
         aborted' \in [Call -> BOOLEAN], streamOpen' \in [Conn -> BOOLEAN],
         breaks' \in 0..MaxBreaks
  PROVE  TypeOK' /\ RetryInv'
BY DEF TypeOK, RetryInv, EndTypes, DestroyTypes

LEMMA TypeInit == Init => TypeOK /\ RetryInv
BY ShellAssumption DEF Init, TypeOK, RetryInv, Phase

LEMMA TypeStep ==
  ASSUME TypeOK, RetryInv, [Next]_vars
  PROVE  TypeOK' /\ RetryInv'
<1> USE DEF mutexVars, runVars, connVars
<1>1. ASSUME NEW c \in Call, CallShell(c) PROVE TypeOK' /\ RetryInv'
  <2>1. EndTypes
    BY <1>1 DEF TypeOK, RetryInv, CallShell, EndTypes, ArmsTimer, Phase
  <2> QED
    BY <1>1, <2>1, TypedByParts DEF TypeOK, CallShell, DestroyTypes
<1>2. ASSUME NEW c \in Call, AcquireTimesOut(c) PROVE TypeOK' /\ RetryInv'
  <2>1. EndTypes
    BY <1>2, ShellAssumption DEF TypeOK, RetryInv, AcquireTimesOut, EndTypes
  <2> QED
    BY <1>2, <2>1, TypedByParts DEF TypeOK, AcquireTimesOut, DestroyTypes
<1>3. ASSUME NEW c \in Call, OneShotEnds(c) PROVE TypeOK' /\ RetryInv'
  BY <1>3 DEF TypeOK, RetryInv, OneShotEnds
<1>4. ASSUME NEW c \in Call, Start(c) PROVE TypeOK' /\ RetryInv'
  <2>1. EndTypes /\ DestroyTypes
    BY <1>4, BeginAttemptTyped DEF TypeOK, RetryInv, Start, EndTypes, Acquired
  <2> QED
    BY <1>4, <2>1, TypedByParts DEF TypeOK, Start
<1>5. ASSUME NEW c \in Call, NotConnected(c) PROVE TypeOK' /\ RetryInv'
  BY <1>5, FailTyped, TypedByParts DEF TypeOK, NotConnected
<1>6. ASSUME NEW c \in Call, WriteCommand(c) PROVE TypeOK' /\ RetryInv'
  <2>1. CASE /\ GoTo(c, "executing")
             /\ idle' = [idle EXCEPT ![using[c]] = FALSE]
             /\ exec' = [exec EXCEPT ![using[c]] = IF link[using[c]] = "up" THEN @ \union {c} ELSE @]
             /\ UNCHANGED <<caller, mutexVars, cand, retry, using, current, link, dead>>
    <3>1. EndTypes
      BY <2>1 DEF TypeOK, RetryInv, EndTypes, GoTo, Phase
    <3>2. exec' \in [Conn -> SUBSET Call]
      BY <2>1 DEF TypeOK
    <3>3. DestroyTypes
      BY <2>1, <3>2 DEF TypeOK, DestroyTypes
    <3> QED
      BY <1>6, <3>1, <3>3, TypedByParts DEF TypeOK, WriteCommand
  <2>2. CASE Fail(c, "other")
    BY <1>6, <2>2, FailTyped, TypedByParts DEF TypeOK, WriteCommand
  <2> QED
    BY <1>6, <2>1, <2>2 DEF WriteCommand
<1>7. ASSUME NEW c \in Call, NoAnswer(c) PROVE TypeOK' /\ RetryInv'
  BY <1>7, FailTyped, TypedByParts DEF TypeOK, NoAnswer
<1>8. ASSUME NEW c \in Call, Poll(c) PROVE TypeOK' /\ RetryInv'
  <2>1. CASE Fail(c, "transient")
    BY <1>8, <2>1, FailTyped, TypedByParts DEF TypeOK, Poll
  <2>2. CASE End(c, TRUE) /\ idle' = Rearm(c) /\ UNCHANGED <<current, link, dead, exec>>
    <3>1. EndTypes
      BY <2>2, EndTyped
    <3>2. DestroyTypes
      BY <2>2 DEF TypeOK, DestroyTypes, Rearm
    <3> QED
      BY <1>8, <3>1, <3>2, TypedByParts DEF TypeOK, Poll
  <2> QED
    BY <1>8, <2>1, <2>2 DEF Poll
<1>9. ASSUME NEW c \in Call, CommandTimesOut(c) PROVE TypeOK' /\ RetryInv'
  BY <1>9, FailTyped, TypedByParts DEF TypeOK, CommandTimesOut
<1>10. ASSUME NEW c \in Call, PauseOver(c) PROVE TypeOK' /\ RetryInv'
  <2>1. retry' \in [Call -> 0..Retries] /\ cand' \in [Call -> 1..Candidates]
    BY <1>10, ShellAssumption DEF TypeOK, RetryInv, PauseOver
  <2>2. \A d \in Call : at'[d] = "pausing" => retry'[d] < Retries
    BY <1>10, BeginAttemptTyped DEF TypeOK, RetryInv, PauseOver
  <2>3. EndTypes /\ DestroyTypes
    BY <1>10, <2>1, <2>2, BeginAttemptTyped DEF TypeOK, PauseOver, EndTypes
  <2> QED
    BY <1>10, <2>3, TypedByParts DEF TypeOK, PauseOver
<1>11. ASSUME NEW c \in Call, NEW k \in Conn, Connected(c, k) PROVE TypeOK' /\ RetryInv'
  <2>1. EndTypes
    BY <1>11 DEF TypeOK, RetryInv, Connected, EndTypes, GoTo, Phase
  <2> QED
    BY <1>11, <2>1, TypedByParts DEF TypeOK, Connected, DestroyTypes
<1>12. ASSUME NEW c \in Call, TokenArrives(c) PROVE TypeOK' /\ RetryInv'
  <2>1. exec' \in [Conn -> SUBSET Call] /\ seen' \in [Call -> BOOLEAN]
    BY <1>12 DEF TypeOK, TokenArrives
  <2> QED
    BY <1>12, <2>1 DEF TypeOK, RetryInv, TokenArrives
<1>13. ASSUME NEW c \in Call, Abort(c) PROVE TypeOK' /\ RetryInv'
  <2>1. aborted' \in [Call -> BOOLEAN] /\ streamOpen' \in [Conn -> BOOLEAN] /\ breaks' \in 0..MaxBreaks
    BY <1>13 DEF TypeOK, Abort
  <2>2. CASE Fail(c, "other")
    BY <2>1, <2>2, FailTyped, TypedByParts
  <2>3. CASE UNCHANGED <<caller, mutexVars, runVars, current, link, dead, idle, exec>>
    BY <2>1, <2>3 DEF TypeOK, RetryInv
  <2> QED
    BY <1>13, <2>2, <2>3 DEF Abort
<1>14. ASSUME NEW k \in Conn, Break(k) PROVE TypeOK' /\ RetryInv'
  <2>1. exec' \in [Conn -> SUBSET Call] /\ breaks' \in 0..MaxBreaks
    BY <1>14, ShellAssumption DEF TypeOK, Break
  <2> QED
    BY <1>14, <2>1 DEF TypeOK, RetryInv, Break
<1>15. ASSUME NEW k \in Conn, ClientCloses(k) PROVE TypeOK' /\ RetryInv'
  BY <1>15 DEF TypeOK, RetryInv, ClientCloses
<1>16. ASSUME NEW k \in Conn, StreamCloses(k) PROVE TypeOK' /\ RetryInv'
  <2>1. [link EXCEPT ![k] = "ended"] \in [Conn -> {"up", "lost", "ended"}]
    BY DEF TypeOK
  <2>2. DestroyTypes
    BY <1>16, <2>1, DestroyTyped DEF TypeOK, StreamCloses
  <2> QED
    BY <1>16, <2>2 DEF TypeOK, RetryInv, StreamCloses, DestroyTypes
<1>17. ASSUME NEW k \in Conn, IdleTimerFires(k) PROVE TypeOK' /\ RetryInv'
  <2>1. [idle EXCEPT ![k] = FALSE] \in [Conn -> BOOLEAN]
    BY DEF TypeOK
  <2>2. DestroyTypes
    BY <1>17, <2>1, DestroyTyped DEF TypeOK, IdleTimerFires
  <2> QED
    BY <1>17, <2>2 DEF TypeOK, RetryInv, IdleTimerFires, DestroyTypes
<1>18. CASE UNCHANGED vars
  BY <1>18 DEF TypeOK, RetryInv, vars
<1> QED
  BY <1>1, <1>2, <1>3, <1>4, <1>5, <1>6, <1>7, <1>8, <1>9, <1>10, <1>11, <1>12, <1>13,
     <1>14, <1>15, <1>16, <1>17, <1>18 DEF Next, Proceed
-----------------------------------------------------------------------------
(* The mutex.  Steps that matter to it are CallShell, AcquireTimesOut and   *)
(* Start; all others leave it alone or end a function that works.          *)

SameCallers ==
  /\ pending' = pending /\ abandons' = abandons
  /\ \A c \in Call : at'[c] = "chained" <=> at[c] = "chained"
  /\ \A c \in Call : at[c] = "chained" => timer'[c] = timer[c]
  /\ \A c \in Call : timer'[c] => timer[c]
  /\ \A c \in Call : caller'[c] = "waiting" => caller[c] = "waiting"

Stays ==
  /\ tail' = tail /\ after' = after
  /\ \A c \in Call : at'[c] = "none" <=> at[c] = "none"

Ends(c) ==
  /\ Works(c)
  /\ at' = [at EXCEPT ![c] = "none"]
  /\ tail' = IF tail = c THEN None ELSE tail
  /\ after' = [d \in Call |-> IF d = c \/ after[d] = c THEN None ELSE after[d]]

Quiet(c) == SameCallers /\ (Stays \/ Ends(c))

LEMMA EndIsQuiet ==
  ASSUME TypeOK, NEW c \in Call, NEW ok \in BOOLEAN, Works(c), End(c, ok)
  PROVE  Quiet(c)
<1>1. Ends(c)
  BY DEF Ends, End
<1>2. SameCallers
  BY DEF TypeOK, SameCallers, End, Works
<1> QED
  BY <1>1, <1>2 DEF Quiet

\* c goes from one place where it works to another.
LEMMA GoToIsQuiet ==
  ASSUME TypeOK, NEW c \in Call, Works(c),
         NEW phase \in Phase \ {"none", "chained"}, GoTo(c, phase),
         UNCHANGED <<caller, mutexVars>>
  PROVE  Quiet(c)
BY DEF TypeOK, Works, GoTo, mutexVars, Quiet, SameCallers, Stays, Phase

LEMMA FailIsQuiet ==
  ASSUME TypeOK, NEW c \in Call, Works(c), NEW kind, Fail(c, kind)
  PROVE  Quiet(c)
<1>1. CASE End(c, FALSE)
  BY <1>1, EndIsQuiet
<1>2. CASE GoTo(c, "connecting") /\ UNCHANGED <<caller, mutexVars>>
  BY <1>2, GoToIsQuiet DEF Phase
<1>3. CASE GoTo(c, "pausing") /\ UNCHANGED <<caller, mutexVars>>
  BY <1>3, GoToIsQuiet DEF Phase
<1> QED
  BY <1>1, <1>2, <1>3 DEF Fail, mutexVars

LEMMA UnchangedIsQuiet ==
  ASSUME TypeOK, UNCHANGED <<mutexVars, at>>,
         \A d \in Call : caller'[d] = "waiting" => caller[d] = "waiting"
  PROVE  SameCallers /\ Stays
BY DEF TypeOK, mutexVars, SameCallers, Stays

LEMMA StepKinds ==
  ASSUME TypeOK, [Next]_vars
  PROVE  \/ \E c \in Call : CallShell(c) \/ AcquireTimesOut(c) \/ Start(c) \/ Quiet(c)
         \/ SameCallers /\ Stays
<1> USE DEF runVars, connVars
<1> DEFINE Goal == \/ \E c \in Call : CallShell(c) \/ AcquireTimesOut(c) \/ Start(c) \/ Quiet(c)
                   \/ SameCallers /\ Stays
<1>1. ASSUME NEW c \in Call, OneShotEnds(c) PROVE Goal
  BY <1>1, UnchangedIsQuiet DEF TypeOK, OneShotEnds
<1>2. ASSUME NEW c \in Call, NotConnected(c) PROVE Goal
  BY <1>2, FailIsQuiet DEF NotConnected, Works
<1>3. ASSUME NEW c \in Call, WriteCommand(c) PROVE Goal
  <2>1. Works(c)
    BY <1>3 DEF WriteCommand, Works
  <2>2. CASE GoTo(c, "executing") /\ UNCHANGED <<caller, mutexVars>>
    BY <2>1, <2>2, GoToIsQuiet DEF Phase
  <2>3. CASE Fail(c, "other")
    BY <2>1, <2>3, FailIsQuiet
  <2> QED
    BY <1>3, <2>2, <2>3 DEF WriteCommand
<1>4. ASSUME NEW c \in Call, NoAnswer(c) PROVE Goal
  BY <1>4, FailIsQuiet DEF NoAnswer, Works
<1>5. ASSUME NEW c \in Call, Poll(c) PROVE Goal
  BY <1>5, FailIsQuiet, EndIsQuiet DEF Poll, Works
<1>6. ASSUME NEW c \in Call, CommandTimesOut(c) PROVE Goal
  BY <1>6, FailIsQuiet DEF CommandTimesOut, Works
<1>7. ASSUME NEW c \in Call, PauseOver(c) PROVE Goal
  <2>1. PICK phase \in {"probing", "connecting"} : GoTo(c, phase)
    BY <1>7 DEF PauseOver, BeginAttempt
  <2> QED
    BY <1>7, <2>1, GoToIsQuiet DEF PauseOver, Works, Phase
<1>8. ASSUME NEW c \in Call, NEW k \in Conn, Connected(c, k) PROVE Goal
  BY <1>8, GoToIsQuiet DEF Connected, Works, Phase
<1>9. ASSUME NEW c \in Call, TokenArrives(c) PROVE Goal
  BY <1>9, UnchangedIsQuiet DEF TokenArrives
<1>10. ASSUME NEW c \in Call, Abort(c) PROVE Goal
  <2>1. CASE at[c] = "executing" /\ Fail(c, "other")
    BY <2>1, FailIsQuiet DEF Works
  <2>2. CASE UNCHANGED <<caller, mutexVars, runVars>>
    BY <2>2, UnchangedIsQuiet
  <2> QED
    BY <1>10, <2>1, <2>2 DEF Abort
<1>11. ASSUME NEW k \in Conn, Break(k) \/ ClientCloses(k) \/ StreamCloses(k) \/ IdleTimerFires(k) PROVE Goal
  BY <1>11, UnchangedIsQuiet DEF Break, ClientCloses, StreamCloses, IdleTimerFires
<1>12. CASE UNCHANGED vars
  BY <1>12, UnchangedIsQuiet DEF vars
<1> QED
  BY <1>1, <1>2, <1>3, <1>4, <1>5, <1>6, <1>7, <1>8, <1>9, <1>10, <1>11, <1>12
  DEF Next, Proceed

\* Who is chained to nobody is at the head of the queue.
LEMMA AtHead ==
  ASSUME NEW q \in Seq(Call), Chain(q), NEW c \in Call, at[c] # "none", after[c] = None
  PROVE  Len(q) \in Nat /\ Len(q) >= 1 /\ q[1] = c
<1>1. PICK i \in 1..Len(q) : q[i] = c
  BY DEF Chain
<1>2. ASSUME i # 1 PROVE FALSE
  <2>1. i - 1 \in 1..Len(q) /\ after[c] = q[i - 1]
    BY <1>1, <1>2 DEF Chain
  <2>2. q[i - 1] \in Call
    BY <2>1
  <2> QED
    BY <2>1, <2>2, ShellAssumption
<1> QED
  BY <1>1, <1>2

\* Who works is there, so there is one.
LEMMA HeadOnly ==
  ASSUME TypeOK, ChainInv
  PROVE  OneWorks
<1> SUFFICES ASSUME NEW c \in Call, NEW d \in Call, Works(c), Works(d)
             PROVE  c = d
  BY DEF OneWorks
<1>1. PICK q \in Seq(Call) : Chain(q)
  BY DEF ChainInv
<1>2. ASSUME NEW e \in Call, Works(e) PROVE q[1] = e
  BY <1>1, <1>2, AtHead DEF ChainInv, Works
<1> QED
  BY <1>2

LEMMA ChainStays ==
  ASSUME TypeOK, TypeOK', ChainInv, Stays,
         \A c \in Call : Works(c)' => after[c] = None
  PROVE  ChainInv'
<1>1. PICK q \in Seq(Call) : Chain(q)
  BY DEF ChainInv
<1>2. Chain(q)'
  BY <1>1 DEF Chain, Stays
<1> QED
  BY <1>2 DEF ChainInv, Stays

LEMMA ChainGrows ==
  ASSUME TypeOK, NEW q \in Seq(Call), Chain(q), NEW c \in Call, CallShell(c)
  PROVE  Append(q, c) \in Seq(Call) /\ Chain(Append(q, c))'
<1>1. Chain(q)
  OBVIOUS
<1> DEFINE r == Append(q, c)
<1>2. /\ r \in Seq(Call) /\ Len(r) = Len(q) + 1 /\ Len(q) \in Nat
      /\ \A i \in 1..Len(q) : r[i] = q[i] /\ q[i] \in Call
      /\ r[Len(q) + 1] = c
  BY <1>1
<1>3. /\ at' = [at EXCEPT ![c] = "chained"] /\ at[c] = "none"
      /\ after' = [after EXCEPT ![c] = tail] /\ tail' = c
      /\ at \in [Call -> Phase] /\ after \in [Call -> Call \union {None}]
  BY DEF TypeOK, CallShell
<1>4. \A i \in 1..Len(q) : q[i] # c
  BY <1>1, <1>3 DEF Chain
<1> HIDE DEF r
<1>5. \A i, j \in 1..Len(r) : r[i] = r[j] => i = j
  BY <1>1, <1>2, <1>4, SMTT(30) DEF Chain
<1>6. \A d \in Call : at'[d] # "none" <=> \E i \in 1..Len(r) : r[i] = d
  <2> TAKE d \in Call
  <2>1. CASE d = c
    BY <2>1, <1>2, <1>3
  <2>2. CASE d # c
    <3>1. at'[d] = at[d]
      BY <2>2, <1>3
    <3>2. (\E i \in 1..Len(r) : r[i] = d) <=> \E i \in 1..Len(q) : q[i] = d
      BY <2>2, <1>2
    <3> QED
      BY <1>1, <3>1, <3>2 DEF Chain
  <2> QED
    BY <2>1, <2>2
<1>7. \A d \in Call : at'[d] = "none" => after'[d] = None
  BY <1>1, <1>3 DEF Chain
<1>8. \A i \in 1..Len(r) : after'[r[i]] = IF i = 1 THEN None ELSE r[i - 1]
  <2> TAKE i \in 1..Len(r)
  <2>1. CASE i \in 1..Len(q)
    <3>1. after'[r[i]] = after[q[i]]
      BY <2>1, <1>2, <1>3, <1>4
    <3>2. i # 1 => r[i - 1] = q[i - 1]
      BY <2>1, <1>2
    <3> QED
      BY <2>1, <3>1, <3>2, <1>1 DEF Chain
  <2>2. CASE i = Len(q) + 1
    <3>1. after'[r[i]] = tail
      BY <2>2, <1>2, <1>3
    <3>2. CASE q = <<>>
      BY <2>2, <3>1, <3>2, <1>1 DEF Chain
    <3>3. CASE q # <<>>
      <4>1. Len(q) >= 1
        BY <3>3, <1>1
      <4> QED
        BY <2>2, <3>1, <3>3, <4>1, <1>1, <1>2 DEF Chain
    <3> QED
      BY <3>2, <3>3
  <2> QED
    BY <2>1, <2>2, <1>2
<1>9. Chain(r)'
  <2>1. r # <<>> /\ tail' = r[Len(r)]
    BY <1>2, <1>3
  <2> QED
    BY <1>2, <1>5, <1>6, <1>7, <1>8, <2>1 DEF Chain
<1> QED
  BY <1>2, <1>9 DEF r

LEMMA ChainCallShell ==
  ASSUME TypeOK, ChainInv, NEW c \in Call, CallShell(c)
  PROVE  ChainInv'
<1>1. PICK q \in Seq(Call) : Chain(q)
  BY DEF ChainInv
<1>2. \A d \in Call : Works(d)' => after'[d] = None
  BY DEF TypeOK, CallShell, Works, ChainInv
<1> QED
  BY <1>1, <1>2, ChainGrows DEF ChainInv

\* The head leaves and the next one is the head.
LEMMA ChainShrinks ==
  ASSUME TypeOK, ChainInv, NEW q \in Seq(Call), Chain(q), NEW c \in Call, Ends(c)
  PROVE  q # <<>> /\ q[1] = c /\ Tail(q) \in Seq(Call) /\ Chain(Tail(q))'
<1>1. Chain(q)
  OBVIOUS
<1>2. /\ at' = [at EXCEPT ![c] = "none"] /\ at[c] \notin {"none", "chained"}
      /\ after' = [d \in Call |-> IF d = c \/ after[d] = c THEN None ELSE after[d]]
      /\ tail' = IF tail = c THEN None ELSE tail
      /\ at \in [Call -> Phase] /\ after \in [Call -> Call \union {None}]
      /\ after[c] = None
  BY DEF TypeOK, Ends, Works, ChainInv
<1>3. Len(q) \in Nat /\ \A i \in 1..Len(q) : q[i] \in Call
  BY <1>1
<1>4. Len(q) >= 1 /\ q[1] = c
  BY <1>1, <1>2, AtHead
<1> DEFINE r == Tail(q)
<1>5. /\ r \in Seq(Call) /\ Len(r) = Len(q) - 1
      /\ \A i \in 1..Len(r) : i + 1 \in 1..Len(q) /\ r[i] = q[i + 1] /\ r[i] # c /\ r[i] \in Call
  <2>1. r \in Seq(Call) /\ Len(r) = Len(q) - 1
        /\ \A i \in 1..Len(r) : r[i] = q[i + 1]
    BY <1>1, <1>4
  <2> QED
    BY <2>1, <1>1, <1>3, <1>4 DEF Chain
<1> HIDE DEF r
<1>6. \A i, j \in 1..Len(r) : r[i] = r[j] => i = j
  <2> TAKE i, j \in 1..Len(r)
  <2>1. q[i + 1] = q[j + 1] => i + 1 = j + 1
    BY <1>1, <1>5 DEF Chain
  <2> QED
    BY <2>1, <1>5, <1>3
<1>7. \A d \in Call : at'[d] # "none" <=> \E i \in 1..Len(r) : r[i] = d
  <2> TAKE d \in Call
  <2>1. CASE d = c
    BY <2>1, <1>2, <1>5
  <2>2. CASE d # c
    <3>1. at'[d] = at[d]
      BY <2>2, <1>2
    <3>2. ASSUME NEW i \in 1..Len(q), q[i] = d PROVE \E j \in 1..Len(r) : r[j] = d
      <4>1. i - 1 \in 1..Len(r) /\ (i - 1) + 1 = i
        BY <2>2, <3>2, <1>3, <1>4, <1>5
      <4> QED
        BY <4>1, <3>2, <1>5
    <3>3. ASSUME NEW i \in 1..Len(r), r[i] = d PROVE \E j \in 1..Len(q) : q[j] = d
      BY <3>3, <1>5
    <3> QED
      BY <1>1, <3>1, <3>2, <3>3 DEF Chain
  <2> QED
    BY <2>1, <2>2
<1>8. \A d \in Call : at'[d] = "none" => after'[d] = None
  BY <1>1, <1>2 DEF Chain
<1>9. \A i \in 1..Len(r) : after'[r[i]] = IF i = 1 THEN None ELSE r[i - 1]
  <2> TAKE i \in 1..Len(r)
  <2>1. i + 1 \in 1..Len(q) /\ r[i] = q[i + 1] /\ r[i] # c /\ r[i] \in Call
    BY <1>5
  <2>2. after[r[i]] = q[i]
    <3>1. i + 1 # 1 /\ (i + 1) - 1 = i
      BY <1>5
    <3> QED
      BY <1>1, <2>1, <3>1 DEF Chain
  <2>3. CASE i = 1
    BY <2>1, <2>2, <2>3, <1>2, <1>4
  <2>4. CASE i # 1
    <3>1. i - 1 \in 1..Len(r) /\ (i - 1) + 1 = i
      BY <2>4, <1>5
    <3>2. r[i - 1] = q[i] /\ q[i] # c
      BY <3>1, <1>5
    <3> QED
      BY <2>1, <2>2, <2>4, <3>2, <1>2
  <2> QED
    BY <2>3, <2>4
<1>10. tail' = IF r = <<>> THEN None ELSE r[Len(r)]
  <2>1. q # <<>> /\ tail = q[Len(q)]
    BY <1>1, <1>4 DEF Chain
  <2>2. CASE r = <<>>
    <3>1. Len(q) = 1
      BY <2>2, <1>3, <1>5
    <3> QED
      BY <2>1, <2>2, <3>1, <1>2, <1>4
  <2>3. CASE r # <<>>
    <3>1. Len(r) \in 1..Len(r)
      BY <2>3, <1>5
    <3>2. r[Len(r)] = q[Len(q)] /\ r[Len(r)] # c
      BY <3>1, <1>3, <1>5
    <3> QED
      BY <2>1, <2>3, <3>2, <1>2
  <2> QED
    BY <2>2, <2>3
<1>11. Chain(r)'
  BY <1>5, <1>6, <1>7, <1>8, <1>9, <1>10 DEF Chain
<1> QED
  BY <1>3, <1>4, <1>5, <1>11 DEF r

LEMMA ChainEnds ==
  ASSUME TypeOK, ChainInv, NEW c \in Call, Ends(c)
  PROVE  ChainInv'
<1>1. PICK q \in Seq(Call) : Chain(q)
  BY DEF ChainInv
<1>2. \A d \in Call : Works(d)' => after'[d] = None
  BY DEF TypeOK, Ends, Works, ChainInv
<1> QED
  BY <1>1, <1>2, ChainShrinks DEF ChainInv

LEMMA ChainStep ==
  ASSUME TypeOK, TypeOK', ChainInv, [Next]_vars
  PROVE  ChainInv'
<1>1. ASSUME NEW c \in Call, AcquireTimesOut(c) PROVE ChainInv'
  <2>1. Stays /\ at' = at
    BY <1>1 DEF AcquireTimesOut, Stays, runVars
  <2> QED
    BY <2>1, ChainStays DEF ChainInv, Works
<1>2. ASSUME NEW c \in Call, Start(c) PROVE ChainInv'
  <2>1. PICK phase \in {"probing", "connecting"} : GoTo(c, phase)
    BY <1>2 DEF Start, BeginAttempt
  <2>2. Stays /\ after[c] = None /\ \A d \in Call : d # c => at'[d] = at[d]
    BY <1>2, <2>1 DEF TypeOK, Start, Stays, MyTurn, GoTo
  <2>3. \A d \in Call : Works(d)' => after[d] = None
    BY <2>2 DEF ChainInv, Works
  <2> QED
    BY <2>2, <2>3, ChainStays
<1>3. ASSUME SameCallers, Stays PROVE ChainInv'
  <2>1. \A d \in Call : Works(d)' => Works(d)
    BY <1>3 DEF SameCallers, Stays, Works
  <2> QED
    BY <1>3, <2>1, ChainStays DEF ChainInv
<1> QED
  BY <1>1, <1>2, <1>3, ChainCallShell, ChainEnds, StepKinds DEF Quiet
-----------------------------------------------------------------------------
(* The session and its connections.                                        *)

SessionInv == NoSessionInv /\ NoOrphanConnection /\ ExecInv /\ UnusedSessionHasIdleTimer

\* Nothing is open and nothing runs on the device.
Closed == current = None /\ \A k \in Conn : link[k] = "ended" /\ exec[k] = {}

LEMMA ClosedIsFine == Closed' => SessionInv'
BY DEF Closed, SessionInv, NoSessionInv, NoOrphanConnection, ExecInv, UnusedSessionHasIdleTimer

\* destroySession only closes the session in the map, and that is all there is.
LEMMA DestroyCloses ==
  ASSUME TypeOK, SessionInv, NEW L, NEW I, Destroy(L, I),
         \A k \in Conn : L[k] = link[k] \/ L[k] = "ended"
  PROVE  Closed'
<1>1. current' = None
  BY DEF Destroy
<1>2. ASSUME NEW k \in Conn PROVE link'[k] = "ended"
  BY <1>2 DEF Destroy, SessionInv, NoOrphanConnection
<1>3. ASSUME NEW k \in Conn PROVE exec'[k] = {}
  <2>1. CASE k = current
    BY <2>1 DEF Destroy
  <2>2. CASE k # current
    BY <2>2 DEF Destroy, SessionInv, NoOrphanConnection, ExecInv
  <2> QED
    BY <2>1, <2>2
<1> QED
  BY <1>1, <1>2, <1>3 DEF Closed

\* A step that leaves the session alone, and in which nobody takes leave of the
\* session or comes to connect while there is one.
LEMMA SessionUntouched ==
  ASSUME SessionInv, UNCHANGED <<current, link, idle, exec>>,
         \A d \in Call : at'[d] \in {"connecting", "pausing"} => current = None,
         current # None => \A d \in Call : using[d] = current => using'[d] = current,
         \A d \in Call : at[d] = "executing" =>
                 at'[d] = at[d] /\ using'[d] = using[d] /\ seen'[d] = seen[d],
         \A k \in Conn : exec[k] \subseteq Call
  PROVE  SessionInv'
<1>1. NoSessionInv' /\ NoOrphanConnection'
  BY DEF SessionInv, NoSessionInv, NoOrphanConnection
<1>2. ExecInv'
  BY DEF SessionInv, ExecInv
<1>3. UnusedSessionHasIdleTimer'
  BY DEF SessionInv, UnusedSessionHasIdleTimer
<1> QED
  BY <1>1, <1>2, <1>3 DEF SessionInv

LEMMA SessionFail ==
  ASSUME TypeOK, SessionInv, NEW c \in Call, NEW kind, Fail(c, kind),
         kind = "auth" => at[c] = "connecting"
  PROVE  SessionInv'
<1>1. CASE Destroy(link, idle)
  BY <1>1, DestroyCloses, ClosedIsFine
<1>2. CASE kind = "auth" /\ End(c, FALSE) /\ UNCHANGED <<current, link, dead, idle, exec>>
  <2>1. current = None
    BY <1>2 DEF SessionInv, NoSessionInv
  <2>2. \A d \in Call : at[d] = "executing" =>
               at'[d] = at[d] /\ using'[d] = using[d] /\ seen'[d] = seen[d]
    BY <1>2 DEF TypeOK, End
  <2>3. \A k \in Conn : exec[k] \subseteq Call
    BY DEF TypeOK
  <2> QED
    BY <1>2, <2>1, <2>2, <2>3, SessionUntouched
<1> QED
  BY <1>1, <1>2 DEF Fail

LEMMA SessionBegin ==
  ASSUME TypeOK, SessionInv, NEW c \in Call, BeginAttempt(c),
         at[c] \in {"chained", "pausing"}
  PROVE  SessionInv'
<1>1. CASE Destroy(link, idle)
  BY <1>1, DestroyCloses, ClosedIsFine
<1>2. CASE /\ current # None /\ GoTo(c, "probing")
           /\ using' = [using EXCEPT ![c] = current]
           /\ UNCHANGED <<current, link, dead, idle, exec>>
  <2>1. \A d \in Call : at'[d] \in {"connecting", "pausing"} => current = None
    BY <1>2 DEF TypeOK, SessionInv, NoSessionInv, GoTo
  <2>2. \A d \in Call : at[d] = "executing" =>
               at'[d] = at[d] /\ using'[d] = using[d] /\ seen'[d] = seen[d]
    BY <1>2 DEF TypeOK, GoTo
  <2>3. \A d \in Call : using[d] = current => using'[d] = current
    BY <1>2 DEF TypeOK
  <2>4. \A k \in Conn : exec[k] \subseteq Call
    BY DEF TypeOK
  <2> QED
    BY <1>2, <2>1, <2>2, <2>3, <2>4, SessionUntouched
<1> QED
  BY <1>1, <1>2 DEF BeginAttempt

LEMMA SessionStep ==
  ASSUME TypeOK, ChainInv, SessionInv, [Next]_vars
  PROVE  SessionInv'
<1> USE DEF mutexVars, runVars, connVars
<1>0. \A k \in Conn : exec[k] \subseteq Call
  BY DEF TypeOK
<1>1. ASSUME NEW c \in Call, CallShell(c) PROVE SessionInv'
  <2>1. \A d \in Call : at'[d] \in {"connecting", "pausing", "executing"} => at'[d] = at[d]
    BY <1>1 DEF TypeOK, CallShell
  <2>2. \A d \in Call : at[d] = "executing" => at'[d] = at[d]
    BY <1>1 DEF TypeOK, CallShell
  <2> QED
    BY <1>0, <1>1, <2>1, <2>2, SessionUntouched DEF CallShell, SessionInv, NoSessionInv
<1>2. ASSUME NEW c \in Call, AcquireTimesOut(c) \/ OneShotEnds(c) PROVE SessionInv'
  BY <1>0, <1>2, SessionUntouched DEF AcquireTimesOut, OneShotEnds, SessionInv, NoSessionInv
<1>3. ASSUME NEW c \in Call, Start(c) \/ PauseOver(c) PROVE SessionInv'
  BY <1>3, SessionBegin DEF Start, PauseOver
<1>4. ASSUME NEW c \in Call, NotConnected(c) \/ NoAnswer(c) \/ CommandTimesOut(c) PROVE SessionInv'
  BY <1>4, SessionFail DEF NotConnected, NoAnswer, CommandTimesOut
<1>5. ASSUME NEW c \in Call, WriteCommand(c) PROVE SessionInv'
  <2>1. CASE Fail(c, "other")
    BY <2>1, SessionFail
  <2>2. CASE /\ GoTo(c, "executing")
             /\ idle' = [idle EXCEPT ![using[c]] = FALSE]
             /\ exec' = [exec EXCEPT ![using[c]] = IF link[using[c]] = "up" THEN @ \union {c} ELSE @]
             /\ UNCHANGED <<caller, mutexVars, cand, retry, using, current, link, dead>>
    <3>1. NoSessionInv' /\ NoOrphanConnection'
      BY <2>2 DEF TypeOK, SessionInv, NoSessionInv, NoOrphanConnection, GoTo
    <3>2. ExecInv'
      <4> SUFFICES ASSUME NEW k \in Conn, NEW d \in exec'[k]
                   PROVE  link'[k] = "up" /\ at'[d] = "executing" /\ using'[d] = k /\ ~seen'[d]
        BY DEF ExecInv
      <4>1. CASE d = c /\ k = using[c] /\ link[k] = "up"
        BY <2>2, <4>1 DEF TypeOK, GoTo
      <4>2. CASE d \in exec[k]
        <5>1. d \in Call /\ at[d] = "executing" /\ d # c
          BY <1>0, <1>5, <4>2 DEF SessionInv, ExecInv, WriteCommand
        <5> QED
          BY <2>2, <4>2, <5>1 DEF TypeOK, SessionInv, ExecInv, GoTo
      <4> QED
        BY <2>2, <4>1, <4>2 DEF TypeOK
    <3>3. UnusedSessionHasIdleTimer'
      BY <2>2 DEF TypeOK, SessionInv, UnusedSessionHasIdleTimer
    <3> QED
      BY <3>1, <3>2, <3>3 DEF SessionInv
  <2> QED
    BY <1>5, <2>1, <2>2 DEF WriteCommand
<1>6. ASSUME NEW c \in Call, Poll(c) PROVE SessionInv'
  <2>1. CASE Fail(c, "transient")
    BY <2>1, SessionFail
  <2>2. CASE seen[c] /\ End(c, TRUE) /\ idle' = Rearm(c) /\ UNCHANGED <<current, link, dead, exec>>
    <3>1. NoSessionInv' /\ NoOrphanConnection'
      BY <2>2 DEF TypeOK, SessionInv, NoSessionInv, NoOrphanConnection, End
    <3>2. ExecInv'
      <4> SUFFICES ASSUME NEW k \in Conn, NEW d \in exec'[k]
                   PROVE  link'[k] = "up" /\ at'[d] = "executing" /\ using'[d] = k /\ ~seen'[d]
        BY DEF ExecInv
      <4>1. d \in exec[k] /\ d \in Call /\ d # c
        BY <1>0, <2>2 DEF SessionInv, ExecInv
      <4> QED
        BY <2>2, <4>1 DEF TypeOK, SessionInv, ExecInv, End
    <3>3. UnusedSessionHasIdleTimer'
      BY <2>2 DEF TypeOK, SessionInv, UnusedSessionHasIdleTimer, End, Rearm
    <3> QED
      BY <3>1, <3>2, <3>3 DEF SessionInv
  <2> QED
    BY <1>6, <2>1, <2>2 DEF Poll
<1>7. ASSUME NEW c \in Call, NEW k \in Conn, Connected(c, k) PROVE SessionInv'
  <2>1. /\ \A l \in Conn : link[l] = "ended"
        /\ \A l \in Conn : exec[l] = {}
    BY <1>7, ShellAssumption DEF Connected, SessionInv, NoSessionInv, NoOrphanConnection, ExecInv
  <2>2. \A d \in Call : at'[d] \notin {"connecting", "pausing"}
    <3> SUFFICES ASSUME NEW d \in Call, at'[d] \in {"connecting", "pausing"} PROVE FALSE
      OBVIOUS
    <3>1. d # c /\ at'[d] = at[d] /\ at[c] = "connecting"
      BY <1>7 DEF TypeOK, Connected, GoTo
    <3>2. Works(d) /\ Works(c)
      BY <3>1 DEF Works
    <3> QED
      BY <3>1, <3>2, HeadOnly DEF OneWorks
  <2>3. NoSessionInv' /\ NoOrphanConnection'
    BY <1>7, <2>1, <2>2 DEF TypeOK, NoSessionInv, NoOrphanConnection, Connected
  <2>4. ExecInv'
    BY <1>7, <2>1 DEF TypeOK, ExecInv, Connected
  <2>5. UnusedSessionHasIdleTimer'
    BY <1>7 DEF TypeOK, UnusedSessionHasIdleTimer, Connected
  <2> QED
    BY <2>3, <2>4, <2>5 DEF SessionInv
<1>8. ASSUME NEW c \in Call, TokenArrives(c) PROVE SessionInv'
  <2>1. NoSessionInv' /\ NoOrphanConnection' /\ UnusedSessionHasIdleTimer'
    BY <1>8 DEF SessionInv, NoSessionInv, NoOrphanConnection, UnusedSessionHasIdleTimer, TokenArrives
  <2>2. ExecInv'
    <3> SUFFICES ASSUME NEW k \in Conn, NEW d \in exec'[k]
                 PROVE  link'[k] = "up" /\ at'[d] = "executing" /\ using'[d] = k /\ ~seen'[d]
      BY DEF ExecInv
    <3>1. d \in exec[k] /\ d \in Call /\ k # using[c]
      BY <1>0, <1>8 DEF TypeOK, TokenArrives
    <3>2. d # c
      BY <3>1 DEF SessionInv, ExecInv
    <3> QED
      BY <1>8, <3>1, <3>2 DEF TypeOK, SessionInv, ExecInv, TokenArrives
  <2> QED
    BY <2>1, <2>2 DEF SessionInv
<1>9. ASSUME NEW c \in Call, Abort(c) PROVE SessionInv'
  <2>1. CASE Fail(c, "other")
    BY <2>1, SessionFail
  <2>2. CASE UNCHANGED <<caller, mutexVars, runVars, current, link, dead, idle, exec>>
    BY <1>0, <2>2, SessionUntouched DEF SessionInv, NoSessionInv
  <2> QED
    BY <1>9, <2>1, <2>2 DEF Abort
<1>10. ASSUME NEW k \in Conn, Break(k) PROVE SessionInv'
  <2>1. NoSessionInv' /\ UnusedSessionHasIdleTimer'
    BY <1>10 DEF SessionInv, NoSessionInv, UnusedSessionHasIdleTimer, Break
  <2>2. NoOrphanConnection'
    BY <1>10 DEF TypeOK, SessionInv, NoOrphanConnection, Break
  <2>3. ExecInv'
    BY <1>10 DEF TypeOK, SessionInv, ExecInv, Break
  <2> QED
    BY <2>1, <2>2, <2>3 DEF SessionInv
<1>11. ASSUME NEW k \in Conn, ClientCloses(k) PROVE SessionInv'
  BY <1>0, <1>11, SessionUntouched DEF ClientCloses, SessionInv, NoSessionInv
<1>12. ASSUME NEW k \in Conn, StreamCloses(k) PROVE SessionInv'
  <2>1. \A l \in Conn : [link EXCEPT ![k] = "ended"][l] \in {link[l], "ended"}
    BY DEF TypeOK
  <2>2. Closed'
    BY <1>12, <2>1, DestroyCloses DEF StreamCloses
  <2> QED
    BY <2>2, ClosedIsFine
<1>13. ASSUME NEW k \in Conn, IdleTimerFires(k) PROVE SessionInv'
  <2>1. Closed'
    BY <1>13, DestroyCloses DEF IdleTimerFires
  <2> QED
    BY <2>1, ClosedIsFine
<1>14. CASE UNCHANGED vars
  BY <1>0, <1>14, SessionUntouched DEF vars, SessionInv, NoSessionInv
<1> QED
  BY <1>1, <1>2, <1>3, <1>4, <1>5, <1>6, <1>7, <1>8, <1>9, <1>10, <1>11, <1>12, <1>13, <1>14
  DEF Next, Proceed
-----------------------------------------------------------------------------
(* The acquire timeouts.                                                   *)

CountInv == TimerInv /\ PendingInv

LEMMA CallsAreFinite ==
  ASSUME NEW S, S \subseteq Call
  PROVE  IsFiniteSet(S) /\ Cardinality(S) \in Nat
BY ShellAssumption, FS_Subset, FS_CardinalityType

LEMMA CountStays ==
  ASSUME TypeOK, TypeOK', CountInv, SameCallers
  PROVE  CountInv'
<1>1. TimerInv'
  BY DEF CountInv, TimerInv, SameCallers
<1>2. Chained' = Chained
  BY DEF Chained, SameCallers
<1>3. PendingInv'
  BY <1>2 DEF CountInv, PendingInv, SameCallers
<1> QED
  BY <1>1, <1>3 DEF CountInv

LEMMA CountCallShell ==
  ASSUME TypeOK, CountInv, NEW c \in Call, CallShell(c)
  PROVE  CountInv'
<1>1. /\ at[c] = "none" /\ at' = [at EXCEPT ![c] = "chained"]
      /\ caller' = [caller EXCEPT ![c] = "waiting"]
      /\ timer' = [timer EXCEPT ![c] = pending + 1 > 1]
      /\ pending' = pending + 1 /\ abandons' = abandons
      /\ abandons \in Nat
  BY ShellAssumption DEF TypeOK, CallShell, ArmsTimer
<1>2. TimerInv'
  BY <1>1 DEF TypeOK, CountInv, TimerInv
<1>3. Chained' = Chained \union {c} /\ c \notin Chained
  BY <1>1 DEF TypeOK, Chained
<1>4. Cardinality(Chained') = Cardinality(Chained) + 1 /\ Cardinality(Chained) \in Nat
  <2>1. IsFiniteSet(Chained) /\ Cardinality(Chained) \in Nat
    BY CallsAreFinite DEF Chained
  <2> QED
    BY <1>3, <2>1, FS_AddElement
<1>5. PendingInv'
  BY <1>1, <1>4 DEF CountInv, PendingInv
<1> QED
  BY <1>2, <1>5 DEF CountInv

LEMMA CountAcquireTimesOut ==
  ASSUME TypeOK, CountInv, NEW c \in Call, AcquireTimesOut(c)
  PROVE  CountInv'
<1>1. /\ at' = at /\ timer[c] /\ timer' = [timer EXCEPT ![c] = FALSE]
      /\ caller' = [caller EXCEPT ![c] = "oneshot"]
      /\ pending' = pending - 1 /\ abandons' = abandons + 1
      /\ abandons \in Nat /\ pending \in Int
  BY ShellAssumption DEF TypeOK, AcquireTimesOut, runVars
<1>2. TimerInv'
  BY <1>1 DEF TypeOK, CountInv, TimerInv
<1>3. Chained' = Chained /\ Cardinality(Chained) \in Nat
  BY <1>1, CallsAreFinite DEF Chained
<1>4. PendingInv'
  BY <1>1, <1>3 DEF CountInv, PendingInv
<1> QED
  BY <1>2, <1>4 DEF CountInv

LEMMA CountStart ==
  ASSUME TypeOK, CountInv, NEW c \in Call, Start(c)
  PROVE  CountInv'
<1>1. PICK phase \in {"probing", "connecting"} : GoTo(c, phase)
  BY DEF Start, BeginAttempt
<1>2. /\ at[c] = "chained" /\ at' = [at EXCEPT ![c] = phase]
      /\ timer' = [timer EXCEPT ![c] = FALSE] /\ caller' = caller
      /\ pending' = pending - 1 /\ abandons' = abandons
      /\ abandons \in Nat /\ pending \in Int
  BY <1>1, ShellAssumption DEF TypeOK, Start, GoTo, Acquired
<1>3. TimerInv'
  BY <1>2 DEF TypeOK, CountInv, TimerInv
<1>4. Chained' = Chained \ {c} /\ c \in Chained
  BY <1>2 DEF TypeOK, Chained
<1>5. Cardinality(Chained') = Cardinality(Chained) - 1 /\ Cardinality(Chained) \in Nat
  <2>1. IsFiniteSet(Chained) /\ Cardinality(Chained) \in Nat
    BY CallsAreFinite DEF Chained
  <2> QED
    BY <1>4, <2>1, FS_RemoveElement
<1>6. PendingInv'
  BY <1>2, <1>5 DEF CountInv, PendingInv
<1> QED
  BY <1>3, <1>6 DEF CountInv

LEMMA CountStep ==
  ASSUME TypeOK, TypeOK', CountInv, [Next]_vars
  PROVE  CountInv'
BY StepKinds, CountStays, CountCallShell, CountAcquireTimesOut, CountStart DEF Quiet
-----------------------------------------------------------------------------
LEMMA Inductive ==
  /\ Init => IInv
  /\ IInv /\ [Next]_vars => IInv'
<1>1. Init => IInv
  <2> SUFFICES ASSUME Init PROVE IInv
    OBVIOUS
  <2>1. TypeOK /\ RetryInv
    BY TypeInit
  <2>2. ChainInv
    <3>1. <<>> \in Seq(Call) /\ Chain(<<>>)
      BY DEF Init, Chain
    <3>2. \A c \in Call : Works(c) => after[c] = None
      BY DEF Init, Works
    <3> QED
      BY <3>1, <3>2 DEF ChainInv
  <2>3. NoSessionInv /\ NoOrphanConnection /\ ExecInv /\ UnusedSessionHasIdleTimer
    BY DEF Init, NoSessionInv, NoOrphanConnection, ExecInv, UnusedSessionHasIdleTimer
  <2>4. Chained = {}
    BY DEF Init, Chained
  <2>5. TimerInv /\ PendingInv
    <3>1. Cardinality(Chained) = 0
      BY <2>4, FS_EmptySet
    <3> QED
      BY <3>1 DEF Init, TimerInv, PendingInv
  <2> QED
    BY <2>1, <2>2, <2>3, <2>5 DEF IInv
<1>2. IInv /\ [Next]_vars => IInv'
  <2> SUFFICES ASSUME IInv, [Next]_vars PROVE IInv'
    OBVIOUS
  <2>1. TypeOK' /\ RetryInv'
    BY TypeStep DEF IInv
  <2>2. ChainInv'
    BY <2>1, ChainStep DEF IInv
  <2>3. SessionInv'
    BY SessionStep DEF IInv, SessionInv
  <2>4. CountInv'
    BY <2>1, CountStep DEF IInv, CountInv
  <2> QED
    BY <2>1, <2>2, <2>3, <2>4 DEF IInv, SessionInv, CountInv
<1> QED
  BY <1>1, <1>2

LEMMA IInvHolds == Spec => []IInv
BY Inductive, PTL DEF Spec

\* The state of the shell, its mutex and its callers is always well formed: no
\* retry beyond PERSISTENT_SHELL_TRANSIENT_RETRIES, no password beyond the list.
THEOREM TypeCorrect == Spec => []TypeOK
<1>1. IInv => TypeOK
  BY DEF IInv
<1> QED
  BY <1>1, IInvHolds, PTL

\* The mutex: two functions never work on the session at once, whatever acquire
\* timeouts hit and whatever the functions throw (l.89-97).
THEOREM OneFunctionWorks == Spec => []OneWorks
<1>1. IInv => OneWorks
  BY HeadOnly DEF IInv
<1> QED
  BY <1>1, IInvHolds, PTL

\* No connection is open without being the session in the map (l.158-173, 345).
THEOREM ConnectionsAreKept == Spec => []NoOrphanConnection
<1>1. IInv => NoOrphanConnection
  BY DEF IInv
<1> QED
  BY <1>1, IInvHolds, PTL

\* No remote shell works on two commands (l.92-97, 394).
THEOREM CommandsAreSerial == Spec => []OneCommandPerShell
<1>1. ASSUME IInv PROVE OneCommandPerShell
  <2> SUFFICES ASSUME NEW k \in Conn PROVE Cardinality(exec[k]) <= 1
    BY DEF OneCommandPerShell
  <2>1. exec[k] \subseteq Call
    BY <1>1 DEF IInv, TypeOK
  <2>2. CASE exec[k] = {}
    BY <2>2, FS_EmptySet
  <2>3. CASE exec[k] # {}
    <3>1. PICK c \in exec[k] : TRUE
      BY <2>3
    <3>2. \A d \in exec[k] : Works(d)
      BY <1>1 DEF IInv, ExecInv, Works
    <3>3. exec[k] = {c}
      BY <1>1, <2>1, <3>1, <3>2, HeadOnly DEF IInv, OneWorks
    <3> QED
      BY <3>3, FS_Singleton
  <2> QED
    BY <2>2, <2>3
<1> QED
  BY <1>1, IInvHolds, PTL

\* A session that nobody uses has its idle timer running (l.151-156, 384, 397).
THEOREM SessionsCloseWhenUnused == Spec => []UnusedSessionHasIdleTimer
<1>1. IInv => UnusedSessionHasIdleTimer
  BY DEF IInv
<1> QED
  BY <1>1, IInvHolds, PTL

\* AsyncMutex.pending is one too low for every acquire timeout that has ever hit, for
\* ever (l.94, 106): later calls are spared the timeout although others wait (l.99).
THEOREM PendingDrifts == Spec => [](pending = Cardinality(Chained) - abandons)
<1>1. IInv => pending = Cardinality(Chained) - abandons
  BY DEF IInv, PendingInv
<1> QED
  BY <1>1, IInvHolds, PTL

\* A caller falls back when its function has not started or has ended.
THEOREM FallsBackInTime == Spec => FallbackOnlyWhenShellIsOut
<1> DEFINE A == \A c \in Call : caller[c] = "waiting" /\ caller'[c] = "oneshot"
                                 => at[c] = "chained" \/ at'[c] = "none"
<1>1. ASSUME IInv, [Next]_vars PROVE A
  <2> SUFFICES ASSUME NEW c \in Call, caller[c] = "waiting", caller'[c] = "oneshot"
               PROVE  at[c] = "chained" \/ at'[c] = "none"
    OBVIOUS
  <2> TypeOK /\ TimerInv
    BY <1>1 DEF IInv
  <2> USE DEF mutexVars, runVars, connVars
  <2>1. ASSUME NEW d \in Call, NEW kind, Fail(d, kind) PROVE at'[c] = "none"
    BY <2>1 DEF TypeOK, Fail, End, GoTo
  <2>2. ASSUME NEW d \in Call, CallShell(d) \/ AcquireTimesOut(d) \/ OneShotEnds(d)
        PROVE  at[c] = "chained"
    BY <2>2 DEF TypeOK, TimerInv, CallShell, AcquireTimesOut, OneShotEnds
  <2>3. ASSUME NEW d \in Call, Proceed(d) \/ TokenArrives(d) \/ Abort(d)
        PROVE  at'[c] = "none"
    <3>1. CASE \E kind \in {"auth", "other", "transient"} : Fail(d, kind)
      BY <3>1, <2>1
    <3>2. CASE caller' = caller
      BY <3>2
    <3>3. CASE End(d, TRUE)
      BY <3>3 DEF TypeOK, End
    <3> QED
      BY <2>3, <3>1, <3>2, <3>3 DEF Proceed, Start, NotConnected, WriteCommand, NoAnswer,
         Poll, CommandTimesOut, PauseOver, Connected, TokenArrives, Abort
  <2>4. ASSUME \/ UNCHANGED vars
               \/ \E k \in Conn : Break(k) \/ ClientCloses(k) \/ StreamCloses(k) \/ IdleTimerFires(k)
        PROVE  FALSE
    BY <2>4 DEF vars, Break, ClientCloses, StreamCloses, IdleTimerFires
  <2> QED
    BY <1>1, <2>2, <2>3, <2>4 DEF Next
<1>2. IInv /\ [Next]_vars => [A]_vars
  BY <1>1
<1> QED
  BY <1>2, IInvHolds, PTL DEF Spec, FallbackOnlyWhenShellIsOut
-----------------------------------------------------------------------------
(* The shell implements DeviceShell.                                       *)

\* A set of numbers has a least element; and so what goes from each number to the
\* next holds of all.
LEMMA LeastNumber ==
  ASSUME NEW T, T \subseteq Nat, T # {}
  PROVE  \E m \in T : \A n \in T : m <= n
<1> DEFINE U == { 0..m : m \in T }
           R == StrictSubsetOrdering(Nat)
<1>1. U \subseteq FiniteSubsetsOf(Nat) /\ U # {}
  <2>1. \A m \in T : 0..m \subseteq Nat /\ IsFiniteSet(0..m)
    BY FS_Interval
  <2> QED
    BY <2>1 DEF FiniteSubsetsOf
<1>2. PICK X \in U : \A Y \in U : ~(<<Y, X>> \in R)
  <2> HIDE DEF U, R
  <2> QED
    BY <1>1, FS_StrictSubsetOrderingWellFounded, WFMin DEF R
<1>3. PICK m \in T : X = 0..m
  BY <1>2
<1>4. ASSUME NEW n \in T, n < m PROVE FALSE
  <2>1. m \in 0..m /\ m \notin 0..n
    BY <1>4
  <2>2. 0..n \in SUBSET 0..m /\ 0..n # 0..m /\ 0..n \in SUBSET Nat /\ 0..m \in SUBSET Nat
    BY <1>4, <2>1
  <2>3. <<0..n, 0..m>> \in R
    BY <2>2 DEF StrictSubsetOrdering
  <2>4. 0..n \in U
    OBVIOUS
  <2> HIDE DEF R, U
  <2> QED
    BY <1>2, <1>3, <2>3, <2>4
<1> QED
  BY <1>4

\* Induction up to a number N, as a fact about the set G of those for which
\* something is true.
LEMMA UpTo ==
  ASSUME NEW N \in Nat, NEW G, 0 \in G, \A n \in 1..N : n - 1 \in G => n \in G
  PROVE  \A n \in 0..N : n \in G
<1> SUFFICES ASSUME { n \in 0..N : n \notin G } # {} PROVE FALSE
  OBVIOUS
<1>1. PICK m \in 0..N : m \notin G /\ \A n \in 0..N : n \notin G => m <= n
  <2> DEFINE B == { n \in 0..N : n \notin G }
  <2>1. B \subseteq Nat /\ B # {}
    OBVIOUS
  <2> HIDE DEF B
  <2>2. PICK m \in B : \A n \in B : m <= n
    BY <2>1, LeastNumber
  <2> QED
    BY <2>2 DEF B
<1>2. m # 0 /\ m \in 1..N /\ m - 1 \in 0..N /\ ~(m <= m - 1)
  BY <1>1
<1> QED
  BY <1>1, <1>2

\* There is one order only in which the calls in line can be chained.
LEMMA LineIs ==
  ASSUME NEW q \in Seq(Call), Chain(q)
  PROVE  Line = q
<1> DEFINE n == Len(q)
           Ordered(r) == \A i \in DOMAIN r : after[r[i]] = IF i = 1 THEN None ELSE r[i - 1]
<1>1. n \in Nat /\ DOMAIN q = 1..n /\ q \in [1..n -> Call]
  OBVIOUS
<1> HIDE DEF n
<1>2. q \in [1..n -> InLine]
  BY <1>1 DEF Chain, InLine, n
<1>3. Cardinality(InLine) = n
  <2>1. q \in Bijection(1..n, InLine)
    <3>1. \A i, j \in 1..n : q[i] = q[j] => i = j
      BY DEF Chain, n
    <3>2. \A c \in InLine : \E i \in 1..n : q[i] = c
      BY DEF Chain, InLine, n
    <3> QED
      BY <1>2, <3>1, <3>2, Zenon DEF Bijection, Injection, IsInjective, Surjection
  <2>2. ExistsBijection(1..n, InLine)
    BY <2>1 DEF ExistsBijection
  <2>3. IsFiniteSet(1..n) /\ Cardinality(1..n) = n
    BY <1>1, FS_Interval
  <2> QED
    BY <2>2, <2>3, FS_Bijection
<1>4. Ordered(q)
  BY <1>1 DEF Chain, n
<1>5. ASSUME NEW r \in [1..n -> InLine], Ordered(r) PROVE r = q
  <2> DEFINE G == {i \in 0..n : i = 0 \/ r[i] = q[i]}
  <2>1. ASSUME NEW i \in 1..n, i - 1 \in G PROVE i \in G
    <3>1. r[i] \in Call /\ at[r[i]] # "none"
      BY <1>5 DEF InLine
    <3>2. PICK j \in 1..n : q[j] = r[i]
      BY <3>1 DEF Chain, n
    <3>3. /\ after[r[i]] = IF i = 1 THEN None ELSE r[i - 1]
          /\ after[q[j]] = IF j = 1 THEN None ELSE q[j - 1]
      BY <1>1, <1>4, <1>5
    <3>4. CASE i = 1
      <4>1. ASSUME j # 1 PROVE FALSE
        <5>1. j - 1 \in 1..n /\ q[j - 1] \in Call
          BY <1>1, <4>1
        <5> QED
          BY <3>2, <3>3, <3>4, <4>1, <5>1, ShellAssumption
      <4> QED
        BY <3>2, <3>4, <4>1
    <3>5. CASE i # 1
      <4>1. i - 1 \in 1..n /\ r[i - 1] = q[i - 1] /\ q[i - 1] \in Call
        BY <1>1, <2>1, <3>5
      <4>2. j # 1
        BY <3>2, <3>3, <3>5, <4>1, ShellAssumption
      <4>3. j - 1 \in 1..n /\ q[j - 1] = q[i - 1]
        BY <1>1, <3>2, <3>3, <3>5, <4>1, <4>2
      <4>4. j - 1 = i - 1
        BY <4>1, <4>3 DEF Chain, n
      <4> QED
        BY <1>1, <3>2, <4>4
    <3> QED
      BY <3>4, <3>5
  <2>2. 0 \in G
    BY <1>1
  <2>3. \A i \in 0..n : i \in G
    <3> HIDE DEF G
    <3> QED
      BY <1>1, <2>1, <2>2, UpTo
  <2>4. \A i \in 1..n : r[i] = q[i]
    BY <1>1, <2>3
  <2> QED
    BY <1>1, <1>5, <2>4
<1>6. Line = CHOOSE r \in [1..n -> InLine] : Ordered(r)
  BY <1>3 DEF Line
<1> HIDE DEF Ordered
<1> QED
  BY <1>2, <1>4, <1>5, <1>6

Working == \E c \in InLine : at[c] # "chained"
Running == UNION {exec[k] : k \in Conn}
Finished == \E c \in Call : at[c] = "executing" /\ seen[c]

\* A command that was written to a shell that is still there is running, or its marker
\* has come.
SentInv ==
  \A c \in Call : at[c] = "executing" /\ using[c] \in Conn /\ link[using[c]] = "up"
                  => seen[c] \/ c \in exec[using[c]]

\* A step that moves nobody into "executing", unless with a command running, and starts
\* or ends commands only together with their links or answers.
LEMMA SentStays ==
  ASSUME SentInv,
         \A c \in Call : at'[c] = "executing" =>
              at[c] = "executing" /\ using'[c] = using[c] /\ (seen[c] => seen'[c]),
         \A k \in Conn : link'[k] = "up" =>
              link[k] = "up" /\ \A c \in exec[k] : c \in exec'[k] \/ at'[c] # "executing"
  PROVE  SentInv'
BY DEF SentInv

LEMMA SentStep ==
  ASSUME TypeOK, SessionInv, SentInv, [Next]_vars
  PROVE  SentInv'
<1> USE DEF mutexVars, runVars, connVars
<1>1. ASSUME NEW L, NEW I, Destroy(L, I), \A k \in Conn : L[k] = "up" => link[k] = "up",
             NEW k \in Conn, link'[k] = "up"
      PROVE  link[k] = "up" /\ exec'[k] = exec[k]
  BY <1>1 DEF Destroy
<1>2. ASSUME NEW c \in Call, NEW kind, Fail(c, kind) PROVE SentInv'
  <2>1. \A d \in Call : at'[d] = "executing" =>
              at[d] = "executing" /\ using'[d] = using[d] /\ (seen[d] => seen'[d])
    BY <1>2 DEF TypeOK, Fail, End, GoTo
  <2>2. ASSUME NEW k \in Conn, link'[k] = "up" PROVE link[k] = "up" /\ exec'[k] = exec[k]
    BY <1>1, <1>2, <2>2 DEF Fail
  <2> QED
    BY <2>1, <2>2, SentStays
<1>3. ASSUME NEW c \in Call, BeginAttempt(c) PROVE SentInv'
  <2>1. \A d \in Call : at'[d] = "executing" =>
              at[d] = "executing" /\ using'[d] = using[d] /\ (seen[d] => seen'[d])
    BY <1>3 DEF TypeOK, BeginAttempt, GoTo
  <2>2. ASSUME NEW k \in Conn, link'[k] = "up" PROVE link[k] = "up" /\ exec'[k] = exec[k]
    BY <1>1, <1>3, <2>2 DEF BeginAttempt
  <2> QED
    BY <2>1, <2>2, SentStays
<1>4. ASSUME NEW c \in Call, CallShell(c) \/ AcquireTimesOut(c) \/ OneShotEnds(c) PROVE SentInv'
  BY <1>4 DEF TypeOK, SentInv, CallShell, AcquireTimesOut, OneShotEnds
<1>5. ASSUME NEW c \in Call, WriteCommand(c) PROVE SentInv'
  <2>1. CASE /\ GoTo(c, "executing")
             /\ exec' = [exec EXCEPT ![using[c]] = IF link[using[c]] = "up" THEN @ \union {c} ELSE @]
             /\ UNCHANGED <<using, link>>
    BY <2>1 DEF TypeOK, SentInv, GoTo
  <2> QED
    BY <1>2, <1>5, <2>1 DEF WriteCommand
<1>6. ASSUME NEW c \in Call, Poll(c) PROVE SentInv'
  <2>1. CASE End(c, TRUE) /\ UNCHANGED <<link, exec>>
    BY <2>1 DEF TypeOK, SentInv, End
  <2> QED
    BY <1>2, <1>6, <2>1 DEF Poll
<1>7. ASSUME NEW c \in Call, Abort(c) PROVE SentInv'
  BY <1>2, <1>7 DEF Abort, SentInv
<1>8. ASSUME NEW c \in Call, NEW k \in Conn, Connected(c, k) PROVE SentInv'
  BY <1>8 DEF TypeOK, SentInv, Connected, Forgotten, GoTo
<1>9. ASSUME NEW c \in Call, TokenArrives(c) PROVE SentInv'
  <2> SUFFICES ASSUME NEW d \in Call, at[d] = "executing", using[d] \in Conn, link[using[d]] = "up",
                      ~seen'[d]
               PROVE  d \in exec'[using[d]]
    BY <1>9 DEF SentInv, TokenArrives
  <2>1. d # c /\ ~seen[d] /\ d \in exec[using[d]]
    BY <1>9 DEF TypeOK, SentInv, TokenArrives
  <2>2. using[d] # using[c]
    BY <1>9, <2>1 DEF TokenArrives
  <2> QED
    BY <1>9, <2>1, <2>2 DEF TypeOK, TokenArrives
<1>10. ASSUME NEW k \in Conn, Break(k) \/ ClientCloses(k) PROVE SentInv'
  BY <1>10 DEF TypeOK, SentInv, Break, ClientCloses
<1>11. ASSUME NEW k \in Conn, StreamCloses(k) PROVE SentInv'
  <2>1. \A l \in Conn : [link EXCEPT ![k] = "ended"][l] = "up" => link[l] = "up"
    BY DEF TypeOK
  <2>2. ASSUME NEW l \in Conn, link'[l] = "up" PROVE link[l] = "up" /\ exec'[l] = exec[l]
    BY <1>1, <1>11, <2>1, <2>2 DEF StreamCloses
  <2> QED
    BY <1>11, <2>2 DEF SentInv, StreamCloses
<1>12. ASSUME NEW k \in Conn, IdleTimerFires(k) PROVE SentInv'
  <2>1. ASSUME NEW l \in Conn, link'[l] = "up" PROVE link[l] = "up" /\ exec'[l] = exec[l]
    BY <1>1, <1>12, <2>1 DEF IdleTimerFires
  <2> QED
    BY <1>12, <2>1 DEF SentInv, IdleTimerFires
<1>13. CASE UNCHANGED vars
  BY <1>13 DEF vars, SentInv
<1> QED
  BY <1>2, <1>3, <1>4, <1>5, <1>6, <1>7, <1>8, <1>9, <1>10, <1>11, <1>12, <1>13
  DEF Next, Proceed, Start, NotConnected, NoAnswer, CommandTimesOut, PauseOver

Simulates == [Promise!ShellNext]_(Promise!shellVars)

LEMMA LineIsNext ==
  ASSUME NEW q \in Seq(Call)
  PROVE  Chain(q)' => (Line = q)'
<1>1. Chain(q) => Line = q
  BY LineIs
<1> QED
  BY <1>1, PTL

\* What DeviceShell sees of a turn.
TurnIs ==
  /\ \A c \in Call : Works(c) => Line # <<>> /\ Line[1] = c
  /\ Working <=> \E c \in Call : Works(c)
  /\ \A c \in Call : at[c] = "executing" => Running \subseteq {c} /\ (seen[c] => Running = {})
  /\ (\A c \in Call : at[c] # "executing") => Running = {} /\ ~Finished
  /\ Running # {} => ~Finished

LEMMA TurnFacts == IInv => TurnIs
<1> SUFFICES ASSUME IInv PROVE TurnIs
  OBVIOUS
<1>1. TypeOK /\ ChainInv /\ ExecInv /\ OneWorks
  BY HeadOnly DEF IInv
<1>2. ASSUME NEW c \in Call, Works(c) PROVE Line # <<>> /\ Line[1] = c
  <2>1. PICK q \in Seq(Call) : Chain(q)
    BY <1>1 DEF ChainInv
  <2>2. Len(q) >= 1 /\ q[1] = c
    BY <1>1, <1>2, <2>1, AtHead DEF ChainInv, Works
  <2>3. Line = q
    BY <2>1, LineIs
  <2> QED
    BY <2>2, <2>3
<1>3. Working <=> \E c \in Call : Works(c)
  BY DEF Working, InLine, Works
<1>4. ASSUME NEW d \in Running
      PROVE  d \in Call /\ at[d] = "executing" /\ ~seen[d]
  BY <1>1 DEF TypeOK, ExecInv, Running
<1>5. ASSUME NEW c \in Call, at[c] = "executing" PROVE Running \subseteq {c} /\ (seen[c] => Running = {})
  BY <1>1, <1>4, <1>5 DEF OneWorks, Works
<1>6. (\A c \in Call : at[c] # "executing") => Running = {} /\ ~Finished
  BY <1>4 DEF Finished
<1>7. Running # {} => ~Finished
  BY <1>5 DEF Finished
<1> QED
  BY <1>2, <1>3, <1>5, <1>6, <1>7 DEF TurnIs

LEMMA TurnFactsNext == IInv' => TurnIs'
BY TurnFacts, PTL

LEMMA SameLine ==
  ASSUME IInv, SameCallers, Stays
  PROVE  Line' = Line /\ Working' = Working
<1>1. PICK q \in Seq(Call) : Chain(q)
  BY DEF IInv, ChainInv
<1>2. Chain(q)'
  BY <1>1 DEF Chain, Stays
<1>3. Line = q /\ Line' = q
  BY <1>1, <1>2, LineIs, LineIsNext
<1>4. Working' = Working
  BY DEF Working, InLine, SameCallers, Stays
<1> QED
  BY <1>3, <1>4

\* The turn goes on with nothing running.
LEMMA TurnGoesOn ==
  ASSUME IInv, SameCallers, Stays, caller' = caller,
         Running' = {}, ~Finished' \/ Finished' = Finished
  PROVE  Simulates
<1>1. Line' = Line /\ Working' = Working
  BY SameLine
<1>2. TurnIs
  BY TurnFacts
<1>3. CASE ~Working
  <2>1. \A c \in Call : at[c] # "executing"
    BY <1>2, <1>3 DEF TurnIs, Works
  <2>2. Running = {} /\ ~Finished /\ ~Finished'
    BY <1>2, <2>1 DEF TurnIs
  <2>3. Running' = Running /\ Finished' = Finished
    BY <2>2 DEF Finished
  <2> QED
    BY <1>1, <2>3 DEF Simulates, Promise!shellVars, Working, Running, Finished
<1>4. CASE Working /\ ~Finished'
  <2>1. Promise!HangUp
    BY <1>1, <1>4 DEF Promise!HangUp, Working, Running, Finished
  <2> QED
    BY <2>1 DEF Simulates, Promise!ShellNext
<1>5. CASE Working /\ Finished'
  <2>1. Running' = Running /\ Finished' = Finished
    BY <1>2, <1>5 DEF TurnIs
  <2> QED
    BY <1>1, <2>1 DEF Simulates, Promise!shellVars, Working, Running, Finished
<1> QED
  BY <1>3, <1>4, <1>5

\* Nothing that matters changes.
LEMMA TurnIsSame ==
  ASSUME IInv, SameCallers, Stays, caller' = caller,
         Running' = Running, Finished' = Finished
  PROVE  Simulates
<1>1. Line' = Line /\ Working' = Working
  BY SameLine
<1> QED
  BY <1>1 DEF Simulates, Promise!shellVars, Working, Running, Finished

\* The function of c ends.
LEMMA EndReturns ==
  ASSUME IInv, IInv', NEW c \in Call, NEW ok \in BOOLEAN, Works(c), End(c, ok),
         ok => at[c] = "executing" /\ seen[c]
  PROVE  Simulates
<1>1. TypeOK /\ ChainInv /\ TurnIs /\ OneWorks
  BY TurnFacts, HeadOnly DEF IInv
<1>2. Ends(c)
  BY DEF Ends, End
<1>3. PICK q \in Seq(Call) : Chain(q)
  BY <1>1 DEF ChainInv
<1>4. q[1] = c /\ Tail(q) \in Seq(Call) /\ Chain(Tail(q))'
  BY <1>1, <1>2, <1>3, ChainShrinks
<1>5. Line = q /\ Line' = Tail(Line)
  BY <1>3, <1>4, LineIs, LineIsNext
<1>6. \A d \in Call : ~Works(d)'
  BY <1>1, <1>2 DEF TypeOK, Ends, OneWorks, Works
<1>7. ~Working' /\ Running' = {} /\ ~Finished'
  <2>1. TurnIs'
    BY TurnFactsNext
  <2>2. \A d \in Call : at'[d] # "executing"
    BY <1>6 DEF Works
  <2> QED
    BY <1>6, <2>1, <2>2 DEF TurnIs
<1>8. Working
  BY <1>1 DEF TurnIs
<1> DEFINE answer == IF ok THEN "idle" ELSE "oneshot"
<1>9. caller' = [caller EXCEPT ![Line[1]] = IF @ = "waiting" THEN answer ELSE @]
  BY <1>1, <1>4, <1>5 DEF TypeOK, End
<1>10. answer = "idle" => Finished
  BY DEF Finished
<1>11. Promise!Return(answer)
  BY <1>5, <1>7, <1>8, <1>9, <1>10 DEF Promise!Return, Working, Running, Finished
<1>12. answer \in {"idle", "oneshot"}
  OBVIOUS
<1> QED
  BY <1>11, <1>12 DEF Simulates, Promise!ShellNext

\* c goes on to where it has no command in the shell.
LEMMA GoToSimulates ==
  ASSUME IInv, IInv', NEW c \in Call, Works(c),
         NEW phase \in Phase \ {"none", "chained", "executing"}, GoTo(c, phase),
         UNCHANGED <<caller, mutexVars>>
  PROVE  Simulates
<1>1. TypeOK /\ OneWorks /\ TurnIs'
  BY HeadOnly, TurnFactsNext DEF IInv
<1>2. Quiet(c)
  BY <1>1, GoToIsQuiet
<1>3. at'[c] = phase /\ \A d \in Call : d # c => at'[d] = at[d]
  BY <1>1 DEF TypeOK, GoTo
<1>4. SameCallers /\ Stays
  BY <1>1, <1>2, <1>3 DEF Quiet, Ends, TypeOK
<1>5. \A d \in Call : at'[d] # "executing"
  BY <1>1, <1>3 DEF OneWorks, Works
<1>6. Running' = {} /\ ~Finished'
  BY <1>1, <1>5 DEF TurnIs
<1> QED
  BY <1>4, <1>6, TurnGoesOn

LEMMA FailSimulates ==
  ASSUME IInv, IInv', NEW c \in Call, Works(c), NEW kind, Fail(c, kind)
  PROVE  Simulates
<1>1. CASE End(c, FALSE)
  BY <1>1, EndReturns
<1>2. CASE GoTo(c, "connecting") /\ UNCHANGED <<caller, mutexVars>>
  BY <1>2, GoToSimulates DEF Phase
<1>3. CASE GoTo(c, "pausing") /\ UNCHANGED <<caller, mutexVars>>
  BY <1>3, GoToSimulates DEF Phase
<1> QED
  BY <1>1, <1>2, <1>3 DEF Fail, mutexVars

LEMMA AskSimulates ==
  ASSUME IInv, NEW c \in Call, CallShell(c)
  PROVE  Simulates
<1>1. TypeOK
  BY DEF IInv
<1>2. PICK q \in Seq(Call) : Chain(q)
  BY DEF IInv, ChainInv
<1>3. Append(q, c) \in Seq(Call) /\ Chain(Append(q, c))'
  BY <1>1, <1>2, ChainGrows
<1>4. Line = q /\ Line' = Append(Line, c)
  BY <1>2, <1>3, LineIs, LineIsNext
<1>5. \A i \in DOMAIN Line : Line[i] # c
  BY <1>2, <1>4 DEF Chain, CallShell
<1>6. at' = [at EXCEPT ![c] = "chained"] /\ at[c] = "none" /\ UNCHANGED <<seen, exec>>
  BY DEF CallShell, connVars
<1>7. Working' = Working /\ Finished' = Finished
  BY <1>1, <1>6 DEF TypeOK, Working, InLine, Finished
<1>8. Running' = Running
  BY <1>6 DEF Running
<1>9. Promise!Ask(c)
  BY <1>4, <1>5, <1>7, <1>8 DEF Promise!Ask, Working, Running, Finished, CallShell
<1> QED
  BY <1>9 DEF Simulates, Promise!ShellNext

LEMMA GiveUpSimulates ==
  ASSUME IInv, NEW c \in Call, AcquireTimesOut(c)
  PROVE  Simulates
<1>1. TypeOK /\ TimerInv /\ TurnIs
  BY TurnFacts DEF IInv
<1>2. UNCHANGED <<at, seen, exec, tail, after>> /\ caller[c] = "waiting" /\ at[c] = "chained"
      /\ caller' = [caller EXCEPT ![c] = "oneshot"]
  BY <1>1 DEF AcquireTimesOut, runVars, connVars, TimerInv
<1>3. Line' = Line /\ Working' = Working /\ Finished' = Finished /\ Running' = Running
  BY <1>2 DEF Line, InLine, Working, Finished, Running
<1>4. ~(Working /\ Line[1] = c)
  BY <1>1, <1>2 DEF TurnIs, Works
<1>5. Promise!GiveUp(c)
  BY <1>2, <1>3, <1>4 DEF Promise!GiveUp, Working, Running, Finished
<1> QED
  BY <1>5 DEF Simulates, Promise!ShellNext

LEMMA AloneSimulates ==
  ASSUME NEW c \in Call, OneShotEnds(c)
  PROVE  Simulates
<1>1. UNCHANGED <<at, seen, exec, after>> /\ caller[c] = "oneshot"
      /\ caller' = [caller EXCEPT ![c] = "idle"]
  BY DEF OneShotEnds, runVars, connVars, mutexVars
<1>2. Line' = Line /\ Working' = Working /\ Finished' = Finished /\ Running' = Running
  BY <1>1 DEF Line, InLine, Working, Finished, Running
<1>3. Promise!Alone(c)
  BY <1>1, <1>2 DEF Promise!Alone, Working, Running, Finished
<1> QED
  BY <1>3 DEF Simulates, Promise!ShellNext

LEMMA StartSimulates ==
  ASSUME IInv, IInv', NEW c \in Call, Start(c)
  PROVE  Simulates
<1>1. TypeOK /\ TurnIs /\ TurnIs'
  BY TurnFacts, TurnFactsNext DEF IInv
<1>2. PICK q \in Seq(Call) : Chain(q)
  BY DEF IInv, ChainInv
<1>3. PICK phase \in {"probing", "connecting"} : GoTo(c, phase)
  BY DEF Start, BeginAttempt
<1>4. /\ at' = [at EXCEPT ![c] = phase] /\ at[c] = "chained" /\ after[c] = None
      /\ UNCHANGED <<tail, after, caller>>
  BY <1>3 DEF Start, MyTurn, GoTo
<1>5. Len(q) >= 1 /\ q[1] = c
  BY <1>2, <1>4, AtHead
<1>6. Chain(q)'
  BY <1>1, <1>2, <1>4 DEF TypeOK, Chain
<1>7. Line = q /\ Line' = q
  BY <1>2, <1>6, LineIs, LineIsNext
<1>8. \A d \in Call : ~Works(d)
  BY <1>1, <1>4, <1>5, <1>7 DEF TurnIs, Works
<1>9. ~Working /\ Running = {} /\ ~Finished
  BY <1>1, <1>8 DEF TurnIs, Works
<1>10. Working' /\ Running' = {} /\ ~Finished'
  <2>1. Works(c)' /\ \A d \in Call : at'[d] # "executing"
    BY <1>1, <1>4, <1>8 DEF TypeOK, Works
  <2> QED
    BY <1>1, <2>1 DEF TurnIs
<1>11. Promise!Begin
  BY <1>4, <1>5, <1>7, <1>9, <1>10 DEF Promise!Begin, Working, Running, Finished
<1> QED
  BY <1>11 DEF Simulates, Promise!ShellNext

LEMMA WriteSimulates ==
  ASSUME IInv, IInv', NEW c \in Call, WriteCommand(c)
  PROVE  Simulates
<1>1. TypeOK /\ OneWorks /\ TurnIs /\ Works(c)
  BY TurnFacts, HeadOnly DEF IInv, WriteCommand, Works
<1>2. CASE Fail(c, "other")
  BY <1>1, <1>2, FailSimulates
<1>3. CASE /\ GoTo(c, "executing") /\ UNCHANGED <<caller, mutexVars>>
           /\ exec' = [exec EXCEPT ![using[c]] = IF link[using[c]] = "up" THEN @ \union {c} ELSE @]
  <2>1. at[c] # "executing" /\ at' = [at EXCEPT ![c] = "executing"] /\ seen' = [seen EXCEPT ![c] = FALSE]
    BY <1>3 DEF WriteCommand, GoTo
  <2>2. Quiet(c) /\ at'[c] # "none"
    BY <1>1, <1>3, <2>1, GoToIsQuiet DEF Phase, TypeOK
  <2>3. SameCallers /\ Stays
    BY <1>1, <2>2 DEF Quiet, Ends, TypeOK
  <2>4. \A d \in Call : at[d] # "executing"
    BY <1>1, <2>1 DEF OneWorks, Works
  <2>5. Running = {} /\ ~Finished
    BY <1>1, <2>4 DEF TurnIs
  <2>6. ~Finished'
    BY <1>1, <2>1, <2>4 DEF TypeOK, Finished
  <2>7. Finished' = Finished
    BY <2>5, <2>6 DEF Finished
  <2>8. Line' = Line /\ Working' = Working
    BY <2>3, SameLine
  <2>9. CASE using[c] \in Conn /\ link[using[c]] = "up"
    <3>1. \A k \in Conn : exec[k] = {}
      BY <2>5 DEF Running
    <3>2. exec' = [exec EXCEPT ![using[c]] = {c}]
      BY <1>3, <2>9, <3>1
    <3>3. Running' = {c}
      BY <1>1, <2>9, <3>1, <3>2 DEF TypeOK, Running
    <3>4. Working /\ Line[1] = c
      BY <1>1 DEF TurnIs
    <3>5. Promise!Execute
      BY <1>3, <2>5, <2>7, <2>8, <3>3, <3>4 DEF Promise!Execute, Working, Running, Finished
    <3> QED
      BY <3>5 DEF Simulates, Promise!ShellNext
  <2>10. CASE ~(using[c] \in Conn /\ link[using[c]] = "up")
    <3>1. \A k \in Conn : exec'[k] = exec[k]
      BY <1>1, <1>3, <2>10 DEF TypeOK
    <3>2. Running' = Running
      BY <3>1 DEF Running
    <3> QED
      BY <1>3, <2>3, <2>7, <3>2, TurnIsSame
  <2> QED
    BY <2>9, <2>10
<1> QED
  BY <1>2, <1>3 DEF WriteCommand

\* The exit marker comes for the command that runs, READY and the ping while none does.
LEMMA TokenSimulates ==
  ASSUME IInv, SentInv, NEW c \in Call, TokenArrives(c)
  PROVE  Simulates
<1>1. TypeOK /\ OneWorks /\ TurnIs /\ Works(c)
  BY TurnFacts, HeadOnly DEF IInv, TokenArrives, Works
<1>2. /\ UNCHANGED <<caller, mutexVars, at>>
      /\ seen' = [seen EXCEPT ![c] = TRUE] /\ ~seen[c]
      /\ using[c] \in Conn /\ exec' = [exec EXCEPT ![using[c]] = {}]
      /\ exec[using[c]] \subseteq {c}
  BY DEF TokenArrives
<1>3. SameCallers /\ Stays
  BY <1>1, <1>2, UnchangedIsQuiet
<1>4. CASE at[c] = "executing"
  <2>1. c \in exec[using[c]]
    BY <1>2, <1>4 DEF SentInv, TokenArrives
  <2>2. Running = {c}
    BY <1>1, <1>2, <1>4, <2>1 DEF TurnIs, Running
  <2>3. \A k \in Conn : exec[k] \subseteq {c}
    BY <2>2 DEF Running
  <2>4. \A k \in Conn : k # using[c] => exec[k] = {}
    <3> SUFFICES ASSUME NEW k \in Conn, k # using[c], c \in exec[k] PROVE FALSE
      BY <2>3
    <3> QED
      BY DEF IInv, ExecInv
  <2>5. Running' = {}
    BY <1>1, <1>2, <2>4 DEF TypeOK, Running
  <2>6. Finished'
    BY <1>1, <1>2, <1>4 DEF TypeOK, Finished
  <2>7. Working /\ Line[1] = c
    BY <1>1 DEF TurnIs
  <2>8. Line' = Line /\ Working' = Working
    BY <1>3, SameLine
  <2>9. Finished' = TRUE
    BY <2>6 DEF Finished
  <2>10. Promise!Finish
    BY <1>2, <2>2, <2>5, <2>7, <2>8, <2>9 DEF Promise!Finish, Working, Running, Finished
  <2> QED
    BY <2>10 DEF Simulates, Promise!ShellNext
<1>5. CASE at[c] # "executing"
  <2>1. \A d \in Call : at[d] # "executing"
    BY <1>1, <1>5 DEF OneWorks, Works
  <2>2. Running = {} /\ ~Finished
    BY <1>1, <2>1 DEF TurnIs
  <2>3. Running' = {}
    BY <1>1, <1>2, <2>2 DEF TypeOK, Running
  <2>4. ~Finished'
    BY <1>2, <2>1 DEF Finished
  <2> QED
    BY <1>2, <1>3, <2>3, <2>4, TurnGoesOn
<1> QED
  BY <1>4, <1>5

\* What hangs up a shell, perhaps under a command.
LEMMA EventSimulates ==
  ASSUME IInv, NEW k \in Conn,
         Break(k) \/ ClientCloses(k) \/ StreamCloses(k) \/ IdleTimerFires(k)
  PROVE  Simulates
<1> USE DEF mutexVars, runVars
<1>1. TypeOK /\ TurnIs
  BY TurnFacts DEF IInv
<1>2. UNCHANGED <<caller, mutexVars, at, seen>>
  BY DEF Break, ClientCloses, StreamCloses, IdleTimerFires
<1>3. SameCallers /\ Stays /\ Finished' = Finished
  BY <1>1, <1>2, UnchangedIsQuiet DEF Finished
<1>4. \A l \in Conn : exec'[l] \in {{}, exec[l]}
  BY <1>1 DEF TypeOK, Break, ClientCloses, StreamCloses, IdleTimerFires, Destroy
<1>5. CASE Running' = {}
  BY <1>2, <1>3, <1>5, TurnGoesOn
<1>6. CASE Running' = Running
  BY <1>2, <1>3, <1>6, TurnIsSame
<1>7. \E c : Running \subseteq {c}
  BY <1>1 DEF TurnIs
<1>8. Running' \subseteq Running
  BY <1>4 DEF Running
<1> QED
  BY <1>5, <1>6, <1>7, <1>8

LEMMA ShellStep ==
  ASSUME IInv, IInv', SentInv, [Next]_vars
  PROVE  Simulates
<1> TypeOK
  BY DEF IInv
<1>1. ASSUME NEW c \in Call, NotConnected(c) \/ NoAnswer(c) \/ CommandTimesOut(c) PROVE Simulates
  BY <1>1, FailSimulates DEF NotConnected, NoAnswer, CommandTimesOut, Works
<1>2. ASSUME NEW c \in Call, Poll(c) PROVE Simulates
  BY <1>2, FailSimulates, EndReturns DEF Poll, Works
<1>3. ASSUME NEW c \in Call, PauseOver(c) PROVE Simulates
  <2>1. PICK phase \in {"probing", "connecting"} : GoTo(c, phase)
    BY <1>3 DEF PauseOver, BeginAttempt
  <2> QED
    BY <1>3, <2>1, GoToSimulates DEF PauseOver, Works, Phase
<1>4. ASSUME NEW c \in Call, NEW k \in Conn, Connected(c, k) PROVE Simulates
  BY <1>4, GoToSimulates DEF Connected, Works, Phase
<1>5. ASSUME NEW c \in Call, Abort(c) PROVE Simulates
  <2>1. CASE at[c] = "executing" /\ Fail(c, "other")
    BY <2>1, FailSimulates DEF Works
  <2>2. CASE UNCHANGED <<caller, mutexVars, runVars, exec>>
    <3>1. SameCallers /\ Stays
      BY <2>2, UnchangedIsQuiet DEF runVars
    <3>2. Running' = Running /\ Finished' = Finished
      BY <2>2 DEF Running, Finished, runVars
    <3> QED
      BY <2>2, <3>1, <3>2, TurnIsSame
  <2> QED
    BY <1>5, <2>1, <2>2 DEF Abort
<1>6. CASE UNCHANGED vars
  <2>1. SameCallers /\ Stays
    BY <1>6, UnchangedIsQuiet DEF vars, runVars
  <2>2. Running' = Running /\ Finished' = Finished /\ caller' = caller
    BY <1>6 DEF Running, Finished, vars, runVars, connVars
  <2> QED
    BY <2>1, <2>2, TurnIsSame
<1> QED
  BY <1>1, <1>2, <1>3, <1>4, <1>5, <1>6, AskSimulates, GiveUpSimulates, AloneSimulates,
     StartSimulates, WriteSimulates, TokenSimulates, EventSimulates DEF Next, Proceed

\* The persistent shell implements DeviceShell, for every finite set of calls and any
\* connections, passwords and retries: turns in the order of the calls, abandoned ones
\* included; commands in a shell only by the call whose turn it is, one at a time; and an
\* output only after the caller's own command has come to its end in this turn.
THEOREM ShellKeepsItsPromise == Spec => ImplementsDeviceShell
<1>1. Init => Promise!ShellInit /\ SentInv
  <2> SUFFICES ASSUME Init PROVE Promise!ShellInit /\ SentInv
    OBVIOUS
  <2>1. <<>> \in Seq(Call) /\ Chain(<<>>)
    BY DEF Init, Chain
  <2>2. Line = <<>>
    BY <2>1, LineIs
  <2>3. ~Working /\ Running = {} /\ ~Finished /\ caller = [c \in Call |-> "idle"]
    BY DEF Init, Working, InLine, Running, Finished
  <2>4. SentInv
    BY DEF Init, SentInv
  <2> QED
    BY <2>2, <2>3, <2>4 DEF Promise!ShellInit, Working, Running, Finished
<1>2. IInv /\ SentInv /\ [Next]_vars => SentInv'
  BY SentStep DEF IInv, SessionInv
<1>3. Spec => [](IInv /\ SentInv)
  BY <1>1, <1>2, IInvHolds, PTL DEF Spec
<1>4. IInv /\ IInv' /\ SentInv /\ [Next]_vars => [Promise!ShellNext]_(Promise!shellVars)
  BY ShellStep DEF Simulates
<1> QED
  BY <1>1, <1>3, <1>4, PTL DEF Spec, ImplementsDeviceShell, Promise!ShellSpec
=============================================================================
