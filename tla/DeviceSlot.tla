----------------------------- MODULE DeviceSlot -----------------------------
(***************************************************************************)
(* What src/server/rdkclaw/device-queue.ts promises its callers, without   *)
(* the machinery: a device has one slot; requests line up for it, may walk *)
(* away while they wait, get it in the order they arrived and keep it until *)
(* they give it back.                                                      *)
(***************************************************************************)
CONSTANTS Device, Request, None

VARIABLES
  line,    \* device -> the requests that wait for it
  ahead,   \* request -> those who came before it and still wait, while it waits
  holder,  \* device -> the request that has the slot, or None
  seen     \* the requests that have asked; each asks once

slotVars == <<line, ahead, holder, seen>>

SlotInit ==
  /\ line = [d \in Device |-> {}]
  /\ ahead = [r \in Request |-> {}]
  /\ holder = [d \in Device |-> None]
  /\ seen = {}

\* A request asks: it may be served at once when nobody is ahead, it may have
\* to line up, or it may have been withdrawn before it asked.
AskAndHold(r, d) ==
  /\ line[d] = {} /\ holder[d] = None
  /\ holder' = [holder EXCEPT ![d] = r]
  /\ UNCHANGED <<line, ahead>>

AskAndWait(r, d) ==
  /\ line' = [line EXCEPT ![d] = @ \union {r}]
  /\ ahead' = [ahead EXCEPT ![r] = line[d]]
  /\ UNCHANGED holder

Ask(r, d) ==
  /\ r \notin seen
  /\ seen' = seen \union {r}
  /\ AskAndHold(r, d) \/ AskAndWait(r, d) \/ UNCHANGED <<line, ahead, holder>>

\* The requests in S are no longer in any line.
StepOut(S) ==
  /\ line' = [d \in Device |-> line[d] \ S]
  /\ ahead' = [r \in Request |-> IF r \in S THEN {} ELSE ahead[r] \ S]

\* Waiting requests withdraw, some or all of them at once.
Leave(S) == StepOut(S) /\ UNCHANGED <<holder, seen>>

\* The free slot goes to the first in line.
Grant(r, d) ==
  /\ holder[d] = None
  /\ r \in line[d] /\ ahead[r] = {}
  /\ holder' = [holder EXCEPT ![d] = r]
  /\ StepOut({r})
  /\ UNCHANGED seen

GiveBack(d) ==
  /\ holder[d] # None
  /\ holder' = [holder EXCEPT ![d] = None]
  /\ UNCHANGED <<line, ahead, seen>>

SlotNext ==
  \/ \E r \in Request, d \in Device : Ask(r, d) \/ Grant(r, d)
  \/ \E S \in SUBSET Request : Leave(S)
  \/ \E d \in Device : GiveBack(d)

SlotSpec == SlotInit /\ [][SlotNext]_slotVars
=============================================================================
