------------------------------- MODULE Lanes -------------------------------
(***************************************************************************)
(* The state of one lane of src/server/agent/command-queue.ts and what the *)
(* queue's functions do to it, as constant operators shared by every       *)
(* module whose component owns lanes.                                      *)
(*                                                                         *)
(* A lane that is not in the `lanes` Map is represented by NewLane: every  *)
(* reader goes through getLaneState, which creates exactly that record, so *)
(* deleting a lane and resetting it to NewLane cannot be told apart.       *)
(***************************************************************************)
EXTENDS Naturals, Sequences

\* LaneState: tasks started and not finished, tasks waiting in FIFO order,
\* and the concurrency limit.
LaneState(Task) ==
  [active: Nat, queue: Seq(Task), maxConcurrent: Nat \ {0}]

\* What getLaneState builds for a name it does not know.
NewLane == [active |-> 0, queue |-> << >>, maxConcurrent |-> 1]

Vacant(s) == s.active = 0 /\ s.queue = << >>

\* Faulty variant of Room: `<=` for `<` in the loop's condition.
RoomPlusOne(s) ==
  IF s.active <= s.maxConcurrent THEN s.maxConcurrent - s.active + 1 ELSE 0

\* How many entries the while loop of drainLane shifts and starts.
Room(s) == IF s.active < s.maxConcurrent THEN s.maxConcurrent - s.active ELSE 0
Batch(s) == IF Room(s) < Len(s.queue) THEN Room(s) ELSE Len(s.queue)

\* Faulty variant of DrainLane: the tasks it starts are not counted.
DrainUncounted(s) ==
  IF Vacant(s) THEN NewLane ELSE [s EXCEPT !.queue = SubSeq(@, Batch(s) + 1, Len(@))]

\* drainLane: a vacant lane is dropped from the Map, otherwise the head of the
\* queue is started while there is room.
StartedBy(s) == { s.queue[i] : i \in 1..Batch(s) }
DrainLane(s) ==
  IF Vacant(s)
  THEN NewLane
  ELSE [s EXCEPT !.active = @ + Batch(s),
                 !.queue  = SubSeq(@, Batch(s) + 1, Len(@))]

\* Faulty variants of the next two: unshift for push; a slot given back both
\* when the task fails and in `finally`.
PushFirst(s, t) == [s EXCEPT !.queue = <<t>> \o @]
FinishTwice(s)  == [s EXCEPT !.active = @ - 2]

\* The three callers of drainLane, up to the call.
PushEntry(s, t) == [s EXCEPT !.queue = Append(@, t)]
FinishEntry(s)  == [s EXCEPT !.active = @ - 1]
SetLimit(s, n)  == [s EXCEPT !.maxConcurrent = n]
=============================================================================
