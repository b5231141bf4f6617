--------------------------- MODULE MCCommandQueue ---------------------------
(* Bounds for TLC: a lane with four tasks beside a lane with one, and the *)
(* limits 1 to 3, so that a lane can be idle, have room, be full, have a  *)
(* backlog and run more than a lowered limit allows.                       *)
EXTENDS CommandQueue, TLC

CONSTANTS l1, l2, t1, t2, t3, t4, t5

MCLane   == {l1, l2}
MCTask   == {t1, t2, t3, t4, t5}
MCLaneOf == t1 :> l1 @@ t2 :> l1 @@ t3 :> l1 @@ t4 :> l1 @@ t5 :> l2
MCLimits == {1, 2, 3}
=============================================================================
