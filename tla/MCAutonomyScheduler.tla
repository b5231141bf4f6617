------------------------ MODULE MCAutonomyScheduler ------------------------
(* Bounds for TLC: one task that needs approval and runs by the clock, with *)
(* up to two overlapping writes of the file.  Tasks share nothing but that  *)
(* file, which is written as a whole.                                       *)
EXTENDS AutonomyScheduler, TLC

CONSTANT t1
MCTask == {t1}
=============================================================================
