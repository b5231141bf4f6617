CONSTANTS
  l1 = l1
  l2 = l2
  t1 = t1
  t2 = t2
  t3 = t3
  t4 = t4
  t5 = t5
  Lane <- MCLane
  Task <- MCTask
  LaneOf <- MCLaneOf
  Limits <- MCLimits
SPECIFICATION Spec
INVARIANTS
  TypeOK
  CountsAgree
  WorkConserving
PROPERTIES
  NoOverAdmission
  NoOvertaking
  QueuedTaskSettles
