CONSTANTS
  d1 = d1
  d2 = d2
  r1 = r1
  r2 = r2
  r3 = r3
  k1 = k1
  k2 = k2
  k3 = k3
  None = None
  Device <- MCDevice
  Request <- MCRequest
  Target <- MCTarget
  SessionOf <- MCOneConversation
  Session <- MCSession
  MaxRuns = 2
  Slow = {r1}
  Quitting = {r1}
SPECIFICATION Spec
INVARIANTS
  TypeOK
  SessionRunsAreSerial
  NestedLanesAgree
  StayingConsumerKeepsSlot
PROPERTIES
  CancelledInQueueNeverRuns
  EveryChatEnds
CHECK_DEADLOCK FALSE
