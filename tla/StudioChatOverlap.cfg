CONSTANTS
  d1 = d1
  d2 = d2
  r1 = r1
  r2 = r2
  r3 = r3
  k1 = k1
  k2 = k2
  k3 = k3
  None = None
  Device <- MCDevice
  Request <- MCRequest
  Target <- MCTarget
  SessionOf <- MCTwoConversations
  Session <- MCSession
  MaxRuns = 2
  Slow = {r1}
  Quitting = {r1}
SPECIFICATION Spec
INVARIANT DeviceRunsAreSerial
CHECK_DEADLOCK FALSE
