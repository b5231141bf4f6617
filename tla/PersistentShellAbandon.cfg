CONSTANTS
  c1 = c1
  c2 = c2
  c3 = c3
  k1 = k1
  k2 = k2
  None = None
  Call <- MCCall
  Stoppable <- MCStoppable
  Conn <- MCConn
  Candidates = 2
  Right = 1
  Retries = 1
  MaxBreaks = 0
  MaxAbandons = 1
SPECIFICATION Spec
INVARIANT AbandonedCallStaysOut
CHECK_DEADLOCK FALSE
