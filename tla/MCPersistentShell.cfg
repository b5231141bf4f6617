CONSTANTS
  c1 = c1
  c2 = c2
  c3 = c3
  k1 = k1
  k2 = k2
  None = None
  Call <- MCCall
  Stoppable <- MCStoppable
  Conn <- MCConn
  Candidates = 2
  Right = 1
  Retries = 1
  MaxBreaks = 1
  MaxAbandons = 1
SPECIFICATION Spec
INVARIANTS
  TypeOK
  NoOrphanConnection
  OneCommandPerShell
  UnusedSessionHasIdleTimer
PROPERTIES
  FallbackOnlyWhenShellIsOut
  EveryCallReturns
  ImplementsDeviceShell
CHECK_DEADLOCK FALSE
