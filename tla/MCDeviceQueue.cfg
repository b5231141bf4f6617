CONSTANTS
  d1 = d1
  d2 = d2
  r1 = r1
  r2 = r2
  r3 = r3
  r4 = r4
  None = None
  Device <- MCDevice
  Request <- MCRequest
  Target <- MCTarget
SPECIFICATION SlotSpec
INVARIANTS
  SlotTypeOK
  MutualExclusion
  StatusShowsHolder
  PendingCountIsExact
  CancelledNeverHolds
PROPERTIES
  EveryoneIsAnswered
  ImplementsDeviceSlot
CHECK_DEADLOCK FALSE
