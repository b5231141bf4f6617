CONSTANTS
  t1 = t1
  Absent = Absent
  Empty = Empty
  Garbled = Garbled
  MaxWrites = 2
  Task <- MCTask
  NeedsApproval = {}
  Cron = {}
SPECIFICATION Spec
INVARIANT PauseHolds
