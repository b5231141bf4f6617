CONSTANTS
  t1 = t1
  Absent = Absent
  Empty = Empty
  Garbled = Garbled
  MaxWrites = 2
  Task <- MCTask
  NeedsApproval = {t1}
  Cron = {t1}
SPECIFICATION Spec
INVARIANTS
  TypeOK
  BreakerHolds
  StopWins
  EveryChangeIsSaved
PROPERTIES
  DueTaskRunsAgain
